---------------------------- MODULE TreeRelations ----------------------------
(***************************************************************************)
(* The navigation relations of the engine (07_match.sql) and the           *)
(* traversals over them (08_traversal.sql), as predicates on rows of the   *)
(* canonical encoding.                                                     *)
(*                                                                         *)
(* A row has root, pre, level, parent, size and element.  elem is the      *)
(* tree's ELEMENT flag: with it the sibling relations look for the nearest *)
(* element row through the __sib window, without it they use the O(1)      *)
(* arithmetic of preorder and size.                                        *)
(***************************************************************************)
EXTENDS TreeEncoding

-----------------------------------------------------------------------------
(* Fragments: what a step b may be to the step a before it.                *)

SameRoot(a, b)  == b.root = a.root

Subtree(a, b)   == SameRoot(a, b) /\ b.pre \in a.pre + 1 .. a.pre + a.size
Children(a, b)  == SameRoot(a, b) /\ b.parent = a.pre
Parent(a, b)    == SameRoot(a, b) /\ b.pre = a.parent
Ancestors(a, b) == Subtree(b, a)
Self(a, b)      == SameRoot(a, b) /\ b.pre = a.pre

\* IS NOT DISTINCT FROM: the level-0 rows of a partition are siblings.
Siblings(a, b)  == SameRoot(a, b) /\ b.parent = a.parent /\ b.pre # a.pre

After(a, b)     == Siblings(a, b) /\ b.pre > a.pre /\ b.element

\* __sib: first_value and last_value IGNORE NULLS over the siblings after and before.
ElementSiblings(rows, a) == {b \in rows : Siblings(a, b) /\ b.element}
NextEl(rows, a) ==
  LET later == {b.pre : b \in ElementSiblings(rows, a)} \cap {p \in 0 .. Cardinality(rows) : p > a.pre}
  IN  IF later = {} THEN NULL ELSE Least(later)
PrevEl(rows, a) ==
  LET earlier == {b.pre : b \in ElementSiblings(rows, a)} \cap {p \in 0 .. Cardinality(rows) : p < a.pre}
  IN  IF earlier = {} THEN NULL ELSE Greatest(earlier)

\* A mutant: the row after a's own position, whatever hangs below a.
NextSiblingAdjacent(rows, elem, a, b) ==
  Siblings(a, b) /\ b.pre = IF elem THEN NextEl(rows, a) ELSE a.pre + 1
NextSibling(rows, elem, a, b) ==
  Siblings(a, b) /\ b.pre = IF elem THEN NextEl(rows, a) ELSE a.pre + a.size + 1
PrevSibling(rows, elem, a, b) ==
  Siblings(a, b) /\ IF elem THEN b.pre = PrevEl(rows, a) ELSE a.pre = b.pre + b.size + 1

\* Positional fragments constrain one row; _pre = _parent + 1 is NULL for a row at
\* level 0, hence the COALESCE to _pre = 0.
FirstChild(rows, elem, a) ==
  IF elem THEN a.element /\ PrevEl(rows, a) = NULL
  ELSE IF a.parent = NULL THEN a.pre = 0 ELSE a.pre = a.parent + 1
LastChild(rows, elem, a) ==
  IF elem THEN a.element /\ NextEl(rows, a) = NULL
  ELSE ~\E x \in rows : SameRoot(a, x) /\ x.pre = a.pre + a.size + 1 /\ x.parent = a.parent

-----------------------------------------------------------------------------
(* tree_catalog.combinators: the relations a selector may name, and those  *)
(* that mean nothing among siblings nothing orders.                        *)

Combinator == {"desc", "child", "self", "next", "after", "parent", "ancestor", "prev"}
\* A mutant: PRECEDING registered without the capability.
RequiresOrderForward == {"next", "after"}
RequiresOrder == {"next", "after", "prev"}

\* tree_sql_comb: the registered template, with the element form when there is one.
Comb(rows, elem, op, a, b) ==
  CASE op = "desc"     -> Subtree(a, b)
    [] op = "child"    -> Children(a, b)
    [] op = "self"     -> Self(a, b)
    [] op = "next"     -> NextSibling(rows, elem, a, b)
    [] op = "after"    -> After(a, b)
    [] op = "parent"   -> Parent(a, b)
    [] op = "ancestor" -> Ancestors(a, b)
    [] op = "prev"     -> PrevSibling(rows, elem, a, b)

Positional == {"first-child", "last-child"}

\* tree_sql_builtin_predicate
Builtin(rows, elem, name, a) ==
  CASE name = "first-child" -> FirstChild(rows, elem, a)
    [] name = "last-child"  -> LastChild(rows, elem, a)

-----------------------------------------------------------------------------
(* tree_nav: the rows that stand in a relation to the anchor (key, pre).   *)
(* An anchor that names no row, NULL or 5.7 included, selects none.        *)

Traversal == {"children", "descendants", "ancestors", "parent", "siblings",
              "next_sibling", "prev_sibling", "first_child", "last_child"}

\* The element flag is always TRUE here, which must not change an answer on a tree
\* of elements only.
Reaches(rows, name, a, b) ==
  CASE name = "children"     -> Children(a, b)
    [] name = "descendants"  -> Subtree(a, b)
    [] name = "ancestors"    -> Ancestors(a, b)
    [] name = "parent"       -> Parent(a, b)
    [] name = "siblings"     -> Siblings(a, b)
    [] name = "next_sibling" -> NextSibling(rows, TRUE, a, b)
    [] name = "prev_sibling" -> PrevSibling(rows, TRUE, a, b)
    [] name = "first_child"  -> Children(a, b) /\ FirstChild(rows, TRUE, b)
    [] name = "last_child"   -> Children(a, b) /\ LastChild(rows, TRUE, b)

Nav(rows, name, key, pre) ==
  {b \in rows : \E a \in rows : a.root = key /\ a.pre = pre /\ Reaches(rows, name, a, b)}

=============================================================================
