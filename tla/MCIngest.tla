------------------------------ MODULE MCIngest ------------------------------
(***************************************************************************)
(* The instance of TreeIngest for TLC: seven declarations, each with the     *)
(* rows that reach its hard cases.                                         *)
(***************************************************************************)
EXTENDS TreeIngest

Shape(level, parent, order, key, over, readable) ==
  [level |-> level, parent |-> parent, order |-> order, key |-> key, over |-> over, readable |-> readable]

Blank == [root |-> "a", ord |-> NULL, level |-> 0, key |-> NULL, parent |-> NULL, sib |-> 0,
          size |-> NULL, children |-> NULL, next |-> NULL, rawparent |-> NULL]

\* Every level sequence of one root, in scan order.
Scan == Shape(TRUE, FALSE, FALSE, FALSE, {}, FALSE)
ScanRows == {[Blank EXCEPT !.level = l] : l \in {NULL, -1, 0, 1, 2, 3}}

\* Two roots, an ORDER that may be NULL or tie, and a PARENT written in it.
Ordered == Shape(TRUE, TRUE, TRUE, FALSE, {}, TRUE)
OrderedRows ==
  {[Blank EXCEPT !.root = r, !.ord = o, !.level = l, !.rawparent = p] :
     r \in {"a", "b"}, o \in {NULL, 2, 5, 7}, l \in {0, 1}, p \in {NULL, 2, 5}}

\* Declared SIZE, CHILDREN and NEXT, right and wrong; NEXT names rows by an ORDER
\* that is neither dense nor in scan order, or by the scan position, read back from
\* an open ATTR or not.
Sizes  == Shape(TRUE, FALSE, FALSE, FALSE, {"SIZE", "CHILDREN"}, FALSE)
Nexts  == Shape(TRUE, FALSE, TRUE, FALSE, {"NEXT"}, TRUE)
Hidden == Shape(TRUE, FALSE, FALSE, FALSE, {"SIZE", "NEXT"}, FALSE)
Raw(s, slot, values) == IF slot \in s.over THEN values ELSE {NULL}
OverRows(s) ==
  {[Blank EXCEPT !.ord = o, !.level = l, !.size = z, !.children = c, !.next = n] :
     o \in IF s.order THEN {2, 5, 7} ELSE {NULL}, l \in {0, 1, 2},
     z \in Raw(s, "SIZE", {NULL, 0, 1, 2}), c \in Raw(s, "CHILDREN", {0, 1, 2}),
     n \in Raw(s, "NEXT", IF s.order THEN {NULL, 5, 7, 9} ELSE {NULL, 2, 3, 9})}

\* The parent basis over keys that may repeat or be NULL, orphans and cycles.
Walks == Shape(FALSE, TRUE, FALSE, TRUE, {}, TRUE)
WalkRows ==
  {[Blank EXCEPT !.key = k, !.parent = p, !.sib = b] :
     k \in {1, 2, 3, NULL}, p \in {NULL, 1, 2, 3}, b \in {0, 1}}

\* The parent basis over two roots that reuse each other's keys.
Forests == Shape(FALSE, TRUE, FALSE, TRUE, {}, FALSE)
ForestRows ==
  {[Blank EXCEPT !.root = r, !.key = k, !.parent = p] :
     r \in {"a", "b"}, k \in {1, 2}, p \in {NULL, 1, 2}}

AllShapes == {Scan, Ordered, Sizes, Nexts, Hidden, Walks, Forests}
AllRows == [s \in AllShapes |->
  CASE s = Scan    -> ScanRows
    [] s = Ordered -> OrderedRows
    [] s = Walks   -> WalkRows
    [] s = Forests -> ForestRows
    [] OTHER       -> OverRows(s)]
RowBounds == [s \in AllShapes |-> CASE s = Scan -> 5 [] s = Forests -> 4 [] OTHER -> 3]

=============================================================================
