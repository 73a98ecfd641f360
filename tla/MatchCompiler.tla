---------------------------- MODULE MatchCompiler ----------------------------
(***************************************************************************)
(* tree_compile_match (07_match.sql): which selectors it refuses, and what *)
(* the query it compiles answers.                                          *)
(*                                                                         *)
(* A selector is IR: a sequence of nodes [id, parent, kind, op, value].    *)
(* Node 0 is the root; steps hang off it or off a HAS/NOT group, groups    *)
(* and clauses off a step.  The compiler folds the IR from the inside out  *)
(* in a fixed number of passes.  Here the predicates of a pass are the     *)
(* <<node id, row>> pairs they hold for, built by the same passes.         *)
(*                                                                         *)
(* Abstracted: aliases (steps are told apart by their ids, so aliases      *)
(* that repeat are out of scope), the text of clauses (a row "says" the    *)
(* <<kind, value>> pairs that hold of it), and the per-query overlay.      *)
(***************************************************************************)
EXTENDS TreeRelations, SequencesExt

\* An op that is not given is no combinator.
ASSUME OpsAssumption == NULL \notin Combinator

ClauseKind == {"type", "id", "class", "attr", "pseudo", "where"}
NeedsSemantic == ClauseKind \ {"where"}
IrKind == {"selector", "step", "has", "not"} \cup ClauseKind
DepthLimit == 2   \* tree_group_depth_limit()

Group(n) == n.kind \in {"has", "not"}
Node(ir, id) == CHOOSE n \in ToSet(ir) : n.id = id
Under(ir, id) == {n \in ToSet(ir) : n.parent = id}
Steps(ir, id) == {n \in Under(ir, id) : n.kind = "step"}

\* list(... ORDER BY node_id): the i-th of S has i - 1 of it before it.
InOrder(S) == [i \in 1 .. Cardinality(S) |-> CHOOSE n \in S : Cardinality({m \in S : m.id < n.id}) = i - 1]
Chain(ir, id) == InOrder(Steps(ir, id))

\* tree_selector_group_depth: the walk down from the nodes without a parent, bounded.
GroupDepth(ir) ==
  LET bound == 2 * DepthLimit + 3
      walk[lv \in 0 .. bound] ==
        IF lv = 0 THEN {[n |-> n, d |-> 0] : n \in {x \in ToSet(ir) : x.parent = NULL}}
        ELSE UNION {{[n |-> n, d |-> w.d + IF Group(n) THEN 1 ELSE 0] : n \in Under(ir, w.n.id)} : w \in walk[lv - 1]}
      depths == {w.d : w \in UNION {walk[lv] : lv \in 0 .. bound}}
  IN  IF depths = {} THEN 0 ELSE Greatest(depths)

-----------------------------------------------------------------------------
(* Refusals.  tree is [sem, free, elem, preds, attrs]: a SEMANTIC group is *)
(* declared, the profile is sibling_free, ELEMENT is declared, and the     *)
(* predicate and attribute names it serves.                                *)

NoSteps(ir)  == ~\E n \in ToSet(ir) : n.kind = "step"
DupIds(ir)   == Cardinality({n.id : n \in ToSet(ir)}) # Len(ir)
TooDeep(ir)  == GroupDepth(ir) > DepthLimit
EmptyGroup(ir) == \E g \in ToSet(ir) : Group(g) /\ Steps(ir, g.id) = {}
\* No parent, or one of no such id, has no kind.
KindOver(ir, n) == {p.kind : p \in {x \in ToSet(ir) : x.id = n.parent}}
LooseClause(ir) == \E c \in ToSet(ir) : c.kind \in ClauseKind /\ "step" \notin KindOver(ir, c)
BadKind(ir)  == \E c \in ToSet(ir) : c.kind \notin IrKind /\ "step" \notin KindOver(ir, c)
\* A mutant: a group may hang off anything.
BadParentSteps(ir) ==
  \E c \in ToSet(ir) : c.kind = "step" /\ KindOver(ir, c) \cap {"selector", "has", "not"} = {}
BadParent(ir) ==
  \E c \in ToSet(ir) :
    \/ c.kind = "step" /\ KindOver(ir, c) \cap {"selector", "has", "not"} = {}
    \/ (Group(c) \/ c.kind \in ClauseKind) /\ "step" \notin KindOver(ir, c)
BadSelf(ir) ==
  \E s \in ToSet(ir) : s.kind = "step" /\ s.op = "self" /\
    ~\E g \in ToSet(ir) : g.id = s.parent /\ Group(g) /\ \A x \in Steps(ir, g.id) : s.id <= x.id

\* The checks of n: what a tree without the S group, or without an order, can answer.
Unavailable(tree, n) ==
  LET builtin == n.kind = "pseudo" /\ n.value \in Positional
  IN  \/ n.kind \in NeedsSemantic /\ ~tree.sem /\ ~builtin
      \/ tree.free /\ (builtin \/ (n.kind = "step" /\ n.op \in RequiresOrder))

\* top: the steps under a selector node, joined in order.
TopSteps(ir) == UNION {Steps(ir, n.id) : n \in {x \in ToSet(ir) : x.kind = "selector"}}
Top(ir) == InOrder(TopSteps(ir))

\* tree_sql_comb and tree_sql_clause refuse what they cannot spell.  The op of the
\* first step of the outer chain is never read; a group's first defaults to desc.
UnknownComb(ir) ==
  \/ \E i \in 2 .. Len(Top(ir)) : Top(ir)[i].op \notin Combinator
  \/ \E g \in ToSet(ir) : Group(g) /\ \E i \in DOMAIN Chain(ir, g.id) :
       Chain(ir, g.id)[i].op \notin Combinator \cup (IF i = 1 THEN {NULL} ELSE {})
UnknownClause(tree, ir) ==
  \E c \in ToSet(ir) : "step" \in KindOver(ir, c) /\
    \/ c.kind \notin ClauseKind \cup {"has", "not", "step"}
    \/ c.kind = "attr" /\ c.value \notin tree.attrs

Accepted(tree, ir) ==
  ~(\/ NoSteps(ir) \/ DupIds(ir) \/ TooDeep(ir) \/ EmptyGroup(ir) \/ LooseClause(ir)
    \/ BadKind(ir) \/ BadParent(ir) \/ BadSelf(ir)
    \/ \E n \in ToSet(ir) : Unavailable(tree, n)
    \/ UnknownComb(ir) \/ UnknownClause(tree, ir))

-----------------------------------------------------------------------------
(* The fold.                                                               *)

\* tree_sql_clause; a predicate nothing binds is 'false'.
Holds(tree, rows, c, r) ==
  IF c.kind = "pseudo" /\ c.value \in Positional THEN Builtin(rows, tree.elem, c.value, r)
  ELSE IF c.kind = "pseudo" /\ c.value \notin tree.preds THEN FALSE
  ELSE <<c.kind, c.value>> \in r.says

StepIds(ir)  == {n.id : n \in {x \in ToSet(ir) : x.kind = "step"}}
GroupIds(ir) == {n.id : n \in {x \in ToSet(ir) : Group(x)}}

\* A step from its clauses alone, ...
StepA(tree, ir, rows) ==
  {p \in StepIds(ir) \X rows : \A c \in Under(ir, p[1]) : c.kind \in ClauseKind => Holds(tree, rows, c, p[2])}

\* tree_sql_chain: what its joins bind, each step ON its relation to the one before.
Joined(tree, rows, chain, pass) ==
  {b \in [DOMAIN chain -> rows] :
     \A k \in DOMAIN chain :
       <<chain[k].id, b[k]>> \in pass /\ (k > 1 => Comb(rows, tree.elem, chain[k].op, b[k - 1], b[k]))}

\* ... a group from the steps of a pass: (NOT) EXISTS (its chain, anchored on a), ...
Groups(tree, ir, rows, pass) ==
  UNION {LET chain  == Chain(ir, g)
             joined == Joined(tree, rows, chain, pass)
             op     == IF chain[1].op = NULL THEN "desc" ELSE chain[1].op
             found  == {a \in rows : \E b \in joined : Comb(rows, tree.elem, op, a, b[1])}
         IN  {g} \X (IF Node(ir, g).kind = "has" THEN found ELSE rows \ found) : g \in GroupIds(ir)}

\* ... and a step from its clauses and its groups.
StepWith(tree, ir, rows, groups) ==
  {p \in StepA(tree, ir, rows) : \A g \in GroupIds(ir) : Node(ir, g).parent = p[1] => <<g, p[2]>> \in groups}

\* The passes, unrolled to DepthLimit group levels.
\* (A mutant: one level only.)
StepCOnePass(tree, ir, rows) ==
  StepWith(tree, ir, rows, Groups(tree, ir, rows, StepA(tree, ir, rows)))
StepC(tree, ir, rows) ==
  LET grpA  == Groups(tree, ir, rows, StepA(tree, ir, rows))
      stepB == StepWith(tree, ir, rows, grpA)
      grpB  == Groups(tree, ir, rows, stepB)
  IN  StepWith(tree, ir, rows, grpB)

\* The query: one answer per binding of the outer chain.
Answers(tree, ir, rows) == Joined(tree, rows, Top(ir), StepC(tree, ir, rows))

\* The nodes that are in the compiled text: the top steps, and what each pass hangs
\* off a step or a group it reaches.
Compiled(ir) ==
  LET parts(S)  == UNION {{n \in Under(ir, s.id) : n.kind # "step"} : s \in S}
      inner(S)  == UNION {Steps(ir, g.id) : g \in {n \in parts(S) : Group(n)}}
      top == TopSteps(ir)
      two == inner(inner(top))
  IN  top \cup parts(top) \cup inner(top) \cup parts(inner(top)) \cup two
      \cup {n \in parts(two) : ~Group(n)}

=============================================================================
