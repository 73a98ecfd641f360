----------------------------- MODULE MCSelectors -----------------------------
(***************************************************************************)
(* Instances of SelectorSpace for TLC: every small forest under a set of   *)
(* selectors, and every small selector over one forest.                    *)
(***************************************************************************)
EXTENDS SelectorSpace

Tree(sem, free, elem) == [sem |-> sem, free |-> free, elem |-> elem, preds |-> {"leaf"}, attrs |-> {"n"}]
Elements == Tree(TRUE, FALSE, TRUE)
AllTrees == {Elements, Tree(TRUE, FALSE, FALSE), Tree(FALSE, TRUE, FALSE)}

N(id, parent, kind, op, value) == [id |-> id, parent |-> parent, kind |-> kind, op |-> op, value |-> value]
Root == N(0, NULL, "selector", NULL, NULL)
Step(id, parent, op) == N(id, parent, "step", op, NULL)
Has(id, parent) == N(id, parent, "has", NULL, NULL)
Not(id, parent) == N(id, parent, "not", NULL, NULL)
Where(id, parent) == N(id, parent, "where", NULL, "x")
Pseudo(id, parent, value) == N(id, parent, "pseudo", NULL, value)

\* A chain per combinator, and groups around every kind of part.
Pairs == {<<Root, Step(1, 0, NULL), Where(2, 1), Step(3, 0, op)>> : op \in Combinator \ {"self"}}
Probes == Pairs \cup
  {<<Root>>,
   <<Root, Step(1, 0, NULL), Not(2, 1), Step(3, 2, "self"), Where(4, 3)>>,
   <<Root, Step(1, 0, NULL), Step(2, 0, "child"), Pseudo(3, 2, "first-child"), Step(4, 0, "next")>>,
   <<Root, Step(1, 0, NULL), Has(2, 1), Step(3, 2, "child"), Not(4, 3), Step(5, 4, "next"), Where(6, 5)>>,
   <<Root, Step(1, 0, NULL), Pseudo(2, 1, "last-child"), Not(3, 1), Step(4, 3, NULL), Step(5, 3, "prev")>>}

\* root a: 1(2(3) 4) 5, root b: 6.
Row(root, up, element, says) == [root |-> root, up |-> up, element |-> element, says |-> says]
Sample == <<Row("a", 0, TRUE, {}), Row("a", 1, TRUE, {<<"where", "x">>}), Row("a", 2, TRUE, {<<"type", "f">>}),
            Row("a", 1, TRUE, {<<"type", "f">>, <<"where", "x">>}), Row("b", 0, TRUE, {<<"where", "x">>})>>
Nested == <<Root, Step(1, 0, NULL), Has(2, 1), Step(3, 2, "child"), Not(4, 3), Step(5, 4, NULL)>>

\* Every probe over the forests drawn for every declaration, and selectors grown over the
\* sample: under any declaration from one step, from two nested groups under the first.
AllSeeds == [tree : AllTrees, forest : {<<>>}, ir : Probes]
            \cup [tree : AllTrees, forest : {Sample}, ir : {<<Root, Step(1, 0, NULL)>>}]
            \cup {[tree |-> Elements, forest |-> Sample, ir |-> s] : s \in {<<Root>>, Nested}}
LoneSeed == {[tree |-> Elements, forest |-> Sample, ir |-> <<Root, Step(1, 0, NULL)>>]}

Look(element, says) == [element |-> element, says |-> says]
AllLooks == {Look(TRUE, {}), Look(TRUE, {<<"where", "x">>}), Look(FALSE, {<<"where", "x">>})}

Part(kind, op, value) == [kind |-> kind, op |-> op, value |-> value]
AllNodes == {Part("step", op, NULL) : op \in {NULL, "child", "prev", "self", "no such"}}
            \cup {Part("has", NULL, NULL), Part("not", NULL, NULL),
                  Part("where", NULL, "x"), Part("type", NULL, "f"), Part("no such", NULL, NULL),
                  Part("pseudo", NULL, "last-child"), Part("pseudo", NULL, "unbound"), Part("attr", NULL, "m")}
FewNodes == {Part("step", "child", NULL), Part("not", NULL, NULL), Part("where", NULL, "x")}

=============================================================================
