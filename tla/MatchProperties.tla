--------------------------- MODULE MatchProperties ---------------------------
(***************************************************************************)
(* What is claimed of LOAD and of tree_match.                              *)
(***************************************************************************)
EXTENDS TreeMatch

-----------------------------------------------------------------------------
(* LOAD.                                                                   *)

\* A function a session can call finds everything the embedded files make: no
\* interleaving of faults, retries and restarts leaves verbs over half a script.
RegisteredMeansLoaded ==
  functions # {} => \A i \in DOMAIN Script : Script[i].obj \in objects

\* A LOAD that the database itself refuses is refused before it changed anything,
\* and only because an earlier LOAD got as far as the types: nothing in a file
\* needs a later one, whatever order the build wrote them down in.
RefusedLoadChangesNothing ==
  load.why = "raised" => load.at = 1 /\ Script[1].op = "create" /\ Script[1].obj \in objects

-----------------------------------------------------------------------------
(* tree_match.                                                             *)

Opens(s) == match[s].pc = "bound" /\ match'[s].pc = "open"

\* A new value of a field of s's match, other than the empty one.
Takes(s, field) == match'[s][field] # match[s][field] /\ match'[s][field] # NoMatch[field]

\* "a read disagreeing with its own reader": the rows a match hands out are the
\* rows its caller's own session would have read at that moment, whether it was
\* bound in this transaction or prepared before it began.
AnswersSeeOwnWrites ==
  [][\A s \in Reader : Opens(s) => match'[s].shown = Answer(Sees(s).db, match[s].query)]_vars

\* A plan, which EXPLAIN prints without running it, is made from the registry and
\* the catalog as its caller's own session sees them.
PlansSeeOwnWrites ==
  [][\A s \in Reader :
       LET req == match[s].req IN
       /\ Takes(s, "lang")   => match'[s].lang \in {req.language, Sees(s).registry.default}
       /\ Takes(s, "parser") => match'[s].parser = Sees(s).registry.parser[match[s].lang]
       /\ Takes(s, "query")  =>
            match'[s].query = MatchQuery(Sees(s).db, req, SelectorIr(req, match[s].parser), match[s].lang)]_vars

\* _match_language is the language the caller named, else the one of the front-end
\* that read the text or built the IR, else treeql; never what the default was or
\* has become since.
WhoRead(m) ==
  CASE m.req.language # NULL -> m.req.language
    [] m.req.language = NULL /\ m.req.text -> Stamps[m.parser]
    [] OTHER -> IF m.req.sel.stamp # NULL THEN m.req.sel.stamp ELSE "treeql"
LabelSaysWhoRead ==
  \A s \in Reader : match[s].query # NoQuery => match[s].query.label = WhoRead(match[s])

\* A plan may outlive the source's rows, the tree's partitions, the registry of
\* languages and any number of executions: while the tree's registration is the one
\* it was compiled from, it answers what the selector, compiled afresh, would, under
\* the columns it announced.
PlansOutliveOtherChanges ==
  [][\A s \in Reader :
       LET m == match[s]
           again == MatchQuery(db, m.req, SelectorIr(m.req, m.parser), m.lang)
       IN  Opens(s) /\ m.query.from = Registration(db, m.query.t) =>
             match'[s].shown = Answer(db, again) /\ Columns(db, m.query.t) = m.columns]_vars

\* A match that starts ends, whatever happens around it.
MatchesReturn == \A s \in Reader : ~Resting(s) ~> Resting(s)

=============================================================================
