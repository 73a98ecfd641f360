------------------------------ MODULE TreeMatch ------------------------------
(***************************************************************************)
(* tree_match (duckent_match.cpp): a read.  Bind compiles the selector on  *)
(* one side connection, each of its reads seeing what is committed at that *)
(* moment, and takes the result's schema from the compiled query; init     *)
(* runs the query on a second connection and keeps the whole result; the   *)
(* operator hands it out chunk by chunk.  A prepared match is bound once   *)
(* and run later, as often as its owner likes.                             *)
(*                                                                         *)
(* Around it: LOAD (Loader), without which there is nothing to call; the   *)
(* verbs of other sessions, each one atomic step (AtomicVerbs); DML on     *)
(* sources and on the registry of languages, committed or inside the       *)
(* reader's own transaction; the end of the process.                       *)
(*                                                                         *)
(* A selector is what the executor and the compiler's catalog reads tell   *)
(* apart: the S slots its clauses read, the predicates it names, and the   *)
(* language its front-end stamped on it.  A chunk of an answer is what one *)
(* ROOT partition contributes.                                             *)
(***************************************************************************)
EXTENDS Snapshot, Loader

CONSTANTS
  AllCalls, Txs, \* the calls other sessions may make, and their transactions
  Reader,      \* the sessions that match
  Requests,    \* the matches they may ask for
  Stamps,      \* [parser macros in scope -> the language each stamps]
  Contents0,   \* the source relation at the start
  Edits,       \* changes a user may make of a source or of the registry
  MaxVerbs,    \* bound: verbs applied
  MaxEdits,    \* bound: changes made, committed or not
  MaxMatches   \* bound: matches bound

ASSUME NoParserAssumption == NoParser = NULL
ASSUME VerbsAssumption ==
  \A c \in AllCalls :
    c.verb \in {"tree_ddl_create", "tree_ddl_drop", "tree_ddl_alter",
               "tree_insert", "tree_replace", "tree_delete", "tree_check"}
ASSUME EditsAssumption == \A c \in Edits : c.what \in {"source", "default", "parser"}
ASSUME RequestsAssumption == \A r \in Requests : r.sel # NULL => "stamp" \in DOMAIN r.sel
ASSUME StampsAssumption == \A p \in DOMAIN Stamps : Stamps[p] # NULL

VARIABLES
  db, pio,     \* the committed database, the setting preserve_insertion_order
  caller,      \* a reader's transaction: "auto", "explicit" or "invalid"
  own,         \* its snapshot and what it sees: [base, view], each [db, registry]
  match,       \* its match
  verbs, edits, begun  \* verbs applied, changes made, matches bound

INSTANCE AtomicVerbs

matchVars == <<caller, own, match, begun>>
vars == <<db, pio, loaderVars, matchVars, verbs, edits>>

EmptyDb == [rel \in Relation |-> {}]
Start   == [EmptyDb EXCEPT !["source"] = Contents0]

NoRequest == [kind |-> "none"]
NoQuery   == [t |-> NULL]
NoMatch ==
  [pc |-> "idle", req |-> NoRequest, lang |-> NULL, parser |-> NULL, query |-> NoQuery,
   columns |-> {}, shown |-> {}, rest |-> {}, how |-> "none"]

Nothing == [base |-> [db |-> EmptyDb, registry |-> EmptyRegistry],
            view |-> [db |-> EmptyDb, registry |-> EmptyRegistry]]

Init ==
  /\ db = Start /\ pio = TRUE
  /\ LoaderInit
  /\ caller = [s \in Reader |-> "auto"]
  /\ own = [s \in Reader |-> Nothing]
  /\ match = [s \in Reader |-> NoMatch]
  /\ verbs = 0 /\ edits = 0 /\ begun = 0

-----------------------------------------------------------------------------
(* What a session sees, and how it changes it.                             *)

Committed == [db |-> db, registry |-> registry]

\* Its own transaction's view, when it is in one.
Sees(s) == IF caller[s] = "auto" THEN Committed ELSE own[s].view

\* No statement, or a prepared one that is not running.
Resting(s) ==
  \/ match[s].pc = "idle"
  \/ match[s].pc = "bound" /\ match[s].req.kind = "prepare"

\* DML on a source, on the default language, on a language's parser.
Changed(st, c) ==
  CASE c.what = "source" ->
         [st EXCEPT !.db = [@ EXCEPT !["source"] =
            {r \in @ : r.src # c.src} \cup {[src |-> c.src, root |-> p.root, part |-> p.part] : p \in c.parts}]]
    [] c.what = "default" -> [st EXCEPT !.registry.default = c.language]
    [] c.what = "parser"  ->
         [st EXCEPT !.registry.parser = [l \in DOMAIN @ \cup {c.language} |-> IF l = c.language THEN c.parser ELSE @[l]]]

\* The registry is there once its table is.
Editable(c) == edits < MaxEdits /\ (c.what # "source" => <<"tables", 1>> \in objects)

BeginExplicit(s) ==
  /\ Resting(s) /\ caller[s] = "auto"
  /\ caller' = [caller EXCEPT ![s] = "explicit"]
  /\ own' = [own EXCEPT ![s] = [base |-> Committed, view |-> Committed]]
  /\ UNCHANGED <<db, pio, loaderVars, match, begun, verbs, edits>>

EditInside(s) ==
  /\ Resting(s) /\ caller[s] = "explicit"
  /\ \E c \in Edits : Editable(c) /\ own' = [own EXCEPT ![s].view = Changed(@, c)]
  /\ edits' = edits + 1
  /\ UNCHANGED <<db, pio, loaderVars, caller, match, begun, verbs>>

Leaves(s) ==
  /\ caller' = [caller EXCEPT ![s] = "auto"]
  /\ own' = [own EXCEPT ![s] = Nothing]

\* ROLLBACK, and a COMMIT that conflicts.
RollBackExplicit(s) ==
  /\ Resting(s) /\ caller[s] # "auto"
  /\ Leaves(s)
  /\ UNCHANGED <<db, pio, loaderVars, match, begun, verbs, edits>>

CommitExplicit(s) ==
  /\ Resting(s) /\ caller[s] = "explicit"
  /\ LET base == own[s].base  view == own[s].view IN
       /\ ~Conflict(db, base.db, view.db)
       /\ view.registry # base.registry => registry = base.registry
       /\ db' = Merge(db, base.db, view.db)
       /\ registry' = IF view.registry = base.registry THEN registry ELSE view.registry
  /\ Leaves(s)
  /\ UNCHANGED <<pio, objects, functions, load, match, begun, verbs, edits>>

\* Anyone's autocommitted DML.
EditCommitted ==
  /\ \E c \in Edits :
       /\ Editable(c)
       /\ db' = Changed(Committed, c).db
       /\ registry' = Changed(Committed, c).registry
  /\ edits' = edits + 1
  /\ UNCHANGED <<pio, objects, functions, load, matchVars, verbs>>

\* A verb of another session.
OtherVerb ==
  /\ verbs < MaxVerbs /\ "verbs" \in functions
  /\ \E c \in AllCalls : ApplyAs(c, verbs + 1)
  /\ verbs' = verbs + 1
  /\ UNCHANGED <<loaderVars, matchVars, edits>>

-----------------------------------------------------------------------------
(* What the compiler makes of a selector in a database, and what the       *)
(* compiled query answers in a later one.                                  *)

\* What the compiler reads of a tree: its registration, slots and predicates.
Registration(d, t) ==
  [rel \in {"trees", "slots", "predicates"} |-> Select(d, rel, [t |-> t])]

\* S clauses need a semantic group, the tree's own or the query's overlay.
HasSemantic(d, req) == TreeRow(d, req.t).sem \/ req.overlay # {}

\* The selector has a step, the tree is registered, its group allows the clauses.
Compilable(d, req, ir) ==
  /\ ir # NULL
  /\ Registered(d, req.t)
  /\ ir.slots \cup ir.preds # {} => HasSemantic(d, req)

\* A mutant: the language the text was resolved to is passed on as if named.
LabelOfDefault(req, ir, lang) == IF lang # NULL THEN lang ELSE IF ir.stamp = NULL THEN "treeql" ELSE ir.stamp

\* COALESCE(language, tree_selector_language(sel)): IR that stamps nothing is treeql.
Label(req, ir, lang) ==
  IF req.language # NULL THEN req.language ELSE IF ir.stamp = NULL THEN "treeql" ELSE ir.stamp

MatchQuery(d, req, ir, lang) ==
  [t |-> req.t, slots |-> ir.slots, preds |-> ir.preds, overlay |-> req.overlay,
   unknown |-> ir.preds \ PredsOf(d, req.t), label |-> Label(req, ir, lang), from |-> Registration(d, req.t)]

Projected(t) == [kind |-> "proj", m |-> Fold[t]]

\* The compiled text names the projection macro, whose table must be there too.
Runnable(d, q) ==
  /\ Readable(d, Projected(q.t))
  /\ \A r \in Entry(d, "macros", Fold[q.t]) : Readable(d, r.text)

\* The columns beyond the canonical ones are the source's.
Columns(d, t) == {r.source : r \in {x \in d["trees"] : Fold[x.t] = Fold[t]}}

\* A clause over a slot the tree does not declare is NULL for every row, as is
\* a predicate that was unknown to the compiler, or has since gone.
Answer(d, q) ==
  IF q.unknown # {} \/ ~(q.slots \subseteq SlotsOf(d, q.t) \cup q.overlay) \/ ~(q.preds \subseteq PredsOf(d, q.t))
  THEN {}
  ELSE {[root |-> r.root, part |-> r.part] : r \in Read(d, Projected(q.t))}

-----------------------------------------------------------------------------
(* MatchBind.                                                              *)

\* How a statement ends: a prepared one that was bound stays, others are gone.
Ends(s, how) ==
  match' = [match EXCEPT ![s] =
    IF match[s].req.kind = "prepare" /\ match[s].query # NoQuery
    THEN [match[s] EXCEPT !.pc = "bound", !.rest = {}, !.how = how]
    ELSE [NoMatch EXCEPT !.how = how]]

\* A mutant: no guard at bind.
MatchBindUnguarded(s) ==
  /\ match[s].pc = "guard"
  /\ match' = [match EXCEPT ![s].pc = IF match[s].req.text THEN "language" ELSE "compile"]
  /\ UNCHANGED <<db, pio, loaderVars, caller, own, begun, verbs, edits>>

\* The statement reaches its bind, where the functions exist.
Ask(s) ==
  /\ Resting(s) /\ caller[s] # "invalid" /\ begun < MaxMatches
  /\ "duckent_match" \in functions
  /\ \E r \in Requests :
       /\ r.by = "macro" => TreeMatchMacro \in objects
       /\ match' = [match EXCEPT ![s] = [NoMatch EXCEPT !.pc = "guard", !.req = r]]
  /\ begun' = begun + 1
  /\ UNCHANGED <<db, pio, loaderVars, caller, own, verbs, edits>>

\* RequireAutoCommitForRead, then SelectorText, which only the macro's call
\* passes.  The first refusal invalidates the caller's transaction.
MatchBind(s) ==
  /\ match[s].pc = "guard"
  /\ \/ /\ caller[s] = "explicit"
        /\ caller' = [caller EXCEPT ![s] = "invalid"]
        /\ Ends(s, "transaction")
     \/ /\ caller[s] = "auto" /\ match[s].req.by = "hand"
        /\ Ends(s, "internals")
        /\ UNCHANGED caller
     \/ /\ caller[s] = "auto" /\ match[s].req.by = "macro"
        /\ match' = [match EXCEPT ![s].pc = IF match[s].req.text THEN "language" ELSE "compile"]
        /\ UNCHANGED caller
  /\ UNCHANGED <<db, pio, loaderVars, own, begun, verbs, edits>>

\* The language a text is written in: as named, else the default.
ResolveSelectorLanguage(s) ==
  /\ match[s].pc = "language"
  /\ LET named == match[s].req.language
         lang  == IF named # NULL THEN named ELSE registry.default
     IN  \/ lang = NULL /\ Ends(s, "refused")
         \/ lang # NULL /\ match' = [match EXCEPT ![s].pc = "parser", ![s].lang = lang]
  /\ UNCHANGED <<db, pio, loaderVars, caller, own, begun, verbs, edits>>

\* Its row's parser: no row, a row without one, or the macro that reads it.
ParserForTextSelector(s) ==
  /\ match[s].pc = "parser"
  /\ LET lang == match[s].lang IN
       \/ /\ lang \notin DOMAIN registry.parser
          /\ Ends(s, "refused")
       \/ /\ lang \in DOMAIN registry.parser /\ registry.parser[lang] = NULL
          /\ Ends(s, "refused")
       \/ /\ lang \in DOMAIN registry.parser /\ registry.parser[lang] # NULL
          /\ match' = [match EXCEPT ![s].pc = "compile", ![s].parser = registry.parser[lang]]
  /\ UNCHANGED <<db, pio, loaderVars, caller, own, begun, verbs, edits>>

\* The IR the compile call is given: as built, or the parser's reading of the text.
SelectorIr(req, parser) ==
  IF req.text /\ req.sel # NULL THEN [req.sel EXCEPT !.stamp = Stamps[parser]] ELSE req.sel

\* SELECT tree_compile_match(...): the parser macro may not exist.
CompileMatch(s) ==
  /\ match[s].pc = "compile"
  /\ LET req == match[s].req  ir == SelectorIr(req, match[s].parser) IN
       \/ /\ req.text /\ match[s].parser \notin DOMAIN Stamps
          /\ Ends(s, "refused")
       \/ /\ req.text => match[s].parser \in DOMAIN Stamps
          /\ ~Compilable(db, req, ir)
          /\ Ends(s, "refused")
       \/ /\ req.text => match[s].parser \in DOMAIN Stamps
          /\ Compilable(db, req, ir)
          /\ match' = [match EXCEPT ![s].pc = "shape", ![s].query = MatchQuery(db, req, ir, match[s].lang)]
  /\ UNCHANGED <<db, pio, loaderVars, caller, own, begun, verbs, edits>>

\* The schema is the compiled query's; preparing it binds what it names.
MatchShape(s) ==
  /\ match[s].pc = "shape"
  /\ \/ /\ ~Runnable(db, match[s].query)
        /\ match' = [match EXCEPT ![s] = [NoMatch EXCEPT !.how = "refused"]]
     \/ /\ Runnable(db, match[s].query)
        /\ match' = [match EXCEPT ![s].pc = "bound", ![s].columns = Columns(db, match[s].query.t)]
  /\ UNCHANGED <<db, pio, loaderVars, caller, own, begun, verbs, edits>>

\* EXPLAIN prints the plan; the optimizer may drop the scan (LIMIT 0).
BoundOnly(s) ==
  /\ match[s].pc = "bound" /\ match[s].req.kind # "prepare"
  /\ Ends(s, "ok")
  /\ UNCHANGED <<db, pio, loaderVars, caller, own, begun, verbs, edits>>

-----------------------------------------------------------------------------
(* MatchInit and MatchInOut.                                               *)

\* A mutant: no guard at init.
MatchInitUnguarded(s) ==
  /\ match[s].pc = "bound" /\ match[s].req.kind # "explain" /\ caller[s] # "invalid"
  /\ LET all == Answer(db, match[s].query) IN
       /\ Runnable(db, match[s].query)
       /\ match' = [match EXCEPT ![s].pc = "open", ![s].shown = all, ![s].rest = all]
  /\ UNCHANGED <<db, pio, loaderVars, caller, own, begun, verbs, edits>>

\* A mutant: a prepared match keeps the result of its first execution.
MatchInitOnce(s) ==
  /\ match[s].pc = "bound" /\ match[s].req.kind # "explain" /\ caller[s] # "invalid"
  /\ LET all == IF match[s].how = "ok" THEN match[s].shown ELSE Answer(db, match[s].query) IN
       /\ Runnable(db, match[s].query)
       /\ match' = [match EXCEPT ![s].pc = "open", ![s].shown = all, ![s].rest = all]
  /\ UNCHANGED <<db, pio, loaderVars, caller, own, begun, verbs, edits>>

\* Guarded again: a plan prepared outside a transaction may be executed inside
\* one.  The whole result is taken from one committed state.
MatchInit(s) ==
  /\ match[s].pc = "bound" /\ match[s].req.kind # "explain" /\ caller[s] # "invalid"
  /\ \/ /\ caller[s] = "explicit"
        /\ caller' = [caller EXCEPT ![s] = "invalid"]
        /\ Ends(s, "transaction")
     \/ /\ caller[s] = "auto" /\ ~Runnable(db, match[s].query)
        /\ Ends(s, "refused")
        /\ UNCHANGED caller
     \/ /\ caller[s] = "auto" /\ Runnable(db, match[s].query)
        /\ LET all == Answer(db, match[s].query)
           IN  match' = [match EXCEPT ![s].pc = "open", ![s].shown = all, ![s].rest = all]
        /\ UNCHANGED caller
  /\ UNCHANGED <<db, pio, loaderVars, own, begun, verbs, edits>>

\* A mutant: the end of the result is reported as HAVE_MORE_OUTPUT.
MatchInOutNeverExhausted(s) ==
  /\ match[s].pc = "open" /\ match[s].rest # {}
  /\ \E chunk \in match[s].rest : match' = [match EXCEPT ![s].rest = @ \ {chunk}]
  /\ UNCHANGED <<db, pio, loaderVars, caller, own, begun, verbs, edits>>

\* One chunk of the result per call, until there is none: then more input is
\* asked for, and the relation of one selector has no more.
MatchInOut(s) ==
  /\ match[s].pc = "open"
  /\ \/ \E chunk \in match[s].rest : match' = [match EXCEPT ![s].rest = @ \ {chunk}]
     \/ match[s].rest = {} /\ Ends(s, "ok")
  /\ UNCHANGED <<db, pio, loaderVars, caller, own, begun, verbs, edits>>

\* The consumer has what it wanted (LIMIT).
Abandon(s) ==
  /\ match[s].pc = "open"
  /\ Ends(s, "ok")
  /\ UNCHANGED <<db, pio, loaderVars, caller, own, begun, verbs, edits>>

-----------------------------------------------------------------------------
(* The system.                                                             *)

\* The process ends, with every session and what they had not committed.
ProcessExit ==
  /\ LoadFaults /\ functions # {}
  /\ \E file \in BOOLEAN :
       /\ ProcessEnds(file)
       /\ IF file THEN UNCHANGED db ELSE db' = Start
  /\ caller' = [s \in Reader |-> "auto"]
  /\ own' = [s \in Reader |-> Nothing]
  /\ match' = [s \in Reader |-> NoMatch]
  /\ UNCHANGED <<pio, begun, verbs, edits>>

LoadStep == Load /\ UNCHANGED <<db, pio, matchVars, verbs, edits>>

\* A statement under way, which its caller's thread runs to its end.
MatchStep(s) ==
  \/ MatchBind(s) \/ ResolveSelectorLanguage(s) \/ ParserForTextSelector(s)
  \/ CompileMatch(s) \/ MatchShape(s) \/ BoundOnly(s) \/ MatchInOut(s)
  \/ ~Resting(s) /\ MatchInit(s)

\* EXECUTE of a prepared match.
Execute(s) == Resting(s) /\ MatchInit(s)

Next ==
  \/ \E s \in Reader :
       \/ BeginExplicit(s) \/ EditInside(s) \/ CommitExplicit(s) \/ RollBackExplicit(s)
       \/ Ask(s) \/ MatchStep(s) \/ Execute(s) \/ Abandon(s)
  \/ EditCommitted \/ OtherVerb \/ LoadStep \/ ProcessExit

Spec == Init /\ [][Next]_vars
FairSpec == Spec /\ \A s \in Reader : WF_vars(MatchStep(s))

=============================================================================
