---------------------------- MODULE TreeCatalog ----------------------------
(***************************************************************************)
(* The catalog of registered trees and the verb compilers: pure operators. *)
(*                                                                         *)
(* A database is a function from relation names to sets of rows (the       *)
(* tables of 01_catalog.sql, the generated objects of 03_ddl.sql and the   *)
(* users' own source relations).  A compiler (a tree_compile macro) reads  *)
(* a database and yields a refusal or a list of statements; Raises and     *)
(* Effect say what one statement does.  Nothing here is a step: the        *)
(* executor that runs the lists is VerbExecutor.                           *)
(*                                                                         *)
(* SQL text is abstracted to what the statements distinguish: a slot is    *)
(* declared or not; the rows of one ROOT partition are their number and    *)
(* the set of ingest checks they would fail (and an id, so that two        *)
(* partitions of one size can differ); a compiled text is the shape and    *)
(* source it was compiled from.  A tree's identity (database, schema,      *)
(* name) is one value of Name; Fold is the case folding DuckDB applies to  *)
(* the names of generated objects.  Every row carries, in "by", the number *)
(* of the transaction that wrote it: the row's version, and loaded_at.     *)
(*                                                                         *)
(* A definition that differs from the one below it by one mistake, as      *)
(* CollidesExact does from Collides, is a mutant of it: a property of some *)
(* run fails when it takes its place.  Nothing else uses a mutant.         *)
(***************************************************************************)
EXTENDS Naturals, FiniteSets, SequencesExt

CONSTANTS
  Name,             \* tree identities
  Fold,             \* [Name -> folded identity]: the generated objects' names
  Root,             \* ROOT keys
  Source,           \* names of source relations
  PredName,         \* predicate (pseudo-class) names
  SharedPredicate,  \* names the sel_* macros in scope would bind
  NULL              \* SQL NULL

ASSUME SharedPredicateAssumption == SharedPredicate \subseteq PredName
ASSUME NullAssumption == NULL \notin Name \cup Root \cup Source \cup PredName

-----------------------------------------------------------------------------
(* Slots (tree_catalog.slots) and the questions asked of a shape.          *)

OSlot   == {"SIZE", "CHILDREN", "NEXT"}
RSlot   == {"ROOT", "ORDER", "UNIQUE KEY", "LEVEL", "PARENT", "SIBLING_ORDER"}
SSlot   == {"TYPE", "KEY", "TAGS", "ATTR", "ATTR_MAP", "ELEMENT", "PREDICATE_ARGS"}
Slot    == OSlot \cup RSlot \cup SSlot

\* Does the semantic group declare an S slot?  ATTR must not count: every
\* registered tree stores one.
Declares(slots, preds) == slots \cap (SSlot \ {"ATTR"}) # {} \/ preds # {}

\* R2 defaults to LEVEL 0: the level basis is taken when LEVEL is declared and
\* when neither LEVEL nor PARENT is.
LevelBasis(slots) == "LEVEL" \in slots \/ "PARENT" \notin slots

OrderSource(slots) ==
  IF LevelBasis(slots) /\ "ORDER" \notin slots THEN "frozen" ELSE "declared"

\* The declared slots O conformance compares; PARENT only beside LEVEL.
OverrideSlots(slots) ==
  (slots \cap OSlot) \cup (IF {"PARENT", "LEVEL"} \subseteq slots THEN {"PARENT"} ELSE {})

Block(slots, slot) ==
  IF slot \in SSlot THEN "S"
  ELSE IF slot \in OSlot \/ (slot = "PARENT" /\ LevelBasis(slots)) THEN "O" ELSE "R"

\* tree_expand_predicate: the shared tier binds only under PREDICATE_ARGS.
Expand(slots, preds) ==
  preds \cup (IF "PREDICATE_ARGS" \in slots THEN SharedPredicate ELSE {})

\* tree_sql_check_prefixes: PREDICATE_ARGS that would bind no macro is refused.
PrefixesBind(slots) == "PREDICATE_ARGS" \in slots => SharedPredicate # {}

-----------------------------------------------------------------------------
(* Rows.                                                                   *)

Relation == {"trees", "slots", "predicates", "compiled", "partitions",
             "assertions", "tables", "rows", "macros", "source"}

\* The relations with a primary key, on t; statements name the others freely.
KeyedNone == {}
Keyed   == {"trees"}
Keyless == Relation \ {"trees"}

\* What can be wrong with a partition: the checks every tree makes ("level" is a
\* NULL or negative level, which tree_compile_p13 refuses and the recorded P13
\* predicate does not see), and an O column that disagrees with its derivation.
Defect == {"order", "key", "reach", "shadow", "level", "p13", "SIZE", "CHILDREN", "NEXT", "PARENT"}
P13Arms == {"level", "p13"}

OArtifact == [SIZE |-> "assert_o_size", CHILDREN |-> "assert_o_children",
              NEXT |-> "assert_o_next", PARENT |-> "assert_o_parent"]

\* The relational WHERE field = value AND ... over rows that are records.
Matches(row, where) == \A f \in DOMAIN where : row[f] = where[f]
Select(d, rel, where) == {r \in d[rel] : Matches(r, where)}

Registered(d, t) == \E r \in d["trees"] : r.t = t
TreeRow(d, t)    == CHOOSE r \in d["trees"] : r.t = t
SlotsOf(d, t)    == {r.s : r \in Select(d, "slots", [t |-> t])}
PredsOf(d, t)    == {r.p : r \in Select(d, "predicates", [t |-> t])}

\* Case-insensitive collision with another registered tree.
CollidesExact(d, t) == Registered(d, t)
Collides(d, t) == \E r \in d["trees"] : r.t # t /\ Fold[r.t] = Fold[t]

\* What a source relation holds: one row per ROOT partition.
Contents(d, src) == {[root |-> r.root, part |-> r.part] : r \in Select(d, "source", [src |-> src])}

HasTable(d, m) == \E r \in d["tables"] : r.m = m
HasMacro(d, m) == \E r \in d["macros"] : r.m = m

\* The rows of the current version of table m.
Stored(d, m) == {r \in d["rows"] : r.m = m /\ [m |-> m, by |-> r.v] \in d["tables"]}

\* A relation a statement names: [kind |-> "table", m], [kind |-> "sql", src] or,
\* through the macro that serves a tree, [kind |-> "proj", m].
Served(d, text) == IF text.kind = "table" THEN Stored(d, text.m) ELSE Contents(d, text.src)
Read(d, rel) ==
  IF rel.kind = "proj" THEN UNION {Served(d, r.text) : r \in Select(d, "macros", [m |-> rel.m])}
  ELSE Served(d, rel)
Readable(d, rel) ==
  (rel.kind = "table" => HasTable(d, rel.m)) /\ (rel.kind = "proj" => HasMacro(d, rel.m))

MaxEpoch(d, t) ==
  LET es == {r.epoch : r \in Select(d, "partitions", [t |-> t])}
  IN  IF es = {} THEN NULL ELSE CHOOSE e \in es : \A f \in es : f <= e

-----------------------------------------------------------------------------
(* Statements.  Each constructor is one statement a compiler emits.        *)

Refused == [refused |-> TRUE, list |-> <<>>]
Compiled(list) == [refused |-> FALSE, list |-> list]

\* list_filter(..., x IS NOT NULL): an optional statement is a possibly empty list.
When(cond, list) == IF cond THEN list ELSE <<>>

Register(t, abstract, source, storage, ordersrc, sem) ==
  <<[op |-> "register", t |-> t, abstract |-> abstract, source |-> source, storage |-> storage,
     ordersrc |-> ordersrc, sem |-> sem]>>
SetSemantic(t, sem)      == <<[op |-> "set_semantic", t |-> t, sem |-> sem]>>
InsertInto(rel, rows)    == <<[op |-> "insert", rel |-> rel, rows |-> rows]>>
DeleteFrom(rel, where)   == <<[op |-> "delete", rel |-> rel, where |-> where]>>
DeleteFromEach(rels, where) == [i \in DOMAIN rels |-> [op |-> "delete", rel |-> rels[i], where |-> where]]
Update(rel, where, new)  == <<[op |-> "update", rel |-> rel, where |-> where, new |-> new]>>
CheckSource(defects, src) == <<[op |-> "check", defects |-> defects, src |-> src]>>
CheckNew(defects)         == <<[op |-> "check", defects |-> defects, src |-> NULL]>>
FrozenGuardNever(ordersrc) == <<>>
FrozenGuard(ordersrc)    == When(ordersrc = "frozen", <<[op |-> "frozen_guard"]>>)
Macro(t, text)           == <<[op |-> "macro", t |-> t, text |-> text]>>
Tree(op, t)              == <<[op |-> op, t |-> t]>>
TreeSource(op, t, src)   == <<[op |-> op, t |-> t, src |-> src]>>
\* A statement that evaluates the projection of src into a table.
Project(op, t, src, ordersrc) == <<[op |-> op, t |-> t, src |-> src, frozen |-> ordersrc = "frozen"]>>

SlotRows(t, slots, which) == {[t |-> t, b |-> Block(slots, s), s |-> s] : s \in which}
PredRows(t, preds)        == {[t |-> t, p |-> p] : p \in preds}

\* The text of a compiled projection, and of the macro that serves a tree.
Projection(slots, src) == [kind |-> "sql", slots |-> slots, src |-> src]
ServedBy(storage, t, slots, src) ==
  IF storage = "materialized" THEN [kind |-> "table", m |-> Fold[t]] ELSE Projection(slots, src)

\* The raising checks a source goes through before the projection is evaluated.
SourceChecksNoKey(slots, src, keyGate) == When("ORDER" \in slots, CheckSource({"order"}, src))
SourceChecks(slots, src, keyGate) ==
  When("ORDER" \in slots, CheckSource({"order"}, src)) \o When(keyGate, CheckSource({"key"}, src))

-----------------------------------------------------------------------------
(* tree_compile_create                                                     *)

CompileCreate(d, pio, t, spec) ==
  LET inherits == spec.like # NULL
      slots == spec.slots \cup (IF inherits THEN SlotsOf(d, spec.like) ELSE {}) \cup {"ATTR"}
      raw   == spec.preds \cup (IF inherits THEN PredsOf(d, spec.like) ELSE {})
      preds == Expand(slots, raw)
      like  == IF inherits /\ Registered(d, spec.like) THEN TreeRow(d, spec.like).sem ELSE FALSE
      level == LevelBasis(slots)
      refused ==
        \/ t = NULL
        \/ spec.abstract = NULL
        \/ Registered(d, t)
        \/ Collides(d, t)
        \/ inherits /\ SlotsOf(d, spec.like) = {}
        \/ spec.abstract /\ spec.source # NULL
        \/ ~spec.abstract /\ spec.source = NULL
        \/ spec.storage \notin {"materialized", "projection"}
        \/ ~level /\ "UNIQUE KEY" \notin slots
        \/ level /\ "SIBLING_ORDER" \in slots
        \/ ~spec.abstract /\ spec.storage = "projection" /\ level /\ "ORDER" \notin slots
        \/ ~spec.abstract /\ OrderSource(slots) = "frozen" /\ ~pio
        \/ ~PrefixesBind(slots)
      concrete == ~spec.abstract
      stored == concrete /\ spec.storage = "materialized"
      src == spec.source
  IN  IF refused THEN Refused ELSE Compiled(
        Register(t, spec.abstract, src, spec.storage, OrderSource(slots), Declares(slots, preds) \/ like)
        \o InsertInto("slots", SlotRows(t, slots, slots))
        \o When(preds # {}, InsertInto("predicates", PredRows(t, preds)))
        \o When(concrete, SourceChecks(slots, src, "UNIQUE KEY" \in slots)
                          \o When(~level, CheckSource({"reach"}, src))
                          \o CheckSource({"shadow"}, src)
                          \o CheckSource(P13Arms, src))
        \o When(stored /\ OverrideSlots(slots) # {}, CheckSource(OverrideSlots(slots), src))
        \o When(stored, Project("create_table", t, src, OrderSource(slots)))
        \o When(concrete, Macro(t, ServedBy(spec.storage, t, slots, src)))
        \o When(stored, Tree("count_partitions", t))
        \o When(concrete, InsertInto("compiled", {[t |-> t, art |-> "projection", text |-> Projection(slots, src)]})
                          \o Tree("attribute_columns", t)))

-----------------------------------------------------------------------------
(* tree_compile_drop, tree_compile_alter                                   *)

DroppedFromLess == <<"trees", "slots", "predicates", "compiled", "assertions">>
DroppedFrom == <<"trees", "slots", "predicates", "compiled", "partitions", "assertions">>

CompileDrop(d, t) ==
  IF ~Registered(d, t) THEN Refused ELSE Compiled(
    DeleteFromEach(DroppedFrom, [t |-> t])
    \o Tree("drop_macro", t)
    \o Tree("drop_table", t))

\* Alter replaces the S group, flag included, ...
AlterSemanticKeeps(row, slots, preds) == row.sem \/ Declares(slots, preds)
AlterSemantic(row, slots, preds) == Declares(slots, preds)
AlterClearsEveryTree(t) == DeleteFrom("slots", [b |-> "S"]) \o DeleteFrom("predicates", [t |-> t])
AlterClearsPredicates(t) == DeleteFrom("predicates", [t |-> t])
AlterClears(t) == DeleteFrom("slots", [t |-> t, b |-> "S"]) \o DeleteFrom("predicates", [t |-> t])

\* ... and rebuilds the table, the macro and the recorded artifacts.
AlterRebuildsMacroOnly(t, row, slots) ==
  When(~row.abstract /\ row.storage = "materialized", Project("replace_table", t, row.source, row.ordersrc))
  \o When(~row.abstract, Macro(t, ServedBy(row.storage, t, slots, row.source)))
AlterRebuilds(t, row, slots) ==
  When(~row.abstract /\ row.storage = "materialized", Project("replace_table", t, row.source, row.ordersrc))
  \o When(~row.abstract, Macro(t, ServedBy(row.storage, t, slots, row.source))
                         \o Update("compiled", [t |-> t, art |-> "projection"], [text |-> Projection(slots, row.source)])
                         \o DeleteFrom("compiled", [t |-> t, art |-> "attribute_columns"])
                         \o Tree("attribute_columns", t))

\* sem is NULL or [slots, preds], the group as written.  Alter replaces the S
\* group, keeps the stored R and O slots and the ATTR list, and rebuilds the
\* projection (and the table) from the registered source.
CompileAlter(d, t, sem) ==
  IF sem = NULL \/ ~Registered(d, t) THEN Refused ELSE
  LET row      == TreeRow(d, t)
      sslots   == sem.slots \cup {"ATTR"}
      slots    == (SlotsOf(d, t) \ SSlot) \cup sslots
      preds    == Expand(sem.slots, sem.preds)
      concrete == ~row.abstract
      stored   == concrete /\ row.storage = "materialized"
      src      == row.source
  IN  IF ~PrefixesBind(sem.slots) THEN Refused ELSE Compiled(
        FrozenGuard(row.ordersrc)
        \o When(concrete, SourceChecks(slots, src, "UNIQUE KEY" \in slots)
                          \o When(~LevelBasis(slots), CheckSource({"reach"}, src)))
        \o When(stored, TreeSource("foreign_check", t, src) \o TreeSource("drift_check", t, src))
        \o When(concrete, CheckSource({"shadow"}, src) \o CheckSource(P13Arms, src))
        \o When(stored /\ OverrideSlots(slots) # {}, CheckSource(OverrideSlots(slots), src))
        \o AlterClears(t)
        \o InsertInto("slots", SlotRows(t, slots, sslots))
        \o When(preds # {}, InsertInto("predicates", PredRows(t, preds)))
        \o SetSemantic(t, AlterSemantic(row, sem.slots, preds))
        \o AlterRebuilds(t, row, slots))

-----------------------------------------------------------------------------
(* tree_dml_context and the DML compilers                                  *)

\* A tree the verb may be applied to; only tree_check reaches a projection.
HasContext(d, t, verb) ==
  /\ Registered(d, t)
  /\ ~TreeRow(d, t).abstract
  /\ TreeRow(d, t).storage = "materialized" \/ verb = "tree_check"

\* Insert and replace gate the key check on the parent basis (reach_key_expr),
\* where create and alter gate it on the declaration.
ReachKey(slots) == ~LevelBasis(slots) /\ "UNIQUE KEY" \in slots

NewPartitionChecksP13(slots) == CheckNew(P13Arms)
NewPartitionChecks(slots) ==
  CheckNew(P13Arms) \o When(OverrideSlots(slots) # {}, CheckNew(OverrideSlots(slots)))

CompileInsert(d, t, src) ==
  IF ~HasContext(d, t, "tree_insert") THEN Refused ELSE
  LET slots == SlotsOf(d, t) IN Compiled(
    FrozenGuard(TreeRow(d, t).ordersrc)
    \o SourceChecks(slots, src, ReachKey(slots))
    \o Project("stage", t, src, TreeRow(d, t).ordersrc)
    \o When(ReachKey(slots), CheckNew({"reach"}))
    \o CheckNew({"shadow"})
    \o Tree("present_check", t)
    \o NewPartitionChecks(slots)
    \o Tree("insert_rows", t)
    \o Tree("insert_partitions", t)
    \o Tree("drop_staged", t))

CompileReplace(d, t, src) ==
  IF ~HasContext(d, t, "tree_replace") THEN Refused ELSE
  LET slots == SlotsOf(d, t) IN Compiled(
    FrozenGuard(TreeRow(d, t).ordersrc)
    \o SourceChecks(slots, src, ReachKey(slots))
    \o Project("stage", t, src, TreeRow(d, t).ordersrc)
    \o When(ReachKey(slots), CheckNew({"reach"}))
    \o CheckNew({"shadow"})
    \o NewPartitionChecks(slots)
    \o Tree("stage_epochs", t)
    \o Tree("delete_rows", t)
    \o Tree("delete_partitions", t)
    \o Tree("insert_rows", t)
    \o Tree("insert_partitions", t)
    \o Tree("drop_staged", t))

\* roots: the ROOT keys the caller's predicate selects.
CompileDelete(d, t, roots) ==
  IF ~HasContext(d, t, "tree_delete") THEN Refused ELSE Compiled(
    <<[op |-> "stage_gone", t |-> t, roots |-> roots]>>
    \o Tree("delete_rows", t)
    \o Tree("delete_partitions", t)
    \o Tree("drop_staged", t))

\* One recorded assertion: DELETE the old row, INSERT the verdict on relation rel.
AssertionAppends(t, art, defect, rel) ==
  <<[op |-> "assert", t |-> t, art |-> art, defect |-> defect, rel |-> rel]>>
Assertion(t, art, defect, rel) ==
  DeleteFrom("assertions", [t |-> t, art |-> art])
  \o <<[op |-> "assert", t |-> t, art |-> art, defect |-> defect, rel |-> rel]>>

\* tree_check reads the stored table, or the projection macro of a tree that
\* stores nothing; the ORDER assertion of the latter reads the source itself.
CompileCheck(d, t) ==
  IF ~HasContext(d, t, "tree_check") THEN Refused ELSE
  LET slots  == SlotsOf(d, t)
      row    == TreeRow(d, t)
      stored == row.storage = "materialized"
      rel    == [kind |-> IF stored THEN "table" ELSE "proj", m |-> Fold[t]]
      O(slot) == When(slot \in OverrideSlots(slots), Assertion(t, OArtifact[slot], slot, rel))
  IN  Compiled(
    When(~stored /\ "ORDER" \in slots, Assertion(t, "assert_order", "order", [kind |-> "sql", src |-> row.source]))
    \o Assertion(t, "assert_p13", "p13", rel)
    \o When(stored, <<[op |-> "p13_ok", t |-> t, rel |-> rel]>>)
    \o O("SIZE") \o O("PARENT") \o O("CHILDREN") \o O("NEXT"))

\* DuckentCompileMacroName: which compiler a verb means.
Compile(d, pio, c) ==
  CASE c.verb = "tree_ddl_create" -> CompileCreate(d, pio, c.t, c.spec)
    [] c.verb = "tree_ddl_drop"   -> CompileDrop(d, c.t)
    [] c.verb = "tree_ddl_alter"  -> CompileAlter(d, c.t, c.sem)
    [] c.verb = "tree_insert"     -> CompileInsert(d, c.t, c.src)
    [] c.verb = "tree_replace"    -> CompileReplace(d, c.t, c.src)
    [] c.verb = "tree_delete"     -> CompileDelete(d, c.t, c.roots)
    [] c.verb = "tree_check"      -> CompileCheck(d, c.t)

-----------------------------------------------------------------------------
(* One statement: whether it raises, what it leaves in the database, and   *)
(* what it leaves in the session's temporary tables.                       *)

NoTemp == [new |-> {}, arb |-> FALSE, epochs |-> {}, gone |-> {}]

Roots(parts) == {p.root : p \in parts}

\* The projection's partitions a statement reads: a source, or __duckent_new.
Subject(d, tmp, st) == IF st.src = NULL THEN tmp.new ELSE Contents(d, st.src)

\* The ROOT keys a replace or a delete is about to remove.
DoomedReplaced(tmp) == Roots(tmp.epochs)
DoomedGone(tmp) == tmp.gone
Doomed(tmp) == Roots(tmp.epochs) \cup tmp.gone

\* s FULL OUTER JOIN p: a root of one side only, or a row count that moved.
DriftedRoots(d, t, src) == Roots(Contents(d, src)) # Roots(Select(d, "partitions", [t |-> t]))
Drifted(d, t, src) ==
  LET s == Contents(d, src)
      p == Select(d, "partitions", [t |-> t])
  IN  \/ Roots(s) # Roots(p)
      \/ \E x \in s, y \in p : x.root = y.root /\ x.part.n # y.n

\* __duckent_new JOIN partitions: a ROOT the tree already holds.
AlreadyPresent(d, tmp, t) == \E q \in Select(d, "partitions", [t |-> t]) : q.root \in Roots(tmp.new)

Raises(d, tmp, st, pio) ==
  CASE st.op = "register"      -> Registered(d, st.t)
    [] st.op = "check"         -> \E p \in Subject(d, tmp, st) : p.part.bad \cap st.defects # {}
    [] st.op = "frozen_guard"  -> ~pio
    [] st.op = "create_table"  -> HasTable(d, Fold[st.t])
    [] st.op = "foreign_check" -> \E q \in Select(d, "partitions", [t |-> st.t]) :
                                    q.root \notin Roots(Contents(d, st.src))
    [] st.op = "drift_check"   -> Drifted(d, st.t, st.src)
    [] st.op = "present_check" -> AlreadyPresent(d, tmp, st.t)
    [] st.op \in {"stage_gone", "delete_rows", "insert_rows", "count_partitions"}
                               -> ~HasTable(d, Fold[st.t])
    [] st.op \in {"assert", "p13_ok"} -> ~Readable(d, st.rel)
    [] st.op = "attribute_columns"    -> ~HasMacro(d, Fold[st.t])
    [] OTHER                   -> FALSE

\* A row as transaction tx writes it.
Stamp(row, tx) == [f \in DOMAIN row \cup {"by"} |-> IF f = "by" THEN tx ELSE row[f]]
Assign(row, new) == [f \in DOMAIN row |-> IF f \in DOMAIN new THEN new[f] ELSE row[f]]

\* A row of tree_catalog.trees.
TreeRecord(x, sem, tx) ==
  [t |-> x.t, abstract |-> x.abstract, source |-> x.source, storage |-> x.storage,
   ordersrc |-> x.ordersrc, sem |-> sem, by |-> tx]

Insert(d, rel, rows, tx) == [d EXCEPT ![rel] = @ \cup {Stamp(r, tx) : r \in rows}]
Without(d, rel, rows)    == [d EXCEPT ![rel] = @ \ rows]
Entry(d, rel, m)         == Select(d, rel, [m |-> m])

\* Rows for version v of table m.  An order taken from a scan that need not
\* preserve insertion order is arbitrary.
TableRows(m, v, parts, arb) == {[m |-> m, v |-> v, root |-> p.root, part |-> p.part, arb |-> arb] : p \in parts}

DropTable(d, m) == Without(Without(d, "tables", Entry(d, "tables", m)), "rows", Entry(d, "rows", m))

\* CREATE [OR REPLACE] TABLE t_x AS projection.
MakeTable(d, m, parts, arb, tx) ==
  Insert(Insert(DropTable(d, m), "tables", {[m |-> m]}, tx), "rows", TableRows(m, tx, parts, arb), tx)

\* INSERT INTO t_x, the version the transaction sees.
AppendRows(d, m, parts, arb, tx) ==
  Insert(d, "rows", TableRows(m, (CHOOSE r \in d["tables"] : r.m = m).by, parts, arb), tx)

\* INSERT INTO tree_state.partitions ... COALESCE(epoch, 0) + 1, count, true.
NewPartitionsFirstEpoch(t, parts, epochs) ==
  {[t |-> t, root |-> p.root, n |-> p.part.n, ok |-> TRUE, epoch |-> 1] : p \in parts}
NewPartitions(t, parts, epochs) ==
  {[t |-> t, root |-> p.root, n |-> p.part.n, ok |-> TRUE,
    epoch |-> IF p.root \in Roots(epochs) THEN (CHOOSE e \in epochs : e.root = p.root).epoch + 1 ELSE 1]
   : p \in parts}

\* tree_check's per-root verdict, refreshed in both directions.
RefreshOk(d, t, rel, tx) ==
  LET read == Read(d, rel)
      judged(q) == q.t = t /\ q.root \in Roots(read)
      holds(q)  == \A p \in read : p.root = q.root => "p13" \notin p.part.bad
  IN  [d EXCEPT !["partitions"] = {IF judged(q) THEN [q EXCEPT !.ok = holds(q), !.by = tx] ELSE q : q \in @}]

Verdict(d, st) ==
  [t |-> st.t, art |-> st.art, epoch |-> MaxEpoch(d, st.t),
   status |-> IF \E p \in Read(d, st.rel) : st.defect \in p.part.bad THEN "violated" ELSE "ok"]

Effect(d, tmp, st, tx, pio) ==
  LET m == Fold[st.t] IN
  CASE st.op = "register" -> [d EXCEPT !["trees"] = @ \cup {TreeRecord(st, st.sem, tx)}]
    [] st.op = "set_semantic" ->
         [d EXCEPT !["trees"] = {IF r.t = st.t THEN TreeRecord(r, st.sem, tx) ELSE r : r \in @}]
    [] st.op = "insert" /\ st.rel \in Keyless -> Insert(d, st.rel, st.rows, tx)
    [] st.op = "delete" -> Without(d, st.rel, Select(d, st.rel, st.where))
    [] st.op = "update" /\ st.rel \in Keyless ->
                           LET old == Select(d, st.rel, st.where)
                           IN  Insert(Without(d, st.rel, old), st.rel, {Assign(r, st.new) : r \in old}, tx)
    [] st.op \in {"create_table", "replace_table"} -> MakeTable(d, m, Contents(d, st.src), ~pio /\ st.frozen, tx)
    [] st.op = "macro" -> Insert(Without(d, "macros", Entry(d, "macros", m)), "macros", {[m |-> m, text |-> st.text]}, tx)
    [] st.op = "count_partitions" -> Insert(d, "partitions", NewPartitions(st.t, Stored(d, m), {}), tx)
    [] st.op = "attribute_columns" ->
         Insert(d, "compiled", {[t |-> st.t, art |-> "attribute_columns", text |-> r.text] : r \in Entry(d, "macros", m)}, tx)
    [] st.op = "delete_rows" -> Without(d, "rows", {r \in Stored(d, m) : r.root \in Doomed(tmp)})
    [] st.op = "delete_partitions" ->
         Without(d, "partitions", {q \in Select(d, "partitions", [t |-> st.t]) : q.root \in Doomed(tmp)})
    [] st.op = "insert_rows" -> AppendRows(d, m, tmp.new, tmp.arb, tx)
    [] st.op = "insert_partitions" -> Insert(d, "partitions", NewPartitions(st.t, tmp.new, tmp.epochs), tx)
    [] st.op = "assert" -> Insert(d, "assertions", {Verdict(d, st)}, tx)
    [] st.op = "p13_ok" -> RefreshOk(d, st.t, st.rel, tx)
    [] st.op = "drop_macro" -> Without(d, "macros", Entry(d, "macros", m))
    [] st.op = "drop_table" -> DropTable(d, m)
    [] OTHER -> d

Staged(d, tmp, st, pio) ==
  CASE st.op = "stage"        -> [tmp EXCEPT !.new = Contents(d, st.src), !.arb = ~pio /\ st.frozen]
    [] st.op = "stage_epochs" -> [tmp EXCEPT !.epochs = {[root |-> q.root, epoch |-> q.epoch] :
                                    q \in {x \in Select(d, "partitions", [t |-> st.t]) : x.root \in Roots(tmp.new)}}]
    [] st.op = "stage_gone"   -> [tmp EXCEPT !.gone = Roots(Stored(d, Fold[st.t])) \cap st.roots]
    [] st.op = "drop_staged"  -> NoTemp
    [] OTHER                  -> tmp

=============================================================================
