------------------------------- MODULE MCVerbs -------------------------------
(***************************************************************************)
(* Instances of VerbProperties for TLC: the trees docs, its case variant   *)
(* Docs and libs, a handful of sources, and the calls of each run.         *)
(***************************************************************************)
EXTENDS VerbProperties

CONSTANTS s1, s2

Names  == {"docs", "Docs", "libs"}
Folded == [n \in Names |-> IF n = "libs" THEN "libs" ELSE "docs"]

Part(n, bad, id) == [n |-> n, bad |-> bad, id |-> id]
Rows(src, parts) == {[src |-> src, root |-> p.root, part |-> p.part] : p \in parts}
In(root, part)   == [root |-> root, part |-> part]

\* "main" is what trees are created from, "more" brings a second root, "again"
\* brings the first root a second time, equally long, and "short" brings it with
\* fewer rows; the others are defective.
Sources == {"main", "more", "again", "short", "torn", "lost", "dup", "wrong"}
Defective(src, bad) == Rows(src, {In("a", Part(2, bad, src))})
Initial ==
  Rows("main", {In("a", Part(2, {}, "main"))})
  \cup Rows("more", {In("b", Part(1, {}, "more"))})
  \cup Rows("again", {In("a", Part(2, {}, "again"))})
  \cup Rows("short", {In("a", Part(1, {}, "short"))})
  \cup Defective("torn", {"p13"})
  \cup Defective("lost", {"reach"})
  \cup Rows("dup", {In("b", Part(2, {"key"}, "dup"))})
  \cup Rows("wrong", {In("a", Part(2, {"SIZE"}, "wrong")), In("b", Part(1, {"NEXT"}, "wrong"))})

Create(t, slots, preds, source, storage, like) ==
  [verb |-> "tree_ddl_create", t |-> t,
   spec |-> [slots |-> slots, preds |-> preds, source |-> source, storage |-> storage,
             abstract |-> source = NULL, like |-> like]]
Drop(t)         == [verb |-> "tree_ddl_drop", t |-> t]
Alter(t, slots, preds) == [verb |-> "tree_ddl_alter", t |-> t, sem |-> [slots |-> slots, preds |-> preds]]
Ingest(verb, t, src)   == [verb |-> verb, t |-> t, src |-> src]
Delete(t, roots)       == [verb |-> "tree_delete", t |-> t, roots |-> roots]
Check(t)        == [verb |-> "tree_check", t |-> t]

Level == {"ROOT", "ORDER", "LEVEL"}
Walk  == {"ROOT", "PARENT", "UNIQUE KEY"}

NoChanges == {}

\* catalog: registration, inheritance, alteration and removal, and checks of a
\* stored table edited by hand and of a projection whose source moves.
CatalogCalls == [s \in Session |->
  {Create("docs", Level \cup {"SIZE", "TYPE"}, {}, "main", "materialized", NULL),
   Create("docs", Level \cup {"SIZE"}, {}, "wrong", "materialized", NULL),
   Create("Docs", Level, {}, "main", "projection", NULL),
   Create("libs", {}, {"leaf"}, "main", "projection", "docs"),
   Create("libs", Walk \cup {"PREDICATE_ARGS"}, {}, NULL, "materialized", NULL),
   Drop("docs"), Drop("Docs"), Drop("libs"),
   Alter("docs", {}, {}), Alter("docs", {"KEY"}, {"leaf"}), Alter("libs", {"TAGS"}, {}),
   Check("docs"), Check("libs")}]
CatalogDamage  == {Part(2, {"p13"}, "main"), Part(2, {"SIZE"}, "main"), Part(2, {}, "main")}
CatalogChanges == {[src |-> "main", parts |-> {In("a", Part(2, {"order", "SIZE"}, "moved"))}],
                   [src |-> "main", parts |-> {In("a", Part(2, {"p13"}, "moved"))}]}

\* partitions: ingest by ROOT into a stored tree, and alter over the result.  The
\* tree is one whose columns are declared, one on the parent basis, whose key and
\* reach every ingest checks, or one without ORDER under a setting that comes and
\* goes.
PartitionCalls == [s \in Session |->
  {Create("docs", Level \cup {"SIZE", "NEXT"}, {}, "main", "materialized", NULL),
   Create("docs", Walk, {}, "main", "materialized", NULL),
   Create("docs", {"ROOT", "LEVEL"}, {}, "main", "materialized", NULL),
   Ingest("tree_insert", "docs", "more"), Ingest("tree_insert", "docs", "again"),
   Ingest("tree_insert", "docs", "wrong"), Ingest("tree_insert", "docs", "dup"),
   Ingest("tree_replace", "docs", "again"), Ingest("tree_replace", "docs", "more"),
   Ingest("tree_replace", "docs", "torn"), Ingest("tree_replace", "docs", "wrong"),
   Ingest("tree_replace", "docs", "lost"),
   Delete("docs", {"a"}), Alter("docs", {"TYPE"}, {}), Check("docs"), Drop("docs")}]
PartitionChanges == {[src |-> "main", parts |-> {In("a", Part(2, {"SIZE"}, "moved"))}],
                     [src |-> "main", parts |-> {In("a", Part(1, {}, "short"))}]}

\* The levels of a projection-mode tree's source go NULL under it.
LevelCalls == [s \in Session |->
  {Create("docs", Level, {}, "main", "projection", NULL), Check("docs")}]
LevelChanges == {[src |-> "main", parts |-> {In("a", Part(2, {"level"}, "moved"))}]}

\* race: two sessions create and alter one tree, of which the catalog is all there
\* is; they fill another, whose one partition both replace, by a longer and by a
\* shorter one, while one of them brings a second.
RaceCalls == [s \in Session |->
  {Create("libs", Walk \cup {"TYPE"}, {}, NULL, "materialized", NULL),
   Alter("libs", {"KEY"}, {"leaf"}), Ingest("tree_replace", "docs", "short")}
  \cup (IF s = s1 THEN {Create("docs", Level, {}, "main", "materialized", NULL),
                        Ingest("tree_insert", "docs", "more")}
        ELSE {Ingest("tree_replace", "docs", "again")})]

\* Violations: see the findings.
KeyCalls == [s \in Session |->
  {Create("docs", Level \cup {"UNIQUE KEY"}, {}, "main", "materialized", NULL),
   Ingest("tree_insert", "docs", "dup")}]
DiscardCalls == [s \in Session |->
  {Create("docs", Level, {}, "main", "materialized", NULL),
   Ingest("tree_replace", "docs", "again"), Alter("docs", {"TYPE"}, {})}]
OvertakeCalls == [s \in Session |->
  {Create("docs", Level, {}, "main", "materialized", NULL), Ingest("tree_insert", "docs", "more"),
   Alter("docs", {"TYPE"}, {})}]
TwiceCalls == [s \in Session |->
  {Create("docs", Level, {}, "main", "materialized", NULL), Ingest("tree_insert", "docs", "more")}]

=============================================================================
