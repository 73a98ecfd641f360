------------------------------- MODULE MCMatch -------------------------------
(***************************************************************************)
(* An instance of MatchProperties for TLC: one stored tree and one served  *)
(* by its projection, a front-end for css beside treeql's, and one reader. *)
(***************************************************************************)
EXTENDS MatchProperties

Names  == {"docs", "libs"}
Folded == [n \in Names |-> n]

Part(n, id) == [n |-> n, bad |-> {}, id |-> id]
Row(src, root, part) == [src |-> src, root |-> root, part |-> part]
Initial == {Row("main", "a", Part(2, "main")), Row("more", "b", Part(1, "more"))}

\* The files in an order no build promises.
Files == <<10, 3, 0, 1, 2, 7, 4, 5, 6, 8>>

Level == {"ROOT", "ORDER", "LEVEL"}
Create(t, slots, preds, source, storage) ==
  [verb |-> "tree_ddl_create", t |-> t,
   spec |-> [slots |-> slots, preds |-> preds, source |-> source, storage |-> storage,
             abstract |-> source = NULL, like |-> NULL]]
Verbs ==
  {Create("docs", Level \cup {"TYPE"}, {}, "main", "materialized"),
   Create("docs", Level \cup {"TYPE"}, {"leaf"}, "more", "projection"),
   Create("libs", Level, {}, NULL, "materialized"),
   [verb |-> "tree_ddl_alter", t |-> "docs", sem |-> [slots |-> {"KEY"}, preds |-> {"leaf"}]],
   [verb |-> "tree_replace", t |-> "docs", src |-> "more"],
   [verb |-> "tree_ddl_drop", t |-> "docs"]}

Readers == [tree_parse_treeql |-> "treeql", tree_css_lower |-> "css"]

Default(l)     == [what |-> "default", language |-> l]
Parser(l, p)   == [what |-> "parser", language |-> l, parser |-> p]
UserEdits ==
  {[what |-> "source", src |-> "more", parts |-> {[root |-> "b", part |-> Part(2, "moved")]}],
   Default("css"), Default(NULL), Parser("css", "tree_css_lower"), Parser("treeql", "tree_css_lower"),
   Parser("treeql", "nope"), Parser("treeql", NULL)}

Sel(slots, preds) == [slots |-> slots, preds |-> preds, stamp |-> NULL]
Match(kind, text, t, sel, overlay, language) ==
  [kind |-> kind, by |-> "macro", text |-> text, t |-> t, sel |-> sel, overlay |-> overlay, language |-> language]
Asked ==
  {Match("select", FALSE, "docs", Sel({"TYPE"}, {}), {}, NULL),
   Match("prepare", FALSE, "docs", Sel({"TYPE"}, {}), {}, NULL),
   Match("prepare", FALSE, "docs", Sel({}, {"leaf"}), {}, "css"),
   Match("select", FALSE, "docs", [Sel({}, {}) EXCEPT !.stamp = "css"], {}, NULL),
   Match("select", FALSE, "docs", Sel({"TAGS"}, {}), {"TAGS"}, NULL),
   Match("select", TRUE, "docs", Sel({"KEY"}, {}), {}, NULL),
   Match("explain", TRUE, "docs", Sel({}, {}), {}, NULL),
   Match("explain", TRUE, "docs", Sel({}, {}), {}, "css"),
   Match("select", TRUE, "docs", NULL, {}, NULL),
   Match("select", FALSE, "libs", Sel({}, {}), {}, NULL),
   [Match("select", FALSE, "docs", Sel({}, {}), {}, NULL) EXCEPT !.by = "hand"]}

=============================================================================
