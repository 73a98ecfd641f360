--------------------------- MODULE VerbProperties ---------------------------
(***************************************************************************)
(* What is claimed of the verbs, of the trees they leave in the catalog    *)
(* and of the steps that change them.                                      *)
(***************************************************************************)
EXTENDS VerbExecutor

\* Types: the program counters and the shape of every database in the state.
TypeOK ==
  /\ DOMAIN db = Relation
  /\ pio \in BOOLEAN
  /\ caller \in [Session -> {"auto", "explicit", "invalid"}]
  /\ pc \in [Session -> {"idle", "bound", "scan", "compile", "begin", "run"}]
  /\ result \in [Session -> {"none", "ok", "refused", "error"}]
  /\ done \in [Session -> BOOLEAN]
  /\ DOMAIN call = Session /\ DOMAIN todo = Session /\ DOMAIN temp = Session
  /\ DOMAIN base = Session /\ DOMAIN view = Session
  /\ \A s \in Session : DOMAIN view[s] = Relation /\ DOMAIN base[s] = Relation
  /\ begun \in Nat /\ tx \in [Session -> 0 .. begun]
  /\ edits \in Nat

Stores(q)   == ~q.abstract /\ q.storage = "materialized"
Concrete(q) == ~q.abstract
TreeRows(d, rel, t) == Select(d, rel, [t |-> t])

-----------------------------------------------------------------------------
(* The catalog.                                                            *)

\* One row per registered tree, under any number of concurrent creates (the
\* compiler's "already exists" is read before the transaction begins; only the
\* primary key of tree_catalog.trees is left to refuse the second).
OneTreePerName == \A q, r \in db["trees"] : q.t = r.t => q = r

\* One row per declared slot: alter deletes and re-inserts the S slots in a
\* transaction of its own, and two of them must not both leave a set behind.
OneRowPerSlot == \A q, r \in db["slots"] : q.t = r.t /\ q.s = r.s => q = r

\* Nothing survives the tree it belongs to: no catalog row, table or macro
\* (tree_ddl_drop's list, and every create that fails part-way).
NoOrphans ==
  /\ \A rel \in {"slots", "predicates", "compiled", "partitions", "assertions"} :
       \A r \in db[rel] : Registered(db, r.t)
  /\ \A r \in db["tables"] : \E q \in db["trees"] : Fold[q.t] = r.m /\ Stores(q)
  /\ \A r \in db["macros"] : \E q \in db["trees"] : Fold[q.t] = r.m /\ Concrete(q)

\* Two registered trees never share a generated table or macro (create's
\* case-insensitive collision refusal).
NoSharedObjects == \A q, r \in db["trees"] : Fold[q.t] = Fold[r.t] => q.t = r.t

\* The macro that serves a tree, the recorded projection and the recorded
\* attribute columns all come from the slots the catalog holds now.
CompiledAgrees ==
  \A q \in {x \in db["trees"] : Concrete(x)} :
    LET slots == SlotsOf(db, q.t)
        text  == ServedBy(q.storage, q.t, slots, q.source)
    IN  /\ {r.text : r \in Entry(db, "macros", Fold[q.t])} = {text}
        /\ {[art |-> r.art, text |-> r.text] : r \in TreeRows(db, "compiled", q.t)} =
             {[art |-> "projection", text |-> Projection(slots, q.source)],
              [art |-> "attribute_columns", text |-> text]}

\* has_semantic, which tree_match reads to allow an S clause, says what the
\* tree's slots say (create through LIKE, alter by replacement).
SemanticFlag ==
  \A q \in db["trees"] : q.sem = Declares(SlotsOf(db, q.t), PredsOf(db, q.t))

-----------------------------------------------------------------------------
(* The stored partitions.                                                  *)

\* tree_state.partitions describes the stored rows: one row per ROOT, with the
\* number of rows the table holds for it.
PartitionsMatchRows ==
  \A q \in {x \in db["trees"] : Stores(x)} :
    /\ HasTable(db, Fold[q.t])
    /\ {[root |-> p.root, n |-> p.n] : p \in TreeRows(db, "partitions", q.t)} =
         {[root |-> r.root, n |-> r.part.n] : r \in Stored(db, Fold[q.t])}

\* `partitions` is one row per ROOT value.
OneRowPerRoot ==
  \A p, q \in db["partitions"] : p.t = q.t /\ p.root = q.root => p = q

\* What a tree's declaration promises of a stored row; the key's uniqueness is
\* a claim of its own, KeysAreUnique.
Enforced(slots) ==
  {"shadow"} \cup P13Arms \cup OverrideSlots(slots)
  \cup (IF "ORDER" \in slots THEN {"order"} ELSE {})
  \cup (IF LevelBasis(slots) THEN {} ELSE {"reach"})

\* No partition is stored that the tree's declaration would refuse, whichever
\* verb brought it: create, insert, replace and alter emit their own checks.
StoredConforms ==
  \A q \in {x \in db["trees"] : Stores(x)} : \A r \in Stored(db, Fold[q.t]) :
    r.part.bad \cap Enforced(SlotsOf(db, q.t)) = {}

\* A declared UNIQUE KEY is unique in every stored partition (03_ddl.sql says
\* uniqueness is a property of the declaration, not of the basis).
KeysAreUnique ==
  \A q \in {x \in db["trees"] : Stores(x)} : \A r \in Stored(db, Fold[q.t]) :
    "UNIQUE KEY" \in SlotsOf(db, q.t) => "key" \notin r.part.bad

\* No stored _pre was taken from a scan that may not keep insertion order (the
\* frozen guard of insert, replace and alter, and create's refusal).
NoArbitraryOrder == \A r \in db["rows"] : ~r.arb

-----------------------------------------------------------------------------
(* Steps.  Committed(s) is the step that makes a call's work visible.      *)

Committed(s) == pc[s] = "run" /\ result'[s] = "ok"
Verb(s)      == call[s].verb

\* The work of a verb becomes visible only by its own COMMIT, and never while
\* its caller is inside a transaction it could still roll back.
OnlyCommitsShow ==
  [][db' # db => \/ edits' # edits
                 \/ \E s \in Session : Committed(s) /\ caller[s] = "auto" /\ todo[s] = <<>>]_vars

\* The catalog rows and the generated objects of one tree.
TreeState(d, t) ==
  [rel \in {"trees", "slots", "predicates", "compiled", "partitions", "assertions"} |-> TreeRows(d, rel, t)]
GeneratedState(d, t) ==
  [rel \in {"tables", "macros", "rows"} |-> Entry(d, rel, Fold[t])]

\* A verb changes its own tree and no other registered one: not a tree LIKE it,
\* not one whose name differs by case.
OthersUntouched ==
  [][\A s \in Session : Committed(s) =>
       \A q \in db["trees"] : q.t # call[s].t =>
         TreeState(db', q.t) = TreeState(db, q.t) /\ GeneratedState(db', q.t) = GeneratedState(db, q.t)]_vars

\* The partitions a table holds, and those outside the given roots.
Held(d, t)           == {[root |-> r.root, part |-> r.part] : r \in Stored(d, Fold[t])}
Outside(parts, keys) == {p \in parts : p.root \notin keys}

\* Ingest is partition-wise: insert keeps every stored partition, replace
\* rewrites exactly the roots of its source, delete removes exactly the roots
\* its predicate selects.
IngestIsPartitionWise ==
  [][\A s \in Session : Committed(s) =>
       LET old == Held(db, call[s].t)  new == Held(db', call[s].t) IN
       /\ Verb(s) = "tree_insert"  => new = old \cup Contents(db, call[s].src)
       /\ Verb(s) = "tree_replace" =>
            new = Outside(old, Roots(Contents(db, call[s].src))) \cup Contents(db, call[s].src)
       /\ Verb(s) = "tree_delete"  => new = Outside(old, call[s].roots)]_vars

\* A partition's epoch counts its replacements: a replace adds one to the roots
\* of its source, and nothing else moves it while the root stays stored.
EpochsCountReplacements ==
  [][\A s \in Session : Committed(s) =>
       \A p \in db["partitions"], q \in db'["partitions"] :
         p.t = q.t /\ p.root = q.root =>
           q.epoch = p.epoch + (IF Verb(s) = "tree_replace" /\ p.t = call[s].t
                                   /\ p.root \in Roots(Contents(db, call[s].src)) THEN 1 ELSE 0)]_vars

\* "Alter changes S only, never the row SET" (03_ddl.sql).
AlterKeepsRows ==
  [][\A s \in Session : Committed(s) /\ Verb(s) = "tree_ddl_alter" =>
       Held(db', call[s].t) = Held(db, call[s].t)]_vars

\* "rebuilding with CREATE OR REPLACE TABLE would drop what tree_insert added"
\* (03_ddl.sql), so alter refuses: no ROOT the table holds is gone after it.
InsertsSurviveAlter ==
  [][\A s \in Session : Committed(s) /\ Verb(s) = "tree_ddl_alter" =>
       Roots(Held(db, call[s].t)) \subseteq Roots(Held(db', call[s].t))]_vars

\* What tree_check looks at, and what it should then have recorded.
Checked(q, slots) ==
  {[art |-> "assert_p13", defect |-> "p13"]}
  \cup {[art |-> OArtifact[o], defect |-> o] : o \in OverrideSlots(slots)}
  \cup (IF ~Stores(q) /\ "ORDER" \in slots THEN {[art |-> "assert_order", defect |-> "order"]} ELSE {})

Judged(d, q, defect) ==
  LET read == IF Stores(q) THEN Stored(d, Fold[q.t]) ELSE Contents(d, q.source)
  IN  IF \E p \in read : defect \in p.part.bad THEN "violated" ELSE "ok"

\* After a check the tree has one verdict per declared claim, each true of what
\* the tree holds, and the per-root p13_ok agrees with the tree-level verdict.
CheckTellsTheTruth ==
  [][\A s \in Session : Committed(s) /\ Verb(s) = "tree_check" =>
       LET t == call[s].t
           q == TreeRow(db, t)
           after == TreeRows(db', "assertions", t)
       IN  /\ \A x \in after, y \in after : x.art = y.art => x = y
           /\ {[art |-> x.art, status |-> x.status] : x \in after} =
                {[art |-> c.art, status |-> Judged(db', q, c.defect)] : c \in Checked(q, SlotsOf(db, t))}
           /\ Stores(q) =>
                (Judged(db', q, "p13") = "ok" <=> \A p \in TreeRows(db', "partitions", t) : p.ok)]_vars

\* tree_check asks of the levels what ingest asks: it "REPORTS and never refuses",
\* and "that is the whole difference between it and the ingest checks it shares its
\* comparisons with" (04_dml.sql), so levels ingest would refuse are not "ok".
CheckSeesWhatIngestRefuses ==
  [][\A s \in Session : Committed(s) /\ Verb(s) = "tree_check" =>
       \A q \in {x \in db["trees"] : x.t = call[s].t /\ ~Stores(x)},
          x \in TreeRows(db', "assertions", call[s].t) :
         x.art = "assert_p13" /\ x.status = "ok" =>
           \A p \in Contents(db', q.source) : p.part.bad \cap P13Arms = {}]_vars

\* A verb takes effect exactly when its scan answers its row: a call that has
\* answered is neither run again by the next call of its scan, nor refused after
\* the fact, and none answers without its COMMIT.
OneEffectPerCall ==
  [][\A s \in Session : pc[s] \notin {"idle", "bound"} =>
       /\ result[s] = "ok" => ~Committed(s) /\ result'[s] \notin {"refused", "error"}
       /\ result[s] # "ok" /\ result'[s] = "ok" => Committed(s)]_vars

\* A scan that starts ends, whatever its statements do.
CallsReturn == \A s \in Session : ~Resting(s) ~> Idle(s)

-----------------------------------------------------------------------------
(* The contract.                                                           *)

AllCalls == UNION {Calls[s] : s \in Session}
Txs      == 1 .. MaxTx
Atomic   == INSTANCE AtomicVerbs WITH AllCalls <- AllCalls, Txs <- Txs

\* To everyone else a call is one step that applies all of its list to what is
\* committed then, or none: compiled on one connection, begun and run on another,
\* and committed at the end (VerbScan, duckent_verbs.cpp).
AtomicCalls == Atomic!AtomicSpec

=============================================================================
