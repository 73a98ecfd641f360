# Duckent in TLA+

Duckent is a DuckDB extension that registers relations as trees, encodes them in preorder
and answers selectors over them. Most of it is SQL macros that *compile*: a verb such as
`tree_ddl_create` is a macro that reads the catalog and returns a list of SQL statements,
a selector is compiled to one SQL query. A small C++ executor runs what was compiled.

This directory models the four places where that design can go wrong: the executor and
the statement lists it runs (concurrency, failure, bookkeeping), the encoding of a source
as a forest (joins over positions and levels), the selector compiler (what it refuses,
what the compiled query means), and `tree_match` with the LOAD that brings it about (plans
that outlive what they were made from, reads that must agree with their reader). TLC
checks small instances; TLAPS proves every safety property of them for every instance.

## The system

| Component | Source | State | Operations |
|---|---|---|---|
| Types and literals | `00_types.sql` | none | `tree_semantic_declares`, `tree_expand_predicate`, checks on names and expressions, `tree_err` |
| Catalog | `01_catalog.sql` | `tree_catalog.*`, `tree_state.*`: trees, slots, predicates, compiled texts, partitions, assertions, clause kinds, combinators, settings, languages | none of its own; every verb reads and writes it |
| Projection | `02_projection.sql` | none | compiles the canonical encoding (`_root _pre _level _parent _size _children _next ...`) of a source, from levels or from parents |
| DDL compilers | `03_ddl.sql` | none | `tree_compile_create`, `_drop`, `_alter` |
| DML compilers and checks | `04_dml.sql` | none | `tree_compile_insert`, `_replace`, `_delete`, `_check`, the raising checks, the recorded assertions |
| Derivations | `05_derivations.sql` | none | parent from level, encoding of a parent table |
| Selector IR | `06_selector.sql` | none | `tree_steps`, `tree_steps_group`, the printer |
| Match compiler | `07_match.sql` | none | relations, combinators, clauses, `tree_compile_match` |
| Traversal | `08_traversal.sql` | none | `tree_nav` and nine table macros |
| TreeQL reader | `10_treeql.sql` | none | `tree_parse_treeql`, text to IR |
| Verb executor | `duckent_verbs.cpp`, `duckent_sql.cpp` | one flag per scan; a side connection per step | bind, init, guard, compile, execute, end of scan |
| Match executor | `duckent_match.cpp` | a plan, then a side connection and its result | bind, init, fetch |
| Loader | `duckent_macro_loader.cpp`, `duckent_extension.cpp` | the objects and rows the embedded files make (the database's), the registered functions (the process's) | runs the embedded SQL at LOAD, registers the functions, creates `tree_match` |

How they interact. A verb is a table function. Its scan refuses inside an explicit
transaction, calls the verb's compile macro on one fresh connection and executes the list
on another, in a transaction of its own. Every component shares state only through the
catalog's tables and the generated objects: per concrete tree a macro that serves its
projection and, when materialized, a table. A match is compiled when its statement is
bound and run, on another connection, when it starts; a prepared one may start many times.
Neither executor exists before LOAD has run every embedded file.

What is hard:

- *Compiled on one snapshot, run on another.* Between the compilation and the BEGIN
  another session may create, alter or drop the tree. Only `tree_catalog.trees` has a
  primary key; the other tables rely on deletes that collide.
- *Failure in the middle.* Any statement may raise, COMMIT may conflict, the process may
  die; no part of a verb may remain.
- *One fact in several places.* The S slots, `has_semantic`, the recorded projection, the
  serving macro and the table say the same thing; so do the stored rows,
  `tree_state.partitions` and the assertions. Seven statement lists keep them in step.
- *A plan older than its data.* A match reads the registry of languages, the catalog and
  the compiled query's shape in separate reads at bind, and the rows at init. Between them
  sources change, trees are replaced or dropped, a transaction may begin.
- *LOAD is not one transaction.* Each statement of ten files commits on its own; a fault
  leaves a part of them, and in a database file that part outlives the process.
- *Checks emitted per verb.* A bad partition may enter by the one verb that forgets one.
- *Joins as algorithms.* Parents, sizes and ranks are range joins, ASOF joins and a
  recursive walk: ties, NULLs, repeated keys, several roots and cycles multiply rows or
  lose them.
- *A fold unrolled by hand.* The selector compiler has a fixed number of passes; what no
  pass reaches silently disappears from the query and widens the answer.

## Modules

| Module | Models | State and actions |
|---|---|---|
| `TreeCatalog` | 00, 01, 03, 04 | pure: a database is a function from relations to sets of rows; `CompileCreate` ... `CompileCheck` yield lists of statements; `Raises`, `Effect` and `Staged` say what one statement does |
| `Snapshot` | DuckDB (external) | pure: snapshot isolation, conflicts at COMMIT |
| `VerbExecutor` | `duckent_verbs.cpp`, `duckent_sql.cpp` | the committed database and, per session, the caller's transaction, the call, its `done` flag, the list still to run, the snapshot and the view; `VerbBind`, `Unbind` (a plan dropped unexecuted), `VerbInit`, `EndScan`, `RequireAutoCommit`, `CompileStatements`, `BeginTransaction`, `RunStatement`, `RollBack`, `Commit`, `CommitFails`, and the environment: BEGIN and its end, DML on sources and on stored tables, `SET`, `Crash` |
| `AtomicVerbs` | the contract | a call is one step that applies its whole list, or no step; what calls compile to and what a statement does are parameters, so `VerbProperties` and `TreeMatch` share it |
| `VerbProperties` | | the claims about verbs |
| `StatementLemmas` | | proofs: the statements of the verbs and the lists the compilers write, for the two below and for the matches |
| `CatalogProofs`, `AtomicProofs` | | proofs: the executor and what the verbs leave in the catalog; that the executor implements the contract |
| `TreeEncoding` | 02, 04, 05 | pure: levels to parents, sizes, children, successors; the walk of the parent basis; the ingest checks |
| `TreeIngest` | ingest of one source | rows are added, then checked and projected |
| `OrderLemmas`, `EncodingLemmas`, `IngestProofs` | | proofs: numbering by an order; the encoding from levels and the walk of the parents; the theorems about an ingest |
| `TreeRelations` | 07, 08 | pure: relations, combinators, positional predicates, traversals |
| `MatchCompiler` | 07, 06 | pure: refusals, the unrolled passes, the query |
| `SelectorSpace` | | a forest grows row by row, a selector node by node; the reference meaning and the claims |
| `SelectorProofs` | | proofs: the relations over the encoding; the compiler |
| `Loader` | `duckent_extension.cpp`, `duckent_macro_loader.cpp`, the registrations of the executors | what the database holds of the embedded files, the registry of languages, the registered functions, the progress of LOAD; `StartLoad`, `RunEmbedded`, `EmbeddedFails`, `RegisterDuckentVerbs`, `RegisterMatchFunction`, `CreateTreeMatch` and its failure, `ProcessEnds` |
| `TreeMatch` | `duckent_match.cpp`; what 07 and 10 make of a selector | per reader its transaction, its own view and its match (request, language, parser, query, columns, result); `Ask`, `MatchBind`, `ResolveSelectorLanguage`, `ParserForTextSelector`, `CompileMatch`, `MatchShape`, `BoundOnly`, `MatchInit`, `MatchInOut`, `Abandon`, and around them transactions, edits, verbs, LOAD and the end of the process |
| `MatchProperties` | | the claims about LOAD and matches |
| `MatchProofs` | | proofs: the script of LOAD, LOAD itself, matches |
| `MCVerbs`, `MCIngest`, `MCSelectors`, `MCMatch` | | instances for TLC |

`VerbExecutor` composes `Snapshot` and `TreeCatalog`; `TreeIngest` and `TreeRelations`
stand on `TreeEncoding`, so the selectors are checked on rows encoded as the projection
encodes them. `TreeMatch` composes `Loader`, `Snapshot` and `AtomicVerbs`: to a reader
another session's verb is one step, which is what the run `race` shows of `VerbExecutor`
and `CallsAreAtomic` proves.

A definition named like another with a suffix (`CollidesExact`, `StepCOnePass`) is a
mutant: the same definition with one plausible mistake, which a listed run must refute.

### What is abstracted

- A tree's identity is one value; `Fold` is DuckDB's case folding of the names of generated
  objects. Slots are declared or not; an expression is never looked into.
- In `TreeCatalog` the rows of one ROOT partition are their number, an id, and the set of
  checks they would fail. `TreeEncoding` says what those checks are: the same partition,
  row by row.
- Compiled text is the pair of slots and source it was compiled from.
- In `MatchCompiler` a row *says* the clauses that hold of it; an alias is its step. The
  predicates of a pass are the pairs of a node and a row they hold for; `Joined` is what the
  joins of `tree_sql_chain` bind, for a group and for the outer chain alike. The steps of a
  chain are put in order by their rank (`InOrder`): the provers see nothing of the
  recursion behind `SortSeq`.
- Snapshot isolation is modelled from how the code relies on it. DuckDB may raise some
  conflicts earlier than COMMIT; any statement may fail anyway when `Faults` is TRUE. To
  drop or replace a table is to delete its catalog entry: that conflicts with another drop
  or create of the name, while a write to the dropped table fails at its own COMMIT, and
  rows that others committed to the table before the drop commits are no conflict.
- In `TreeMatch` a selector is the S slots its clauses read, the predicates it names and the
  language its front-end stamped on it; an answer is one chunk per ROOT partition. Which
  rows match is `SelectorSpace`'s question, which state they are read from is this one's.
- In `Loader` a file is the types, tables, rows and macros it makes and what each of its
  statements needs to be there.
- A prepared statement is not bound a second time: the comment above `MatchInit` says the
  second guard is there because a plan can be executed in another transaction than the one
  it was bound in.
- An index of a statement that fails is not recorded: every failure rolls back alike.

## What is checked

Runs that pass:

| Run | Bounds | Shows |
|---|---|---|
| `catalog` | 1 session, 5 transactions, 1 edit, names `docs`, `Docs`, `libs` | after any five verbs the rows, macros, tables, compiled texts and `has_semantic` agree; nothing outlives its tree; a verb touches its own tree; a check's verdicts are true, both ways, of a tree edited behind the verbs' back |
| `partitions` | 1 session, 4 transactions, 1 edit, eight sources, four of them defective | the bookkeeping of partitions follows the rows; each ingest verb rewrites exactly its roots; epochs count replacements; no path stores what the declaration forbids; every call returns |
| `race` | 2 sessions, 4 transactions, partitions of one and of two rows | two sessions that create and alter one tree, of which the catalog is all there is, and fill another: one row per tree, slot and root; the bookkeeping is of the rows that won; only COMMITs show; a call answers at its COMMIT and never runs or refuses after it; the executor implements `AtomicVerbs` |
| `encoding` | seven declarations, 3 to 5 rows | exactly the sources that are forests are stored, each row once, as the forest's intervals |
| `selectors` | every forest of up to 4 rows under 12 selectors; every selector grown by 2 nodes over one forest from three seeds, one of them under three declarations | relations and traversals are the forest's; an accepted selector answers what it means, nothing of it dropped; a tree without SIBLING_ORDER is never read by order |
| `matches` | 1 reader, 2 verbs of others, 1 edit, 1 match bound and executed any number of times, ten files in an unsorted order | whatever fails in LOAD, and however often, no function stands over half a script; rows, language, parser and plan are the ones the caller's own session sees; the label says who read the selector; a plan whose tree is as registered answers as one compiled afresh; every match ends |

In the runs over the executor statements may fail, COMMITs may conflict and the process
may crash (`Faults = TRUE`) at any step. In `matches` every statement of LOAD may fail and the process
may end at any time, over a file, which keeps what LOAD committed, or in memory.

Why the bounds are enough. Create, two changes, a check or a drop and a re-creation need
five transactions, and no verb looks further back than the catalog rows it replaces. A
race needs a create and two overlapping calls; one more shows what the loser's leftovers
do. The two sources that replace a partition there differ in length, so the count of
the wrong one shows; the tree both create is abstract, so no table or macro collides and the
primary key is alone. In the encoding three rows make a tie, a repeated key, an orphan and a
two-row cycle beside a root; five rows of pure levels make every pattern of a descent over two levels
after a leaf; four rows let two roots of two rows share keys. In the selectors four rows
make a sibling after a sibling with a child and a non-element between two elements. Two
nodes over the nested seed reach one group level past the limit with its inner step.

In `matches` two verbs are a create and a change of what the plan was compiled from, or a
create and a re-creation after a LOAD over the file. One edit is what each hazard needs: the
reader's own uncommitted row before it executes a prepared match, a source changed between
two executions, a language's parser or the default changed before or during bind. What one
edit does not reach is a COMMIT of the reader that conflicts with another edit, which
leaves its match as it was. One match bound is one plan with every history around it; a
second plan of the same reader shares nothing with the first.

Runs whose violation is the point (each states a sentence of the repository; see the
findings in `PROJECT.json`):

| Run | Sentence | What happens |
|---|---|---|
| `key_gate` | uniqueness is "a property of the DECLARATION, not of the basis" | insert and replace skip the UNIQUE KEY check on a level-basis tree |
| `alter_discards` | "Alter changes S only, never the row SET" | a replaced partition of equal size is lost when alter rebuilds from the registered source |
| `alter_overtakes` | alter refuses because the rebuild "would drop what tree_insert added" | an insert that commits between alter's BEGIN and COMMIT is not seen, and its rows are dropped; its partitions row stays |
| `insert_twice` | "`partitions` is one row per ROOT value" | two concurrent inserts of a ROOT both commit |
| `check_blind` | a check "shares its comparisons" with ingest | NULL and negative levels are recorded `ok` |
| `ir_cycle` | structure out of reach is refused "rather than trusting its caller" | a step and a group that hang off each other are accepted and dropped |

Fairness. `FairSpec` adds weak fairness of `Step(s)`: a scan that has started is run to
its end by the caller's thread, and it waits for nobody. Nothing is assumed of the
environment. Only `CallsReturn` uses it, in a run of one session: no guard of a step reads
another session's, so a call could only wait on itself. Its mutant is what `docs/executor-mechanism.md`
rules out, compiling on the caller's own busy context.

`FairSpec` of `TreeMatch` likewise: weak fairness of `MatchStep(s)`, the steps of a statement
that is under way, and only those. That somebody asks, executes a prepared match, abandons
one, finishes LOAD or ends a transaction is not assumed. `MatchesReturn` uses it; its mutant
reports the end of the result as `HAVE_MORE_OUTPUT`.

Deadlock is checked in both executors' runs, where an idle session can always begin or end
a transaction. `encoding`, `selectors` and `ir_cycle` build finite data and stop.

## What is proved

37 theorems, over some 520 lemmas, in eight modules: every safety property of the runs that
pass, invariant or of steps. A theorem holds for every value of the
constants that satisfies the assumptions named below; TLC evaluates each of those in the
runs of its module.

### The executor

`CatalogProofs`, for any sessions, calls, names, sources, bounds and faults:

- `TypeCorrect`: the executor's state is well typed.
- `OneTree` (`OneTreePerName`): no interleaving leaves two rows for one tree. The
  committed database alone is not inductive: a COMMIT merges a view, so the invariant
  `UniqueEverywhere` also says it of every session's view. The lemmas are that a statement
  that does not raise keeps it (`EffectUniqueTrees`; only `register` adds a row, and it
  raises when the name is taken in the view) and that a merge without conflict keeps it
  (`MergeUniqueTrees`; the primary key refuses a name inserted on both sides).
- `OnlyCommits` (`OnlyCommitsShow`): the database moves only by a user's edit or by the
  COMMIT of a finished list whose caller is in autocommit. The invariant `PastGuard` says
  that a call past its guard has a caller in autocommit, which holds because a session
  cannot BEGIN while its own scan runs.
- `OneEffect` (`OneEffectPerCall`): a call answers that it ran only at the COMMIT of its list,
  and after its answer neither runs again nor is refused. The invariant `Answered` says that
  a call which has answered is back in its scan with the `done` flag set, so that the next
  poll of the scan can only end it.

### What the verbs leave in the catalog

`CatalogProofs` then states what seven statement lists together keep true. The argument:

- *Cells.* Everything that belongs to one generated name (the tree's row, its slots,
  predicates, texts, partitions, assertions, its macro, its table, its rows) is a cell,
  `CellOf(d, m)`. A database is its sources and its cells; a statement of a verb on `t`
  changes the cell of `Fold[t]` and no other (`Within`), and `TreeRow`, `SlotsOf`,
  `Collides` and the compilers read nothing else but the sources and, for LIKE, a tree they
  copy slots from. Names equal up to case are one cell, which is why `Collides` matters.
- *Tidy.* `Tidy(C)` says that a cell is empty or holds exactly one tree, whose slots have one row
  each, whose flag, macro and texts are those the slots call for, whose rows and partitions
  describe each other, and whose stored partitions pass what the declaration enforces. It
  is stronger than the sum of the properties: `CompiledAgrees` after alter needs the S slots
  to be exactly those in block S, `PartitionsMatchRows` needs one version per table,
  `StoredConforms` after an alter needs to know that alter never touches an R or O slot.
- *Lists.* A list is run statement by statement (`Runs`), and no prefix of one is tidy: create
  registers before it fills, replace deletes before it appends. So the lemmas are about
  whole lists: from a tidy cell, create, drop, alter, insert, replace, delete and check, if
  every statement gets through, end in a tidy cell (`RunsOut`). Each list is a chain of
  lemmas about what its statements do to the cell, one after the other.
- *Executor.* `Planned`, the inductive invariant, says that every committed cell is tidy, and of a
  session at work that its list was compiled from a tidy database whose cell of that
  tree is the committed one still, and that running what is left of the list from the view is
  running the whole list from the snapshot. A COMMIT then merges a tidy cell over
  untouched ones (`MergeWithin`); a fault at any point leaves the committed cells alone.
- *What a list did.* Which of the tidy cells a list leads to is a second conclusion of the same
  lemmas: `Works(d, e, c, n)` says of a call `c` run from `d` to `e` what became of its cell
  (`Inserting`, `Replacing`, `Deleting`, `Checking` ...), roots, epochs and verdicts
  included. What a list read from a source it read in its snapshot; the invariant `Sourced`
  says when that is the source committed now.

Hypotheses say when a session's cell stays the one it was compiled from:

- `Apart`: no two sessions work on trees of one generated name, and sources may be changed
  by anyone, but tables are edited by hand (`Damage`) only where one session is alone. This is what the
  code needs, not a convenience: between the compilation and BEGIN nothing holds a lock,
  and of two sessions on one tree the run `insert_twice` shows two rows for one ROOT. `Lone`,
  one session, implies it. The runs `catalog` and `partitions` are instances of it; `race`,
  two sessions on the same two trees with calls that do collide at COMMIT, is not, and shows on
  its small instance that `OneRowPerSlot`, `OneRowPerRoot`, `PartitionsMatchRows` and
  `AtomicCalls` reach beyond it, between alters and between ingests that are not two inserts of
  one ROOT. They do not reach an alter that overlaps an ingest (`alter_overtakes`).
- `Settled`, of the three properties that compare the rows of a source with those stored at the
  COMMIT: one session, or nobody changes a source. With two sessions and an edit between
  BEGIN and COMMIT an insert stores its snapshot's rows, which the property, read at the
  COMMIT, would call wrong.
- `KeysOnParents`: no tree declares a UNIQUE KEY on the level basis or inherits its slots;
  otherwise insert skips the key check (`key_gate`).

The theorems:

| Theorem | Property | Holds when |
|---|---|---|
| `PartitionsDescribeRows` | `PartitionsMatchRows` | `Apart` |
| `RootsHaveOneRow`, `SlotsHaveOneRow` | `OneRowPerRoot`, `OneRowPerSlot` | `Apart` |
| `TextsFollowTheSlots`, `FlagSaysTheSlots` | `CompiledAgrees`, `SemanticFlag` | `Apart` |
| `NothingIsOrphaned`, `ObjectsAreNotShared` | `NoOrphans`, `NoSharedObjects` | `Apart` |
| `VerbsKeepToTheirTree` | `OthersUntouched` (an action property) | `Apart` |
| `StoredIsAsDeclared` | `StoredConforms` | `Apart`, no hand edits of tables |
| `KeysStayUnique` | `KeysAreUnique` | also `KeysOnParents` |
| `IngestKeepsToItsRoots`, `EpochsAreReplacements` | `IngestIsPartitionWise`, `EpochsCountReplacements` (action properties) | `Apart`, `Settled` |
| `ChecksAreTrue` | `CheckTellsTheTruth` (an action property) | `Apart`, `Settled` |
| `OrdersAreKept` | `NoArbitraryOrder` | `Lone`: the setting is a global one and may move between the frozen guard and the projection |

Assumptions: `SharedPredicateAssumption` and `NullAssumption` of `TreeCatalog`;
`CallsAssumption` of `VerbExecutor` (a call is one of the seven verbs; create declares slots there are,
alter S slots; insert and replace name a source, which the verbs' argument checks enforce) and
`ContentsAssumption` (the rows of one ROOT of a source are one partition: what a
partition is).

### The executor implements its contract

`AtomicProofs` proves `CallsAreAtomic` (`AtomicCalls`, the specification of `AtomicVerbs`): to
everyone else a call is one step, which applies its whole list to the database it commits to,
or no step. `VerbProperties` states it by substitution (`Atomic == INSTANCE AtomicVerbs WITH
AllCalls <- AllCalls, Txs <- Txs`, the other parameters by name). The refinement is the identity on `db` and `pio`; what has to be shown is that a
COMMIT, which merges a view made statement by statement from an older snapshot, gives what the
list gives when it is compiled and run at once over the database as it is now. The argument:

- *Every statement is local.* `Local(st, m)` says of a statement of a list for the name `m`
  that over two databases with the same sources and the same cell of `m` it raises alike,
  stages alike and leaves the same cell, and that it changes nothing outside the cell. There is a
  lemma per statement (`LocalRegister` ... `LocalRefreshes`) and one per list, up to
  `CompiledLocal`. It needs less of a cell than that it is tidy (`Sane`: one table, a macro that
  reads no other, rows with their fields), which holds half-way through a list too.
- *So is the compilation*: `CompileNear`. It reads the cell of the call's tree and, for a create
  LIKE another, that one's (`Touches`).
- *The list as a whole*: `RunAllFollows` relates the executor's run over the snapshot to the
  contract's recursive function over the committed database (`RunAllIs`), statement by
  statement, up to the least one where they would part.
- *The executor*: `Stands`, the inductive invariant, says that a session's list is what the
  committed database compiles its call to, that its snapshot still has the committed cell
  and sources, and that running what is left from the view is running the whole list
  from the snapshot. At COMMIT the merged database and the contract's have the same cell
  of `m` and are as before outside it, so they are equal (`OneDb`).
- *Numbers*: the contract's transactions are numbered up to `MaxTx`. That the executor's are takes
  the invariant `Numbered`: those begun and those the calls under way may yet begin.

It holds under `Steady`: nobody edits a generated table by hand and either there is one session,
or no source or setting is changed and no session's calls name a tree another's work on, LIKE
included. Each part is needed: a list reads its source in its snapshot, so the order of a source
change and a COMMIT after it can be told. `race` goes beyond it: its sessions
share their trees, and no source moves. Its assumptions are
those of `CatalogProofs` and `BoundsAssumption` of `VerbExecutor` (finitely many sessions, a
bound that is a number).

### The encoding

`IngestProofs`, over `EncodingLemmas` and `OrderLemmas`, for every declaration and for sources
of every length:

- `P13RefusesExactlyNoForests` (`P13IsExact`): P13 refuses a sequence of levels if and only if
  no forest has it in preorder. One way, a forest's preorder passes every level on its way down;
  the other, the forest is the one of `ParentIs`, the nearest prior row one level up.
- `StoredSubtreesAreIntervals`, `StoredLevelsAreDepths`, `StoredOverridesConform`: what is
  stored is served from declared columns, derived ones or both. `Acceptable` says what the
  checks establish of a source on either basis, `Encodes` what the stored relation then is;
  `AcceptedEncodes` leads from one to the other and the three theorems from there. The
  heart is `IntervalIsClosed`: the rows that hang off a row or off its subtree are the
  rows of its interval, since a parent is the last earlier row that is higher.
- `StoresEveryRowOnce` (`EveryRowOnce`): row_number() over ties and NULLs numbers the
  rows of each root 0 .. n-1 (`RankedIs`), and the joins on positions find one row each.
- `RefusesExactlyTheUnreachable` (`RefusesWhatItCannotReach`) and `StoredForestIsTheSources`
  (`WalkKeepsTheForest`): on the parent basis. The recursive walk reaches a row in one
  iteration only (`ReachedOnce`), which is its depth (`DepthIs`); a row it never reaches
  has PARENTs that never end. Sorting by the lists of sibling ranks is a preorder of that
  forest (`PathsAreAPreorder`), so the parents derived from the levels are the rows the
  PARENTs name (`WalkParents`).
- `IngestTypes` (`TypeOK`). The inductive invariant, `IngestInv`, says that the verdict is
  that of the checks and the stored rows are the projection of an accepted source.

The model writes the walk, the levels and the paths as recursive functions on numbers and
proves with the least counterexample (`LeastNat`) and with approximations of a recursive
function (`Iterates`), both from the natural numbers' own properties: this is how induction
over positions is had without an induction rule.

Assumptions: `NullAssumption` (NULL is no number), `ShapesAssumption` (a declaration is which
slots have a column; the parent basis requires a key, as create does at `03_ddl.sql:203`) and
`RowsAssumption` (ORDER, LEVEL and the key are numbers or NULL, a SIBLING_ORDER is a number).

### LOAD and matches

`MatchProofs`, for any embedded files, readers, selectors, parsers, edits,
verbs and bounds:

- `LoadIsAllOrNoFunctions` (`RegisteredMeansLoaded`): a function that can be called finds
  everything the files make. What is registered is not enough to carry this through LOAD:
  `LoaderInv` adds that while the script runs the objects of the statements before the
  current one are there (`ScriptRan`), and that after it all of them are. No statement takes
  an object away; the end of the process takes the functions with it, so it does not matter
  whether the objects survive.
- `RefusedLoadsChangeNothing` (`RefusedLoadChangesNothing`): a LOAD the database refuses is
  refused at its first statement, because an earlier LOAD made the types, and changes nothing.
  This turns on the order the files sort into: `ScriptIs` proves of the concatenated script
  that the types come first and that no statement needs a later one's object, for any subset of the files and any
  order the build wrote them down in. `RefusalInv` adds that the second type is never
  there without the first.
- `LabelsSayWhoRead` (`LabelSaysWhoRead`): `_match_language` is the language named, else the
  one of the front-end that read the text or built the IR. `MatchInv` says of every match
  that it has no query before the compile, that a query's label is `WhoRead` of the match
  (so nothing a label depends on changes once there is a query), and that a caller whose
  match is being compiled is in autocommit. The lemma `BecomesKeepsInv` reduces each action
  to the one match it replaces.
- `AnswersAgreeWithTheirReader` (`AnswersSeeOwnWrites`) and `PlansAgreeWithTheirReader`
  (`PlansSeeOwnWrites`): no match reads beside its caller's transaction. Only `MatchInit`
  opens a result and only the bind's steps plan (`OnlyInitOpens`, `OnlyBindPlans`). To a
  caller in autocommit what is committed is what it sees; that the caller still is one in
  the later steps of bind is `MatchInv`, and at init it is init's own guard, because a plan
  may have been prepared before the transaction began.

- `PlansOutlive` (`PlansOutliveOtherChanges`): a plan whose tree is registered as it was at the
  compile answers as one compiled now, and announces its columns. `MatchQuery` is a function of
  the registration (`QueryIsMade`), so the query of a match is `MadeFrom` it. That the
  columns of the plan are still the source's needs more: that a registration which looks
  the same is the same, never one that was dropped and made again. A verb of another session is
  one step; it registers nothing but its own tree, under a name that is free, and stamps
  what it writes with its number, which only grows (`VerbOnTrees`, `Aged`). `DbInv` keeps that of
  the committed database and of every reader's view, `PlanInv` says of each match that the row it
  was compiled from has been there, and while it still is has the source whose columns the
  plan announces (`Standing`).

They rest on `EmbeddedAssumption` (each of the files `00` to `10` at most once, the types and the
tables among them), `NoParserAssumption` (the registry's NULL is the selector's),
`RequestsAssumption` (a selector carries its stamp, which may be NULL), `StampsAssumption`
(a parser stamps a language), `VerbsAssumption` (a call is one of the seven verbs) and
`EditsAssumption` (what an edit may change: a source, the default language, a parser).

### The relations and the compiler

`SelectorProofs`, over the lemmas on the encoding, for forests and selectors of every size.
The inductive invariant is small, and the first two theorems take the part of it they need.
`Drawn` says: the forest is in `Preorder`, has elements
only where the tree says so (`Declared`), and, unless a node may name a later parent
(`Forward`), the selector has a repeated id or is an `Outline`: one root, ids in order,
each node after its parent.

- `RelationsHold` (`RelationsAreTheForest`). `Ups` is defined by recursion over the parents
  as drawn; what the relations read are positions, levels, parents and sizes within a root.
  `PlacesAre` numbers each root's rows, `ParentIsUp` shows that the derived parent is the row
  above (`BetweenIsBelow`: whatever stands between a row and one below it is below
  it), `SizeIsSubtree` that the size counts the rows below, so that `desc` and `ancestor` are
  intervals. `NextStands` shows that the position behind a row's subtree is the next
  sibling or no sibling at all; `WindowIs` says the same of the nearest element by order, so
  the two spellings of next and previous agree where every row is an element.
- `NothingDropped` (`NothingIsDropped`), under `~Forward`. Every step is in the outer chain, in a group
  of a step there, or in a group of one of those (`StepsAre`, by the least id that is not):
  each step hangs off a node the checks leave it, which comes before it. Below the third
  level no group can hang: `GroupDepth`, a walk of bounded length, would see it
  (`ThreeGroupsAreTooDeep`) and refuse. The finding of `ir_cycle` is what `Forward` does.
- `AnswersHold` (`AnswersAreTheMeaning`). What a step is true of is defined by recursion through
  its groups. The steps without groups are `Flat`, those whose groups are of steps in A are
  `Over(A)`, and every step is in `Over(Over(Flat))` (`AllIsOver`). So the recursion ends, and
  `SoundExists`, that the meaning exists, is proved and not taken for granted; and the pass
  stepA holds what is true of the flat steps, stepB of those over them, stepC of all
  (`PassIsSound`, `StepCIsSound`). A group holds of a row when its chain leads somewhere from
  its position (`LeadsIs`), which the theorem on the relations makes of every join.
- `OrderUnread` (`OrderIsNotRead`). The forest drawn again with its siblings in another order is a
  permutation that keeps parents (`RelistingsAre`). Ancestors move with it (`UpsRelisted`), so do
  the combinators and clauses a sibling-free tree has left (`MeansRelisted`,
  `TrueRelisted`), so does what each stage of `Over` is true of (`SoundRelisted`), and so, by
  `AnswersHold` on both forests, do the answers.

Assumptions: `SeedsAssumption` (what the exploration starts from is such a forest and such a
selector), `LooksAssumption` and `NodesAssumption` (an element or not; the root is the only
selector node) and `OpsAssumption` (an op that is not given is no combinator).

### Only model-checked

- Liveness (`CallsReturn`, `MatchesReturn`): fairness and ENABLED are out of the prover's reach.
- The properties of the runs where sessions do not keep apart (`race`): the theorems on the
  catalog need `Apart`, except `OneTree`, `OnlyCommits` and `OneEffect`, which hold of any sessions.

## What is not modelled

- Text: quoting, identifier and literal checks, the purity and well-formedness checks of
  expressions, attribute comparison operators, the printer, the TreeQL reader.
- The S columns of the projection. The per-query overlay of S is its slots (`TreeMatch`).
- The deparse of the selector's common table expression into the text of the side query
  (`duckent_match.cpp`); `Ask` starts where the selector's value is known.
- How the optimizer decides: that a scan is bound and never called (LIMIT 0, EXPLAIN) is a
  step of `VerbExecutor` (`Unbind`) and of `TreeMatch` (`BoundOnly`).
- Aliases. A selector built by hand may use one alias twice; the inner one shadows the
  outer in the compiled EXISTS.
- Selector nodes other than the root. The compiler joins the steps under any node of kind
  `selector`; only selectors with one are explored. The `op` of the first step of the outer
  chain is never read.

A consequence of what is modelled: `CREATE TYPE` has no `IF NOT EXISTS`, so a database file in
which a LOAD once created the types refuses every later LOAD at its first statement, also
when the first one died half-way and the rest is missing. `RefusedLoadChangesNothing` says
that such a refusal is the only one, and that it does no harm.

Known races that no passing run lets happen, because the code does not prevent them: two
overlapping creates of names equal up to case (the primary key is case-sensitive, so both
commit and share generated objects); an alter or an ingest of a tree dropped and
re-created between compilation and BEGIN; an alter or a drop that commits after an ingest it
did not see (`alter_overtakes`; after a drop the ingest's partitions row is left behind); the setting `preserve_insertion_order` toggled
between the frozen guard and the statement that evaluates the projection; two checks of
one tree, which insert two verdicts; a tree dropped and re-created over another source
between a match's bind and its init, whose rows then have other columns than bind announced,
and an alter between the two, which leaves the plan compiled from the older S (this is why
`PlansOutliveOtherChanges` speaks of an unchanged registration). `checked_epoch` is the maximum over all partitions,
so it does not move when a partition that is not the newest is replaced, and it falls when
the newest is deleted.

## What could follow

1. `tree_steps` and `tree_steps_group` (numbering, splicing, aliases), whose output
   `MatchCompiler` must accept or the constructor refuse, joined to the `selectors` run.
2. TreeQL balance, splitting and group openers as folds over a token alphabet.
3. Two sessions on one tree: which of the theorems under `Apart` survive when only the
   COMMITs that collide are excluded.
4. `tree_encode` and `tree_derive_parent` against the projection.
