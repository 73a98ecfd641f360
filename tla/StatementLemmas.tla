--------------------------- MODULE StatementLemmas ---------------------------
(***************************************************************************)
(* Lemmas about databases and the statements of a verb, shared by the      *)
(* proofs of the executor, which runs them one by one, and of tree_match,  *)
(* to which a verb of another session is one step.                         *)
(***************************************************************************)
EXTENDS Snapshot, OrderLemmas

-----------------------------------------------------------------------------
(* Databases.                                                              *)

\* Every statement leaves a database with the same relations.
LEMMA EffectDomain ==
  ASSUME NEW d, DOMAIN d = Relation, NEW tmp, NEW st, NEW n, NEW p
  PROVE  DOMAIN Effect(d, tmp, st, n, p) = Relation
BY DEF Effect, Insert, Without, MakeTable, DropTable, AppendRows, RefreshOk

\* COMMIT leaves a database with the same relations.
LEMMA MergeDomain ==
  ASSUME NEW d, NEW b, NEW v
  PROVE  DOMAIN Merge(d, b, v) = Relation
BY DEF Merge

\* One row per tree in a database.
UniqueTrees(d) == \A q, r \in d["trees"] : q.t = r.t => q = r

\* A statement that does not raise keeps one row per tree: only "register"
\* adds a row, and it raises when the tree is there.
LEMMA EffectUniqueTrees ==
  ASSUME NEW d, DOMAIN d = Relation, UniqueTrees(d),
         NEW tmp, NEW st, NEW n, NEW p, ~Raises(d, tmp, st, p)
  PROVE  UniqueTrees(Effect(d, tmp, st, n, p))
<1> DEFINE e == Effect(d, tmp, st, n, p)
<1> "trees" \in Relation BY DEF Relation
<1>1. CASE st.op = "register"
  <2>1. e["trees"] = d["trees"] \cup {TreeRecord(st, st.sem, n)}
    BY <1>1 DEF Effect
  <2>2. ~Registered(d, st.t)
    BY <1>1 DEF Raises
  <2>3. TreeRecord(st, st.sem, n).t = st.t
    BY DEF TreeRecord
  <2> QED BY <2>1, <2>2, <2>3 DEF UniqueTrees, Registered
<1>2. CASE st.op = "set_semantic"
  <2>1. e["trees"] = {IF r.t = st.t THEN TreeRecord(r, st.sem, n) ELSE r : r \in d["trees"]}
    BY <1>2 DEF Effect
  <2>2. \A r \in d["trees"] : TreeRecord(r, st.sem, n).t = r.t
    BY DEF TreeRecord
  <2> QED BY <2>1, <2>2 DEF UniqueTrees
<1>3. CASE st.op = "delete"
  <2>1. e["trees"] \subseteq d["trees"]
    BY <1>3 DEF Effect, Without
  <2> QED BY <2>1 DEF UniqueTrees
<1>4. CASE st.op \notin {"register", "set_semantic", "delete"}
  <2>1. e["trees"] = d["trees"]
    BY <1>4 DEF Effect, Insert, Without, MakeTable, DropTable, AppendRows, RefreshOk, Keyless, Keyed, Relation
  <2> QED BY <2>1 DEF UniqueTrees
<1> QED BY <1>1, <1>2, <1>3, <1>4

\* COMMIT keeps one row per tree: the primary key refuses a tree inserted here
\* and, since the snapshot, by someone else.
LEMMA MergeUniqueTrees ==
  ASSUME NEW d, NEW b, NEW v, UniqueTrees(d), UniqueTrees(v), ~Conflict(d, b, v)
  PROVE  UniqueTrees(Merge(d, b, v))
<1> "trees" \in Relation /\ "trees" \in Keyed BY DEF Relation, Keyed
<1>1. Merge(d, b, v)["trees"] = (d["trees"] \ (b["trees"] \ v["trees"])) \cup (v["trees"] \ b["trees"])
  BY DEF Merge, Deleted, Inserted
<1>2. \A mine \in v["trees"] \ b["trees"], theirs \in d["trees"] \ b["trees"] : mine.t # theirs.t
  <2>1. ~ SameKey(d, b, v, "trees", "t")
    BY DEF Conflict
  <2> QED BY <2>1 DEF SameKey, Inserted
<1> QED BY <1>1, <1>2 DEF UniqueTrees

\* When's optional statements.
LEMMA WhenList ==
  ASSUME NEW c, NEW l, IsList(l)
  PROVE  IsList(When(c, l))
BY NoList DEF When

-----------------------------------------------------------------------------
(* What create and alter compile to.                                       *)

HasKey(slots) == "UNIQUE KEY" \in slots

\* What create declares: its own slots and predicates, those of the tree it is
\* LIKE, and that tree's semantic flag.
CreateSlots(d, spec) == spec.slots \cup (IF spec.like # NULL THEN SlotsOf(d, spec.like) ELSE {}) \cup {"ATTR"}
CreatePreds(d, spec) ==
  Expand(CreateSlots(d, spec), spec.preds \cup (IF spec.like # NULL THEN PredsOf(d, spec.like) ELSE {}))
CreateLike(d, spec) == IF spec.like # NULL /\ Registered(d, spec.like) THEN TreeRow(d, spec.like).sem ELSE FALSE

\* Its list, by what it declares.
CreateChecks(slots, src) ==
  SourceChecks(slots, src, "UNIQUE KEY" \in slots) \o When(~LevelBasis(slots), CheckSource({"reach"}, src))
  \o CheckSource({"shadow"}, src) \o CheckSource(P13Arms, src)
Records(t, text) ==
  InsertInto("compiled", {[t |-> t, art |-> "projection", text |-> text]}) \o Tree("attribute_columns", t)
CreateList(t, abstract, src, storage, slots, preds, sem) ==
  LET concrete == ~abstract  stored == concrete /\ storage = "materialized" IN
  Register(t, abstract, src, storage, OrderSource(slots), sem)
  \o InsertInto("slots", SlotRows(t, slots, slots))
  \o When(preds # {}, InsertInto("predicates", PredRows(t, preds)))
  \o When(concrete, CreateChecks(slots, src))
  \o When(stored /\ OverrideSlots(slots) # {}, CheckSource(OverrideSlots(slots), src))
  \o When(stored, Project("create_table", t, src, OrderSource(slots)))
  \o When(concrete, Macro(t, ServedBy(storage, t, slots, src)))
  \o When(stored, Tree("count_partitions", t))
  \o When(concrete, Records(t, Projection(slots, src)))

LEMMA CreateIs ==
  ASSUME NEW d, NEW p, NEW t, NEW spec, ~CompileCreate(d, p, t, spec).refused
  PROVE  LET slots == CreateSlots(d, spec)  preds == CreatePreds(d, spec) IN
         /\ CompileCreate(d, p, t, spec).list =
              CreateList(t, spec.abstract, spec.source, spec.storage, slots, preds,
                         Declares(slots, preds) \/ CreateLike(d, spec))
         /\ ~Registered(d, t) /\ ~Collides(d, t)
         /\ ~LevelBasis(slots) => HasKey(slots)
         /\ spec.abstract # NULL /\ (~spec.abstract => spec.source # NULL)
         /\ ~spec.abstract /\ OrderSource(slots) = "frozen" => p
BY Zenon DEF CompileCreate, CreateSlots, CreatePreds, CreateLike, CreateList, CreateChecks, Records, HasKey, Refused,
             Compiled

\* What alter declares.
AlterSlots(d, t, sem) == (SlotsOf(d, t) \ SSlot) \cup (sem.slots \cup {"ATTR"})
AlterPreds(sem) == Expand(sem.slots, sem.preds)

-----------------------------------------------------------------------------
(* A whole list, run at once.                                              *)

\* The steps of RunAll (AtomicVerbs).
AtStart(d) == [ok |-> TRUE, d |-> d, tmp |-> NoTemp]
Turn(x, st, n, p) ==
  IF ~x.ok \/ Raises(x.d, x.tmp, st, p) THEN [x EXCEPT !.ok = FALSE]
  ELSE [ok |-> TRUE, d |-> Effect(x.d, x.tmp, st, n, p), tmp |-> Staged(x.d, x.tmp, st, p)]

Repeated(f, d, l, n, p, k) == f = [i \in 0 .. k |-> IF i = 0 THEN AtStart(d) ELSE Turn(f[i - 1], l[i], n, p)]

\* A function defined by that recursion exists.
LEMMA RunFunction ==
  ASSUME NEW d, NEW l, NEW n, NEW p, NEW k \in Nat
  PROVE  \E f : Repeated(f, d, l, n, p, k)
<1> USE DEF Repeated
<1> DEFINE G(x, i) == Turn(x, l[i], n, p)
<1> DEFINE exists(j) == \E f : f = [i \in 0 .. j |-> IF i = 0 THEN AtStart(d) ELSE G(f[i - 1], i)]
<1> DEFINE Bad == {j \in Nat : ~ exists(j)}
<1>1. SUFFICES ASSUME Bad # {} PROVE FALSE
  OBVIOUS
<1>2. PICK j \in Bad : \A h \in Bad : j <= h
  <2> HIDE DEF exists
  <2> QED BY <1>1, LeastNat
<1> HIDE DEF G
<1>3. CASE j = 0
  <2> DEFINE f == [i \in 0 .. 0 |-> AtStart(d)]
  <2>1. f = [i \in 0 .. 0 |-> IF i = 0 THEN AtStart(d) ELSE G(f[i - 1], i)]
    OBVIOUS
  <2>2. exists(0)
    BY <2>1
  <2> QED BY <1>2, <1>3, <2>2
<1>4. CASE j # 0
  <2>1. j - 1 \in Nat /\ j - 1 \notin Bad
    <3>1. Bad \subseteq Nat
      OBVIOUS
    <3> HIDE DEF Bad
    <3> QED BY <1>2, <1>4, <3>1
  <2>2. PICK f : f = [i \in 0 .. j - 1 |-> IF i = 0 THEN AtStart(d) ELSE G(f[i - 1], i)]
    BY <2>1
  <2> DEFINE g == [i \in 0 .. j |-> IF i = j THEN G(f[j - 1], j) ELSE f[i]]
  <2>3. \A i \in 0 .. j : i # 0 => i - 1 \in 0 .. j - 1 /\ g[i - 1] = f[i - 1]
    BY <1>2
  <2>4. \A i \in 0 .. j - 1 : f[i] = IF i = 0 THEN AtStart(d) ELSE G(f[i - 1], i)
    BY <2>2
  <2>5. ASSUME NEW i \in 0 .. j PROVE g[i] = IF i = 0 THEN AtStart(d) ELSE G(g[i - 1], i)
    <3>1. CASE i = j
      <4>1. g[i] = G(f[j - 1], j)
        BY <3>1
      <4>2. g[i - 1] = f[j - 1]
        BY <1>4, <2>3, <3>1
      <4> HIDE DEF g
      <4> QED BY <1>4, <3>1, <4>1, <4>2
    <3>2. CASE i # j
      <4>1. i \in 0 .. j - 1 /\ g[i] = f[i]
        BY <1>2, <3>2
      <4>2. i # 0 => g[i - 1] = f[i - 1]
        BY <2>3
      <4> HIDE DEF g
      <4> QED BY <2>4, <4>1, <4>2
    <3> QED BY <3>1, <3>2
  <2>6. g = [i \in 0 .. j |-> g[i]]
    OBVIOUS
  <2> HIDE DEF g
  <2>7. g = [i \in 0 .. j |-> IF i = 0 THEN AtStart(d) ELSE G(g[i - 1], i)]
    BY <2>5, <2>6
  <2>8. exists(j)
    BY <2>7
  <2> QED BY <1>2, <2>8
<1> QED BY <1>3, <1>4

\* What RunAll takes its last value of.
RunOf(d, l, n, p) == CHOOSE f : Repeated(f, d, l, n, p, Len(l))

LEMMA RunSteps ==
  ASSUME NEW d, NEW l, IsList(l), NEW n, NEW p
  PROVE  LET f == RunOf(d, l, n, p)
         IN  f[0] = AtStart(d) /\ \A i \in 1 .. Len(l) : f[i] = Turn(f[i - 1], l[i], n, p)
<1> DEFINE f == RunOf(d, l, n, p)
<1>1. Len(l) \in Nat
  BY ListMeans
<1>2. f = [i \in 0 .. Len(l) |-> IF i = 0 THEN AtStart(d) ELSE Turn(f[i - 1], l[i], n, p)]
  <2>1. \E g : Repeated(g, d, l, n, p, Len(l))
    BY <1>1, RunFunction
  <2>2. Repeated(f, d, l, n, p, Len(l))
    BY <2>1, Zenon DEF RunOf
  <2> HIDE DEF f
  <2> QED BY <2>2 DEF Repeated
<1> HIDE DEF f
<1>3. f[0] = AtStart(d) /\ \A i \in 1 .. Len(l) : f[i] = Turn(f[i - 1], l[i], n, p)
  BY <1>1, <1>2
<1> QED BY <1>3 DEF f

=============================================================================
