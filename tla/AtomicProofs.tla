---------------------------- MODULE AtomicProofs ----------------------------
(***************************************************************************)
(* That the executor implements AtomicVerbs: to everyone else a call is    *)
(* one step, which applies its whole list to the database it commits to.   *)
(* A session runs its list over the snapshot it began from; the argument   *)
(* is that over what is committed at the end the list runs the same way,   *)
(* because no statement of it reads or writes what others changed since.   *)
(***************************************************************************)
EXTENDS CatalogProofs

-----------------------------------------------------------------------------
(* Databases that agree about a generated name.                            *)

\* A cell as the verbs write it: one table, a macro that reads no other, rows
\* with their fields.
Sane(C, m) ==
  /\ \A q, r \in C["tables"] : q = r
  /\ \A r \in C["macros"] : r.text.kind = "table" => r.text.m = m
  /\ \A r \in C["partitions"] : "t" \in DOMAIN r
  /\ \A r \in C["compiled"] : r = TextOnFile(r.t, r.art, r.text, r.by)

\* d and e hold the same sources and the same cell of m.
Alike(d, e, m) ==
  /\ DOMAIN d = Relation /\ DOMAIN e = Relation
  /\ e["source"] = d["source"] /\ CellOf(e, m) = CellOf(d, m)
Near(d, e, m) == Alike(d, e, m) /\ Sane(CellOf(d, m), m)

LEMMA TidySane ==
  ASSUME NEW d, NEW m, Tidy(CellOf(d, m))
  PROVE  Sane(CellOf(d, m), m)
<1> DEFINE C == CellOf(d, m)
<1>1. CASE C = NoCell
  <2>1. C["tables"] = {} /\ C["macros"] = {} /\ C["partitions"] = {} /\ C["compiled"] = {}
    BY <1>1, RelationsAreCells DEF NoCell
  <2> HIDE DEF C
  <2> QED BY <2>1 DEF Sane, C
<1>2. ASSUME NEW q, C["trees"] = {q}, TidyTree(C, q) PROVE Sane(C, m)
  <2>1. Fold[q.t] = m
    <3>1. q \in Cell(d, "trees", m)
      BY <1>2, CellIn, RelationsAreCells
    <3> QED BY <3>1 DEF Cell, Owner
  <2>2. Shaped(C, q) /\ TextsTidy(C, q) /\ RowsTidy(C, q)
    BY <1>2 DEF TidyTree
  <2> HIDE DEF C
  <2>3. \A x, y \in C["tables"] : x = y
    BY <2>2 DEF RowsTidy, TablesOnFile
  <2>4. \A r \in C["macros"] : r.text.kind = "table" => r.text.m = m
    <3> SUFFICES ASSUME NEW r \in C["macros"], r.text.kind = "table" PROVE r.text.m = m
      OBVIOUS
    <3>1. r.text = ServedBy(q.storage, q.t, SlotsIn(C), q.source)
      BY <2>2 DEF TextsTidy
    <3> QED BY <2>1, <3>1 DEF ServedBy, Projection
  <2>5. (\A r \in C["partitions"] : "t" \in DOMAIN r)
        /\ \A r \in C["compiled"] : r = TextOnFile(r.t, r.art, r.text, r.by)
    BY <2>2 DEF Shaped, OnFile
  <2> QED BY <2>3, <2>4, <2>5 DEF Sane
<1> QED BY <1>1, <1>2 DEF Tidy

\* What changes cells, changes the cell of d and that of e alike.
Follows(d, e, x, y, m) == Within(d, x, m) /\ Within(e, y, m) /\ Near(x, y, m)

LEMMA FollowsBy ==
  ASSUME NEW d, NEW e, NEW m, Near(d, e, m), NEW C, Sane(C, m), NEW x, NEW y, Turns(d, x, m, C), Turns(e, y, m, C)
  PROVE  Follows(d, e, x, y, m)
BY DEF Follows, Near, Alike, Turns, Within

\* What a statement on a tree of the name m may read.
LEMMA NearReads ==
  ASSUME NEW t, NEW m, m = Fold[t], NEW d, NEW e, Near(d, e, m)
  PROVE  /\ Registered(e, t) <=> Registered(d, t)
         /\ \A rel \in {"trees", "slots", "predicates", "compiled", "partitions", "assertions"} :
              Select(e, rel, [t |-> t]) = Select(d, rel, [t |-> t])
         /\ \A src : Contents(e, src) = Contents(d, src)
         /\ MaxEpoch(e, t) = MaxEpoch(d, t)
<1>1. e["source"] = d["source"] /\ CellOf(e, Fold[t]) = CellOf(d, Fold[t])
  BY DEF Near, Alike
<1>2. \A rel \in Cells : Cell(e, rel, Fold[t]) = Cell(d, rel, Fold[t])
  BY <1>1, CellIn
<1>3. ASSUME NEW rel \in {"trees", "slots", "predicates", "compiled", "partitions", "assertions"}
      PROVE  Select(e, rel, [t |-> t]) = Select(d, rel, [t |-> t])
  <2>1. rel \in Cells /\ \A r : Owner(rel, r) = Fold[r.t]
    BY RelationsAreCells DEF Owner
  <2>2. \A r : r.t = t => (r \in e[rel] <=> r \in d[rel])
    BY <1>2, <2>1 DEF Cell
  <2>3. Select(e, rel, [t |-> t]) = {r \in e[rel] : r.t = t} /\ Select(d, rel, [t |-> t]) = {r \in d[rel] : r.t = t}
    BY SelectTree
  <2> QED BY <2>2, <2>3
<1>4. Registered(e, t) <=> Registered(d, t)
  <2>1. Select(e, "trees", [t |-> t]) = {r \in e["trees"] : r.t = t}
        /\ Select(d, "trees", [t |-> t]) = {r \in d["trees"] : r.t = t}
    BY SelectTree
  <2> QED BY <1>3, <2>1 DEF Registered
<1>5. \A src : Contents(e, src) = Contents(d, src)
  BY <1>1, ContentsStay
<1>6. MaxEpoch(e, t) = MaxEpoch(d, t)
  <2>1. Select(e, "partitions", [t |-> t]) = Select(d, "partitions", [t |-> t])
    BY <1>3
  <2> DEFINE es(x) == {r.epoch : r \in Select(x, "partitions", [t |-> t])}
  <2> DEFINE newest(E) == IF E = {} THEN NULL ELSE CHOOSE k \in E : \A f \in E : f <= k
  <2>2. MaxEpoch(e, t) = newest(es(e)) /\ MaxEpoch(d, t) = newest(es(d))
    BY Zenon DEF MaxEpoch
  <2>3. es(e) = es(d)
    BY <2>1
  <2> HIDE DEF es, newest
  <2> QED BY <2>2, <2>3
<1> QED BY <1>3, <1>4, <1>5, <1>6

\* What it may read of the generated objects themselves.
LEMMA NearObjects ==
  ASSUME NEW m, NEW d, NEW e, Near(d, e, m)
  PROVE  /\ \A rel \in {"tables", "macros", "rows"} : Entry(e, rel, m) = Entry(d, rel, m)
         /\ HasTable(e, m) <=> HasTable(d, m)
         /\ HasMacro(e, m) <=> HasMacro(d, m)
         /\ Stored(e, m) = Stored(d, m)
         /\ HasTable(d, m) => VersionOf(e, m) = VersionOf(d, m)
<1>1. \A rel \in Cells : Cell(e, rel, m) = Cell(d, rel, m)
  BY CellIn DEF Near, Alike
<1>2. \A rel \in {"tables", "macros", "rows"} : Entry(e, rel, m) = Entry(d, rel, m)
  BY <1>1, EntryIsCell, RelationsAreCells
<1>3. \A rel \in {"tables", "macros", "rows"} : \A r : r.m = m => (r \in e[rel] <=> r \in d[rel])
  BY <1>1, RelationsAreCells DEF Cell, Owner
<1>4. (HasTable(e, m) <=> HasTable(d, m)) /\ (HasMacro(e, m) <=> HasMacro(d, m))
  BY <1>3 DEF HasTable, HasMacro
<1>5. Stored(e, m) = Stored(d, m)
  <2>1. \A v : [m |-> m, by |-> v] \in e["tables"] <=> [m |-> m, by |-> v] \in d["tables"]
    BY <1>3
  <2> QED BY <1>3, <2>1 DEF Stored
<1>6. ASSUME HasTable(d, m) PROVE VersionOf(e, m) = VersionOf(d, m)
  <2>1. PICK r \in d["tables"] : r.m = m
    BY <1>6 DEF HasTable
  <2>2. \A q \in d["tables"] : q.m = m => q = r
    <3>1. \A x, y \in Cell(d, "tables", m) : x = y
      BY CellIn, RelationsAreCells DEF Near, Sane
    <3> QED BY <2>1, <3>1 DEF Cell, Owner
  <2>3. r \in e["tables"] /\ \A q \in e["tables"] : q.m = m => q = r
    BY <1>3, <2>1, <2>2
  <2>4. (CHOOSE q \in d["tables"] : q.m = m) = r /\ (CHOOSE q \in e["tables"] : q.m = m) = r
    BY <2>1, <2>2, <2>3
  <2> QED BY <2>4 DEF VersionOf
<1> QED BY <1>2, <1>4, <1>5, <1>6

\* What it may name as the relation it checks: a source, or m's own objects.
LEMMA NearRelation ==
  ASSUME NEW m, NEW d, NEW e, Near(d, e, m), NEW rel, rel.kind \in {"table", "proj"} => rel.m = m
  PROVE  Read(e, rel) = Read(d, rel) /\ (Readable(e, rel) <=> Readable(d, rel))
<1>1. \A src : Contents(e, src) = Contents(d, src)
  BY ContentsStay DEF Near, Alike
<1>2. Stored(e, m) = Stored(d, m) /\ (HasTable(e, m) <=> HasTable(d, m)) /\ (HasMacro(e, m) <=> HasMacro(d, m))
  BY NearObjects
<1>3. \A text : (text.kind = "table" => text.m = m) => Served(e, text) = Served(d, text)
  BY <1>1, <1>2 DEF Served
<1>4. CASE rel.kind = "proj"
  <2> DEFINE M == Cell(d, "macros", m)
  <2>1. Select(e, "macros", [m |-> m]) = M /\ Select(d, "macros", [m |-> m]) = M
    BY NearObjects, EntryIsCell DEF Entry
  <2>2. \A r \in M : r.text.kind = "table" => r.text.m = m
    BY CellIn, RelationsAreCells DEF Near, Sane
  <2> HIDE DEF M
  <2>3. \A r \in M : Served(e, r.text) = Served(d, r.text)
    BY <1>3, <2>2
  <2>4. {Served(e, r.text) : r \in M} = {Served(d, r.text) : r \in M}
    BY <2>3
  <2>5. rel.m = m
    BY <1>4
  <2>6. Read(e, rel) = UNION {Served(e, r.text) : r \in M} /\ Read(d, rel) = UNION {Served(d, r.text) : r \in M}
    BY <1>4, <2>1, <2>5 DEF Read
  <2> QED BY <1>2, <1>4, <2>4, <2>5, <2>6 DEF Readable
<1>5. CASE rel.kind # "proj"
  BY <1>2, <1>3, <1>5 DEF Read, Readable
<1> QED BY <1>4, <1>5

-----------------------------------------------------------------------------
(* Statements that keep to a cell: over databases that agree about it they *)
(* raise alike, and do alike.                                              *)

Local(st, m) ==
  \A d, e, w, n, p :
    Near(d, e, m) /\ ~Raises(d, w, st, p) =>
      /\ ~Raises(e, w, st, p)
      /\ Staged(e, w, st, p) = Staged(d, w, st, p)
      /\ Follows(d, e, Effect(d, w, st, n, p), Effect(e, w, st, n, p), m)
AllLocal(l, m) == IsList(l) /\ \A i \in DOMAIN l : Local(l[i], m)

LEMMA LocalNone == \A m : AllLocal(<<>>, m)
<1>1. DOMAIN <<>> = {}
  OBVIOUS
<1> QED BY <1>1, NoList DEF AllLocal

LEMMA LocalOne ==
  ASSUME NEW st, NEW m, Local(st, m)
  PROVE  AllLocal(<<st>>, m)
<1>1. DOMAIN <<st>> = {1} /\ <<st>>[1] = st
  OBVIOUS
<1> QED BY <1>1, OneList DEF AllLocal

LEMMA LocalJoin ==
  ASSUME NEW m, NEW a, AllLocal(a, m), NEW b, AllLocal(b, m)
  PROVE  AllLocal(a \o b, m)
<1>1. IsList(a) /\ IsList(b)
  BY DEF AllLocal
<1>2. /\ Len(a) \in Nat /\ Len(b) \in Nat /\ DOMAIN a = 1 .. Len(a) /\ DOMAIN b = 1 .. Len(b)
      /\ IsList(a \o b) /\ Len(a \o b) = Len(a) + Len(b) /\ DOMAIN (a \o b) = 1 .. Len(a \o b)
  BY <1>1, ListMeans, ListsJoin
<1>3. ASSUME NEW i \in 1 .. Len(a) + Len(b) PROVE Local((a \o b)[i], m)
  <2>1. CASE i <= Len(a)
    <3>1. i \in 1 .. Len(a)
      BY <1>2, <2>1
    <3>2. (a \o b)[i] = a[i]
      BY <1>1, <3>1, ListsJoin
    <3> QED BY <1>2, <3>1, <3>2 DEF AllLocal
  <2>2. CASE i > Len(a)
    <3>1. i - Len(a) \in 1 .. Len(b) /\ Len(a) + (i - Len(a)) = i
      BY <1>2, <2>2
    <3>2. (a \o b)[Len(a) + (i - Len(a))] = b[i - Len(a)]
      BY <1>1, <3>1, ListsJoin
    <3> QED BY <1>2, <3>1, <3>2 DEF AllLocal
  <2> QED BY <1>2, <2>1, <2>2
<1> QED BY <1>2, <1>3 DEF AllLocal

LEMMA LocalWhen ==
  ASSUME NEW m, NEW c, NEW l, c => AllLocal(l, m)
  PROVE  AllLocal(When(c, l), m)
BY LocalNone DEF When

\* A statement that does not raise, run once.
LEMMA RunsOnce ==
  ASSUME NEW st, NEW n, NEW p, NEW d, NEW w, ~Raises(d, w, st, p)
  PROVE  Runs(<<st>>, n, {p}, At(d, w), At(Effect(d, w, st, n, p), Staged(d, w, st, p)))
<1> DEFINE x == At(d, w)
<1> DEFINE y == At(Effect(d, w, st, n, p), Staged(d, w, st, p))
<1>1. Does(x, st, n, p, y)
  BY DEF Does, At
<1> HIDE DEF x, y
<1>2. IsList(<<st>>) /\ <<st>> # <<>> /\ Head(<<st>>) = st /\ Tail(<<st>>) = <<>>
  BY OneList
<1>3. Runs(<<>>, n, {p}, y, y)
  BY RunsNone
<1>4. p \in {p} /\ Does(x, Head(<<st>>), n, p, y) /\ Runs(Tail(<<st>>), n, {p}, y, y)
  BY <1>1, <1>2, <1>3
<1>5. Runs(<<st>>, n, {p}, x, y)
  BY <1>2, <1>4, RunsMore
<1> QED BY <1>5 DEF x, y

\* How a statement is shown to keep to the cell: what it reads agrees, and it makes
\* one and the same thing of the cell.
Turning(st, d, w, n, p, m, C) == \A y : Runs(<<st>>, n, {p}, At(d, w), y) => Turns(d, y.d, m, C)

DoesAlike(st, m, d, e, w, n, p) ==
  /\ ~Raises(e, w, st, p)
  /\ Staged(e, w, st, p) = Staged(d, w, st, p)
  /\ \E C : Sane(C, m) /\ Turning(st, d, w, n, p, m, C) /\ Turning(st, e, w, n, p, m, C)

LEMMA LocalBy ==
  ASSUME NEW st, NEW m,
         \A d, e, w, n, p : Near(d, e, m) /\ ~Raises(d, w, st, p) => DoesAlike(st, m, d, e, w, n, p)
  PROVE  AllLocal(<<st>>, m)
<1>1. ASSUME NEW d, NEW e, NEW w, NEW n, NEW p, Near(d, e, m), ~Raises(d, w, st, p)
      PROVE  /\ ~Raises(e, w, st, p)
             /\ Staged(e, w, st, p) = Staged(d, w, st, p)
             /\ Follows(d, e, Effect(d, w, st, n, p), Effect(e, w, st, n, p), m)
  <2> DEFINE x == At(Effect(d, w, st, n, p), Staged(d, w, st, p))
  <2> DEFINE y == At(Effect(e, w, st, n, p), Staged(e, w, st, p))
  <2>0. DoesAlike(st, m, d, e, w, n, p)
    BY <1>1
  <2>1. ~Raises(e, w, st, p) /\ Staged(e, w, st, p) = Staged(d, w, st, p)
    BY <2>0 DEF DoesAlike
  <2>2. PICK C : Sane(C, m) /\ Turning(st, d, w, n, p, m, C) /\ Turning(st, e, w, n, p, m, C)
    BY <2>0 DEF DoesAlike
  <2>3. Runs(<<st>>, n, {p}, At(d, w), x) /\ Runs(<<st>>, n, {p}, At(e, w), y)
    BY <1>1, <2>1, RunsOnce
  <2>4. Turns(d, x.d, m, C) /\ Turns(e, y.d, m, C)
    BY <2>2, <2>3 DEF Turning
  <2>5. Turns(d, Effect(d, w, st, n, p), m, C) /\ Turns(e, Effect(e, w, st, n, p), m, C)
    BY <2>4 DEF At
  <2> QED BY <1>1, <2>1, <2>2, <2>5, FollowsBy
<1>2. Local(st, m)
  BY <1>1 DEF Local
<1> QED BY <1>2, LocalOne

\* A statement that changes nothing in the database.
LEMMA LocalStill ==
  ASSUME NEW st, NEW m,
         \A d, w, n, p : Effect(d, w, st, n, p) = d,
         \A d, e, w, p : Near(d, e, m) /\ ~Raises(d, w, st, p) =>
           ~Raises(e, w, st, p) /\ Staged(e, w, st, p) = Staged(d, w, st, p)
  PROVE  AllLocal(<<st>>, m)
<1>1. \A d, e : Near(d, e, m) => Follows(d, e, d, e, m)
  BY DEF Follows, Near, Alike, Within
<1>2. Local(st, m)
  BY <1>1 DEF Local
<1> QED BY <1>2, LocalOne

\* Cells stay sane when rows are added to them, taken out or replaced.
LEMMA SaneAdd ==
  ASSUME NEW C, NEW m, Sane(C, m), DOMAIN C = Cells, NEW rel \in Cells, NEW X, rel \notin {"tables", "macros"},
         rel = "partitions" => \A r \in X : "t" \in DOMAIN r,
         rel = "compiled" => \A r \in X : r = TextOnFile(r.t, r.art, r.text, r.by)
  PROVE  Sane(Add(C, rel, X), m)
<1> DEFINE D == Add(C, rel, X)
<1>1. D[rel] = C[rel] \cup X /\ \A k \in Cells \ {rel} : D[k] = C[k]
  BY DEF Add
<1> HIDE DEF D
<1>2. /\ D["tables"] = C["tables"] /\ D["macros"] = C["macros"]
      /\ D["partitions"] = C["partitions"] \/ (rel = "partitions" /\ D["partitions"] = C["partitions"] \cup X)
      /\ D["compiled"] = C["compiled"] \/ (rel = "compiled" /\ D["compiled"] = C["compiled"] \cup X)
  BY <1>1, RelationsAreCells
<1>3. Sane(D, m)
  BY <1>2 DEF Sane
<1> QED BY <1>3 DEF D

LEMMA SaneCut ==
  ASSUME NEW C, NEW m, Sane(C, m), DOMAIN C = Cells, NEW rel \in Cells, NEW X
  PROVE  Sane(Cut(C, rel, X), m)
<1> DEFINE D == Cut(C, rel, X)
<1>1. \A k \in Cells : D[k] \subseteq C[k]
  BY DEF Cut
<1> HIDE DEF D
<1>2. D["tables"] \subseteq C["tables"] /\ D["macros"] \subseteq C["macros"] /\ D["partitions"] \subseteq C["partitions"]
      /\ D["compiled"] \subseteq C["compiled"]
  BY <1>1, RelationsAreCells
<1>3. Sane(D, m)
  BY <1>2 DEF Sane
<1> QED BY <1>3 DEF D

LEMMA SanePut ==
  ASSUME NEW C, NEW m, Sane(C, m), DOMAIN C = Cells, NEW rel \in Cells, NEW X,
         rel = "tables" => \A q, r \in X : q = r,
         rel = "macros" => \A r \in X : r.text.kind = "table" => r.text.m = m,
         rel = "partitions" => \A r \in X : "t" \in DOMAIN r,
         rel = "compiled" => \A r \in X : r = TextOnFile(r.t, r.art, r.text, r.by)
  PROVE  Sane(Put(C, rel, X), m) /\ DOMAIN Put(C, rel, X) = Cells
<1> DEFINE D == Put(C, rel, X)
<1>1. DOMAIN D = Cells /\ D[rel] = X /\ \A k \in Cells \ {rel} : D[k] = C[k]
  BY DEF Put
<1> HIDE DEF D
<1>2. \A k \in Cells : D[k] = C[k] \/ (rel = k /\ D[k] = X)
  BY <1>1
<1>3. Sane(D, m)
  BY <1>2, RelationsAreCells DEF Sane
<1> QED BY <1>1, <1>3 DEF D

-----------------------------------------------------------------------------
(* Each statement keeps to its tree's cell.                                *)

\* The start of each: two databases that agree, and the cell they agree about.
LEMMA NearCells ==
  ASSUME NEW d, NEW e, NEW m, Near(d, e, m), NEW w
  PROVE  /\ DOMAIN At(d, w).d = Relation /\ DOMAIN At(e, w).d = Relation
         /\ At(d, w).d = d /\ At(e, w).d = e /\ At(d, w).tmp = w /\ At(e, w).tmp = w
         /\ CellOf(e, m) = CellOf(d, m) /\ Sane(CellOf(d, m), m) /\ DOMAIN CellOf(d, m) = Cells
         /\ \A rel \in Cells : Cell(e, rel, m) = Cell(d, rel, m) /\ CellOf(d, m)[rel] = Cell(d, rel, m)
BY CellIn DEF Near, Alike, At

LEMMA LocalRegister ==
  ASSUME NEW t, NEW abstract, NEW source, NEW storage, NEW ordersrc, NEW sem
  PROVE  AllLocal(Register(t, abstract, source, storage, ordersrc, sem), Fold[t])
<1> DEFINE st == [op |-> "register", t |-> t, abstract |-> abstract, source |-> source, storage |-> storage,
                  ordersrc |-> ordersrc, sem |-> sem]
<1> DEFINE m == Fold[t]
<1> SUFFICES ASSUME NEW d, NEW e, NEW w, NEW n, NEW p, Near(d, e, m), ~Raises(d, w, st, p)
             PROVE  DoesAlike(st, m, d, e, w, n, p)
  BY LocalBy DEF Register
<1> DEFINE C == Add(CellOf(d, m), "trees", TreesOnFile(t, abstract, source, storage, ordersrc, sem, n))
<1>1. ~Raises(e, w, st, p) /\ Staged(e, w, st, p) = Staged(d, w, st, p)
  BY NearReads DEF Raises, Staged
<1>2. Turning(st, d, w, n, p, m, C) /\ Turning(st, e, w, n, p, m, C)
  BY NearCells, RunsRegister DEF Turning, Register
<1>3. Sane(C, m)
  BY NearCells, RelationsAreCells, SaneAdd
<1> QED BY <1>1, <1>2, <1>3 DEF DoesAlike

LEMMA LocalSemantic ==
  ASSUME NEW t, NEW sem
  PROVE  AllLocal(SetSemantic(t, sem), Fold[t])
<1> DEFINE st == [op |-> "set_semantic", t |-> t, sem |-> sem]
<1> DEFINE m == Fold[t]
<1> SUFFICES ASSUME NEW d, NEW e, NEW w, NEW n, NEW p, Near(d, e, m), ~Raises(d, w, st, p)
             PROVE  DoesAlike(st, m, d, e, w, n, p)
  BY LocalBy DEF SetSemantic
<1> DEFINE C == Put(CellOf(d, m), "trees", Flagged(Cell(d, "trees", m), t, sem, n))
<1>1. ~Raises(e, w, st, p) /\ Staged(e, w, st, p) = Staged(d, w, st, p)
  BY DEF Raises, Staged
<1>2. Turning(st, d, w, n, p, m, C) /\ Turning(st, e, w, n, p, m, C)
  BY NearCells, RelationsAreCells, RunsSemantic DEF Turning, SetSemantic
<1>3. Sane(C, m)
  BY NearCells, RelationsAreCells, SanePut
<1> QED BY <1>1, <1>2, <1>3 DEF DoesAlike

LEMMA LocalSlots ==
  ASSUME NEW t, NEW slots, NEW which
  PROVE  AllLocal(InsertInto("slots", SlotRows(t, slots, which)), Fold[t])
<1> DEFINE st == [op |-> "insert", rel |-> "slots", rows |-> SlotRows(t, slots, which)]
<1> DEFINE m == Fold[t]
<1> SUFFICES ASSUME NEW d, NEW e, NEW w, NEW n, NEW p, Near(d, e, m), ~Raises(d, w, st, p)
             PROVE  DoesAlike(st, m, d, e, w, n, p)
  BY LocalBy DEF InsertInto
<1> DEFINE C == Add(CellOf(d, m), "slots", SlotsOnFile(t, slots, which, n))
<1>1. ~Raises(e, w, st, p) /\ Staged(e, w, st, p) = Staged(d, w, st, p)
  BY DEF Raises, Staged
<1>2. Turning(st, d, w, n, p, m, C) /\ Turning(st, e, w, n, p, m, C)
  BY NearCells, RunsSlots DEF Turning, InsertInto
<1>3. Sane(C, m)
  BY NearCells, RelationsAreCells, SaneAdd
<1> QED BY <1>1, <1>2, <1>3 DEF DoesAlike

LEMMA LocalPredicates ==
  ASSUME NEW t, NEW preds
  PROVE  AllLocal(InsertInto("predicates", PredRows(t, preds)), Fold[t])
<1> DEFINE st == [op |-> "insert", rel |-> "predicates", rows |-> PredRows(t, preds)]
<1> DEFINE m == Fold[t]
<1> SUFFICES ASSUME NEW d, NEW e, NEW w, NEW n, NEW p, Near(d, e, m), ~Raises(d, w, st, p)
             PROVE  DoesAlike(st, m, d, e, w, n, p)
  BY LocalBy DEF InsertInto
<1> DEFINE C == Add(CellOf(d, m), "predicates", PredsOnFile(t, preds, n))
<1>1. ~Raises(e, w, st, p) /\ Staged(e, w, st, p) = Staged(d, w, st, p)
  BY DEF Raises, Staged
<1>2. Turning(st, d, w, n, p, m, C) /\ Turning(st, e, w, n, p, m, C)
  BY NearCells, RunsPredicates DEF Turning, InsertInto
<1>3. Sane(C, m)
  BY NearCells, RelationsAreCells, SaneAdd
<1> QED BY <1>1, <1>2, <1>3 DEF DoesAlike

LEMMA LocalProjection ==
  ASSUME NEW t, NEW text
  PROVE  AllLocal(InsertInto("compiled", {[t |-> t, art |-> "projection", text |-> text]}), Fold[t])
<1> DEFINE rows == {[t |-> t, art |-> "projection", text |-> text]}
<1> DEFINE st == [op |-> "insert", rel |-> "compiled", rows |-> rows]
<1> DEFINE m == Fold[t]
<1>0. \A n, p, x, y : Runs(<<st>>, n, {p}, x, y) => Runs(InsertInto("compiled", rows), n, {p}, x, y)
  BY DEF InsertInto
<1> HIDE DEF rows
<1> SUFFICES ASSUME NEW d, NEW e, NEW w, NEW n, NEW p, Near(d, e, m), ~Raises(d, w, st, p)
             PROVE  DoesAlike(st, m, d, e, w, n, p)
  BY LocalBy DEF InsertInto, rows
<1> DEFINE C == Add(CellOf(d, m), "compiled", {TextOnFile(t, "projection", text, n)})
<1>1. ~Raises(e, w, st, p) /\ Staged(e, w, st, p) = Staged(d, w, st, p)
  BY DEF Raises, Staged
<1>2. Turning(st, d, w, n, p, m, C) /\ Turning(st, e, w, n, p, m, C)
  <2> DEFINE X == {TextOnFile(t, "projection", text, n)}
  <2>1. \A P, x, y : DOMAIN x.d = Relation /\ Runs(InsertInto("compiled", rows), n, P, x, y) =>
          Turns(x.d, y.d, m, Add(CellOf(x.d, m), "compiled", X))
    BY RunsProjection DEF rows
  <2> HIDE DEF st, X
  <2>2. \A x, y : Runs(<<st>>, n, {p}, x, y) => Runs(InsertInto("compiled", rows), n, {p}, x, y)
    BY <1>0
  <2>3. ASSUME NEW x, DOMAIN x = Relation, CellOf(x, m) = CellOf(d, m), NEW y, Runs(<<st>>, n, {p}, At(x, w), y)
        PROVE  Turns(x, y.d, m, C)
    <3>1. At(x, w).d = x
      BY DEF At
    <3> QED BY <2>1, <2>2, <2>3, <3>1 DEF X
  <2>4. DOMAIN d = Relation /\ DOMAIN e = Relation /\ CellOf(e, m) = CellOf(d, m)
    BY DEF Near, Alike
  <2> QED BY <2>3, <2>4 DEF Turning
<1>3. Sane(C, m)
  BY NearCells, RelationsAreCells, SaneAdd DEF TextOnFile
<1> QED BY <1>1, <1>2, <1>3 DEF DoesAlike

LEMMA LocalDelete ==
  ASSUME NEW rel \in {"trees", "slots", "predicates", "compiled", "partitions", "assertions"}, NEW t
  PROVE  AllLocal(DeleteFrom(rel, [t |-> t]), Fold[t])
<1> DEFINE st == [op |-> "delete", rel |-> rel, where |-> [t |-> t]]
<1> DEFINE m == Fold[t]
<1> SUFFICES ASSUME NEW d, NEW e, NEW w, NEW n, NEW p, Near(d, e, m), ~Raises(d, w, st, p)
             PROVE  DoesAlike(st, m, d, e, w, n, p)
  BY LocalBy DEF DeleteFrom
<1> DEFINE C == Cut(CellOf(d, m), rel, ThoseOf(Cell(d, rel, m), t))
<1>1. ~Raises(e, w, st, p) /\ Staged(e, w, st, p) = Staged(d, w, st, p)
  BY DEF Raises, Staged
<1>2. Turning(st, d, w, n, p, m, C) /\ Turning(st, e, w, n, p, m, C)
  BY NearCells, RelationsAreCells, RunsNoRows DEF Turning, DeleteFrom
<1>3. Sane(C, m)
  BY NearCells, RelationsAreCells, SaneCut
<1> QED BY <1>1, <1>2, <1>3 DEF DoesAlike

LEMMA LocalNoSemantics ==
  ASSUME NEW t
  PROVE  AllLocal(DeleteFrom("slots", [t |-> t, b |-> "S"]), Fold[t])
<1> DEFINE st == [op |-> "delete", rel |-> "slots", where |-> [t |-> t, b |-> "S"]]
<1> DEFINE m == Fold[t]
<1> SUFFICES ASSUME NEW d, NEW e, NEW w, NEW n, NEW p, Near(d, e, m), ~Raises(d, w, st, p)
             PROVE  DoesAlike(st, m, d, e, w, n, p)
  BY LocalBy DEF DeleteFrom
<1> DEFINE C == Cut(CellOf(d, m), "slots", SemanticsOf(Cell(d, "slots", m), t))
<1>1. ~Raises(e, w, st, p) /\ Staged(e, w, st, p) = Staged(d, w, st, p)
  BY DEF Raises, Staged
<1>2. Turning(st, d, w, n, p, m, C) /\ Turning(st, e, w, n, p, m, C)
  BY NearCells, RelationsAreCells, RunsNoSemantics DEF Turning, DeleteFrom
<1>3. Sane(C, m)
  BY NearCells, RelationsAreCells, SaneCut
<1> QED BY <1>1, <1>2, <1>3 DEF DoesAlike

LEMMA LocalNoArtifacts ==
  ASSUME NEW rel \in {"compiled", "assertions"}, NEW t, NEW art
  PROVE  AllLocal(DeleteFrom(rel, [t |-> t, art |-> art]), Fold[t])
<1> DEFINE st == [op |-> "delete", rel |-> rel, where |-> [t |-> t, art |-> art]]
<1> DEFINE m == Fold[t]
<1> SUFFICES ASSUME NEW d, NEW e, NEW w, NEW n, NEW p, Near(d, e, m), ~Raises(d, w, st, p)
             PROVE  DoesAlike(st, m, d, e, w, n, p)
  BY LocalBy DEF DeleteFrom
<1> DEFINE C == Cut(CellOf(d, m), rel, ArtifactsOf(Cell(d, rel, m), t, art))
<1>1. ~Raises(e, w, st, p) /\ Staged(e, w, st, p) = Staged(d, w, st, p)
  BY DEF Raises, Staged
<1>2. Turning(st, d, w, n, p, m, C) /\ Turning(st, e, w, n, p, m, C)
  BY NearCells, RelationsAreCells, RunsNoArtifacts DEF Turning, DeleteFrom
<1>3. Sane(C, m)
  BY NearCells, RelationsAreCells, SaneCut
<1> QED BY <1>1, <1>2, <1>3 DEF DoesAlike

LEMMA LocalReproject ==
  ASSUME NEW t, NEW text
  PROVE  AllLocal(Update("compiled", [t |-> t, art |-> "projection"], [text |-> text]), Fold[t])
<1> DEFINE st == [op |-> "update", rel |-> "compiled", where |-> [t |-> t, art |-> "projection"], new |-> [text |-> text]]
<1> DEFINE m == Fold[t]
<1> SUFFICES ASSUME NEW d, NEW e, NEW w, NEW n, NEW p, Near(d, e, m), ~Raises(d, w, st, p)
             PROVE  DoesAlike(st, m, d, e, w, n, p)
  BY LocalBy DEF Update
<1> DEFINE C == Add(Cut(CellOf(d, m), "compiled", ArtifactsOf(Cell(d, "compiled", m), t, "projection")),
                 "compiled", Reprojected(Cell(d, "compiled", m), t, text, n))
<1>1. ~Raises(e, w, st, p) /\ Staged(e, w, st, p) = Staged(d, w, st, p)
  BY DEF Raises, Staged
<1>2. Turning(st, d, w, n, p, m, C) /\ Turning(st, e, w, n, p, m, C)
  BY NearCells, RelationsAreCells, RunsReproject DEF Turning, Update, Sane
<1>3. Sane(C, m)
  <2> DEFINE D == Cut(CellOf(d, m), "compiled", ArtifactsOf(Cell(d, "compiled", m), t, "projection"))
  <2> DEFINE X == Reprojected(Cell(d, "compiled", m), t, text, n)
  <2>1. Sane(D, m) /\ DOMAIN D = Cells
    BY NearCells, RelationsAreCells, SaneCut DEF Cut
  <2>2. \A r \in X : r = TextOnFile(r.t, r.art, r.text, r.by)
    BY DEF Reprojected, TextOnFile
  <2> HIDE DEF D, X
  <2>3. Sane(Add(D, "compiled", X), m)
    BY <2>1, <2>2, RelationsAreCells, SaneAdd
  <2> QED BY <2>3 DEF D, X
<1> QED BY <1>1, <1>2, <1>3 DEF DoesAlike

LEMMA LocalCheck ==
  ASSUME NEW m, NEW defects, NEW src
  PROVE  AllLocal(<<[op |-> "check", defects |-> defects, src |-> src]>>, m)
<1> DEFINE st == [op |-> "check", defects |-> defects, src |-> src]
<1>1. \A d, w, n, p : Effect(d, w, st, n, p) = d
  BY DEF Effect
<1>2. ASSUME NEW d, NEW e, NEW w, NEW p, Near(d, e, m), ~Raises(d, w, st, p)
      PROVE  ~Raises(e, w, st, p) /\ Staged(e, w, st, p) = Staged(d, w, st, p)
  BY <1>2, ContentsStay DEF Raises, Staged, Subject, Near, Alike
<1> QED BY <1>1, <1>2, LocalStill

LEMMA LocalChecks ==
  \A m, defects, src : AllLocal(CheckSource(defects, src), m) /\ AllLocal(CheckNew(defects), m)
BY LocalCheck DEF CheckSource, CheckNew

LEMMA LocalFrozen ==
  \A m, ordersrc : AllLocal(FrozenGuard(ordersrc), m)
<1> TAKE m, ordersrc
<1> DEFINE st == [op |-> "frozen_guard"]
<1>1. \A d, w, n, p : Effect(d, w, st, n, p) = d
  BY DEF Effect
<1>2. \A d, e, w, p : Near(d, e, m) /\ ~Raises(d, w, st, p) =>
        ~Raises(e, w, st, p) /\ Staged(e, w, st, p) = Staged(d, w, st, p)
  BY DEF Raises, Staged
<1> QED BY <1>1, <1>2, LocalStill, LocalWhen DEF FrozenGuard

LEMMA LocalStage ==
  ASSUME NEW t, NEW src, NEW ordersrc
  PROVE  AllLocal(Project("stage", t, src, ordersrc), Fold[t])
<1> DEFINE st == [op |-> "stage", t |-> t, src |-> src, frozen |-> ordersrc = "frozen"]
<1> DEFINE m == Fold[t]
<1>1. \A d, w, n, p : Effect(d, w, st, n, p) = d
  BY DEF Effect
<1>2. ASSUME NEW d, NEW e, NEW w, NEW p, Near(d, e, m), ~Raises(d, w, st, p)
      PROVE  ~Raises(e, w, st, p) /\ Staged(e, w, st, p) = Staged(d, w, st, p)
  <2>1. ~Raises(e, w, st, p)
    BY DEF Raises
  <2>2. \A x : Staged(x, w, st, p) = [w EXCEPT !.new = Contents(x, src), !.arb = ~p /\ ordersrc = "frozen"]
    BY DEF Staged
  <2>3. Contents(e, src) = Contents(d, src)
    BY <1>2, ContentsStay DEF Near, Alike
  <2> HIDE DEF st
  <2> QED BY <2>1, <2>2, <2>3
<1> QED BY <1>1, <1>2, LocalStill DEF Project

LEMMA LocalForeign ==
  ASSUME NEW t, NEW src
  PROVE  AllLocal(TreeSource("foreign_check", t, src), Fold[t])
<1> DEFINE st == [op |-> "foreign_check", t |-> t, src |-> src]
<1> DEFINE m == Fold[t]
<1>1. \A d, w, n, p : Effect(d, w, st, n, p) = d
  BY DEF Effect
<1>2. ASSUME NEW d, NEW e, NEW w, NEW p, Near(d, e, m), ~Raises(d, w, st, p)
      PROVE  ~Raises(e, w, st, p) /\ Staged(e, w, st, p) = Staged(d, w, st, p)
  BY <1>2, NearReads DEF Raises, Staged
<1> QED BY <1>1, <1>2, LocalStill DEF TreeSource

LEMMA LocalDrift ==
  ASSUME NEW t, NEW src
  PROVE  AllLocal(TreeSource("drift_check", t, src), Fold[t])
<1> DEFINE st == [op |-> "drift_check", t |-> t, src |-> src]
<1> DEFINE m == Fold[t]
<1>1. \A d, w, n, p : Effect(d, w, st, n, p) = d
  BY DEF Effect
<1>2. ASSUME NEW d, NEW e, NEW w, NEW p, Near(d, e, m), ~Raises(d, w, st, p)
      PROVE  ~Raises(e, w, st, p) /\ Staged(e, w, st, p) = Staged(d, w, st, p)
  BY <1>2, NearReads DEF Raises, Staged, Drifted
<1> QED BY <1>1, <1>2, LocalStill DEF TreeSource

LEMMA LocalPresent ==
  ASSUME NEW t
  PROVE  AllLocal(Tree("present_check", t), Fold[t])
<1> DEFINE st == [op |-> "present_check", t |-> t]
<1> DEFINE m == Fold[t]
<1>1. \A d, w, n, p : Effect(d, w, st, n, p) = d
  BY DEF Effect
<1>2. ASSUME NEW d, NEW e, NEW w, NEW p, Near(d, e, m), ~Raises(d, w, st, p)
      PROVE  ~Raises(e, w, st, p) /\ Staged(e, w, st, p) = Staged(d, w, st, p)
  BY <1>2, NearReads DEF Raises, Staged, AlreadyPresent
<1> QED BY <1>1, <1>2, LocalStill DEF Tree

LEMMA LocalEpochs ==
  ASSUME NEW t
  PROVE  AllLocal(Tree("stage_epochs", t), Fold[t])
<1> DEFINE st == [op |-> "stage_epochs", t |-> t]
<1> DEFINE m == Fold[t]
<1>1. \A d, w, n, p : Effect(d, w, st, n, p) = d
  BY DEF Effect
<1>2. ASSUME NEW d, NEW e, NEW w, NEW p, Near(d, e, m), ~Raises(d, w, st, p)
      PROVE  ~Raises(e, w, st, p) /\ Staged(e, w, st, p) = Staged(d, w, st, p)
  <2>1. ~Raises(e, w, st, p)
    BY DEF Raises
  <2> DEFINE those(x) == {[root |-> q.root, epoch |-> q.epoch] :
                            q \in {z \in Select(x, "partitions", [t |-> t]) : z.root \in Roots(w.new)}}
  <2>2. \A x : Staged(x, w, st, p) = [w EXCEPT !.epochs = those(x)]
    BY DEF Staged
  <2>3. Select(e, "partitions", [t |-> t]) = Select(d, "partitions", [t |-> t])
    BY <1>2, NearReads
  <2>4. those(e) = those(d)
    BY <2>3
  <2> HIDE DEF those
  <2> QED BY <2>1, <2>2, <2>4
<1> QED BY <1>1, <1>2, LocalStill DEF Tree

LEMMA LocalDropStaged ==
  ASSUME NEW t
  PROVE  AllLocal(Tree("drop_staged", t), Fold[t])
<1> DEFINE st == [op |-> "drop_staged", t |-> t]
<1> DEFINE m == Fold[t]
<1>1. \A d, w, n, p : Effect(d, w, st, n, p) = d
  BY DEF Effect
<1>2. ASSUME NEW d, NEW e, NEW w, NEW p, Near(d, e, m), ~Raises(d, w, st, p)
      PROVE  ~Raises(e, w, st, p) /\ Staged(e, w, st, p) = Staged(d, w, st, p)
  BY <1>2 DEF Raises, Staged
<1> QED BY <1>1, <1>2, LocalStill DEF Tree

LEMMA LocalGone ==
  ASSUME NEW t, NEW roots
  PROVE  AllLocal(StageGone(t, roots), Fold[t])
<1> DEFINE st == [op |-> "stage_gone", t |-> t, roots |-> roots]
<1> DEFINE m == Fold[t]
<1>1. \A d, w, n, p : Effect(d, w, st, n, p) = d
  BY DEF Effect
<1>2. ASSUME NEW d, NEW e, NEW w, NEW p, Near(d, e, m), ~Raises(d, w, st, p)
      PROVE  ~Raises(e, w, st, p) /\ Staged(e, w, st, p) = Staged(d, w, st, p)
  BY <1>2, NearObjects DEF Raises, Staged
<1> QED BY <1>1, <1>2, LocalStill DEF StageGone

LEMMA LocalCreateTable ==
  ASSUME NEW t, NEW src, NEW ordersrc
  PROVE  AllLocal(Project("create_table", t, src, ordersrc), Fold[t])
<1> DEFINE st == [op |-> "create_table", t |-> t, src |-> src, frozen |-> ordersrc = "frozen"]
<1> DEFINE m == Fold[t]
<1> SUFFICES ASSUME NEW d, NEW e, NEW w, NEW n, NEW p, Near(d, e, m), ~Raises(d, w, st, p)
             PROVE  DoesAlike(st, m, d, e, w, n, p)
  BY LocalBy DEF Project
<1> DEFINE C(x) == NewTable(CellOf(x, m), TablesOnFile(m, n), RowsOf(m, n, Contents(x, src), Loose(p, ordersrc), n))
<1>1. ~Raises(e, w, st, p) /\ Staged(e, w, st, p) = Staged(d, w, st, p)
  BY NearObjects DEF Raises, Staged
<1>2. ASSUME NEW x, DOMAIN x = Relation PROVE Turning(st, x, w, n, p, m, C(x))
  <2>1. At(x, w).d = x /\ At(x, w).tmp = w
    BY DEF At
  <2>2. ASSUME NEW y, Runs(<<st>>, n, {p}, At(x, w), y) PROVE Turns(x, y.d, m, C(x))
    <3>1. Runs(Project("create_table", t, src, ordersrc), n, {p}, At(x, w), y)
      BY <2>2 DEF Project
    <3>2. \E q \in {p} : Turns(At(x, w).d, y.d, Fold[t],
            NewTable(CellOf(At(x, w).d, Fold[t]), TablesOnFile(Fold[t], n),
                     RowsOf(Fold[t], n, Contents(At(x, w).d, src), Loose(q, ordersrc), n)))
      <4> HIDE DEF st
      <4> QED BY <1>2, <2>1, <3>1, RunsTable
    <3> QED BY <2>1, <3>2
  <2> QED BY <2>2 DEF Turning
<1>3. CellOf(e, m) = CellOf(d, m) /\ DOMAIN d = Relation /\ DOMAIN e = Relation /\ Contents(e, src) = Contents(d, src)
  BY ContentsStay DEF Near, Alike
<1>4. C(e) = C(d)
  BY <1>3
<1>5. Sane(C(d), m)
  BY NearCells, RelationsAreCells, SanePut DEF NewTable, TablesOnFile
<1> HIDE DEF st, C
<1> QED BY <1>1, <1>2, <1>3, <1>4, <1>5 DEF DoesAlike

LEMMA LocalReplaceTable ==
  ASSUME NEW t, NEW src, NEW ordersrc
  PROVE  AllLocal(Project("replace_table", t, src, ordersrc), Fold[t])
<1> DEFINE st == [op |-> "replace_table", t |-> t, src |-> src, frozen |-> ordersrc = "frozen"]
<1> DEFINE m == Fold[t]
<1> SUFFICES ASSUME NEW d, NEW e, NEW w, NEW n, NEW p, Near(d, e, m), ~Raises(d, w, st, p)
             PROVE  DoesAlike(st, m, d, e, w, n, p)
  BY LocalBy DEF Project
<1> DEFINE C(x) == NewTable(CellOf(x, m), TablesOnFile(m, n), RowsOf(m, n, Contents(x, src), Loose(p, ordersrc), n))
<1>1. ~Raises(e, w, st, p) /\ Staged(e, w, st, p) = Staged(d, w, st, p)
  BY NearObjects DEF Raises, Staged
<1>2. ASSUME NEW x, DOMAIN x = Relation PROVE Turning(st, x, w, n, p, m, C(x))
  <2>1. At(x, w).d = x /\ At(x, w).tmp = w
    BY DEF At
  <2>2. ASSUME NEW y, Runs(<<st>>, n, {p}, At(x, w), y) PROVE Turns(x, y.d, m, C(x))
    <3>1. Runs(Project("replace_table", t, src, ordersrc), n, {p}, At(x, w), y)
      BY <2>2 DEF Project
    <3>2. \E q \in {p} : Turns(At(x, w).d, y.d, Fold[t],
            NewTable(CellOf(At(x, w).d, Fold[t]), TablesOnFile(Fold[t], n),
                     RowsOf(Fold[t], n, Contents(At(x, w).d, src), Loose(q, ordersrc), n)))
      <4> HIDE DEF st
      <4> QED BY <1>2, <2>1, <3>1, RunsTable
    <3> QED BY <2>1, <3>2
  <2> QED BY <2>2 DEF Turning
<1>3. CellOf(e, m) = CellOf(d, m) /\ DOMAIN d = Relation /\ DOMAIN e = Relation /\ Contents(e, src) = Contents(d, src)
  BY ContentsStay DEF Near, Alike
<1>4. C(e) = C(d)
  BY <1>3
<1>5. Sane(C(d), m)
  BY NearCells, RelationsAreCells, SanePut DEF NewTable, TablesOnFile
<1> HIDE DEF st, C
<1> QED BY <1>1, <1>2, <1>3, <1>4, <1>5 DEF DoesAlike

LEMMA LocalMacro ==
  ASSUME NEW t, NEW text, text.kind = "table" => text.m = Fold[t]
  PROVE  AllLocal(Macro(t, text), Fold[t])
<1> DEFINE st == [op |-> "macro", t |-> t, text |-> text]
<1> DEFINE m == Fold[t]
<1> SUFFICES ASSUME NEW d, NEW e, NEW w, NEW n, NEW p, Near(d, e, m), ~Raises(d, w, st, p)
             PROVE  DoesAlike(st, m, d, e, w, n, p)
  BY LocalBy DEF Macro
<1> DEFINE C(x) == Put(CellOf(x, m), "macros", MacrosOnFile(m, text, n))
<1>1. ~Raises(e, w, st, p) /\ Staged(e, w, st, p) = Staged(d, w, st, p)
  BY NearObjects DEF Raises, Staged
<1>2. ASSUME NEW x, DOMAIN x = Relation PROVE Turning(st, x, w, n, p, m, C(x))
  <2>1. At(x, w).d = x /\ At(x, w).tmp = w
    BY DEF At
  <2> QED BY <1>2, <2>1, RelationsAreCells, RunsMacro DEF Turning, Macro
<1>3. CellOf(e, m) = CellOf(d, m) /\ DOMAIN d = Relation /\ DOMAIN e = Relation
  BY NearCells DEF Near, Alike
<1>4. C(e) = C(d)
  BY <1>3
<1>5. Sane(C(d), m)
  BY NearCells, RelationsAreCells, SanePut DEF MacrosOnFile
<1> HIDE DEF st, C
<1> QED BY <1>1, <1>2, <1>3, <1>4, <1>5 DEF DoesAlike

LEMMA LocalCounted ==
  ASSUME NEW t
  PROVE  AllLocal(Tree("count_partitions", t), Fold[t])
<1> DEFINE st == [op |-> "count_partitions", t |-> t]
<1> DEFINE m == Fold[t]
<1> SUFFICES ASSUME NEW d, NEW e, NEW w, NEW n, NEW p, Near(d, e, m), ~Raises(d, w, st, p)
             PROVE  DoesAlike(st, m, d, e, w, n, p)
  BY LocalBy DEF Tree
<1> DEFINE C(x) == Add(CellOf(x, m), "partitions", PartsOnFile(t, Stored(x, m), {}, n))
<1>1. ~Raises(e, w, st, p) /\ Staged(e, w, st, p) = Staged(d, w, st, p)
  BY NearObjects DEF Raises, Staged
<1>2. ASSUME NEW x, DOMAIN x = Relation PROVE Turning(st, x, w, n, p, m, C(x))
  <2>1. At(x, w).d = x /\ At(x, w).tmp = w
    BY DEF At
  <2> QED BY <1>2, <2>1, RelationsAreCells, RunsCounted DEF Turning, Tree
<1>3. CellOf(e, m) = CellOf(d, m) /\ DOMAIN d = Relation /\ DOMAIN e = Relation /\ Stored(e, m) = Stored(d, m)
  BY NearObjects DEF Near, Alike
<1>4. C(e) = C(d)
  BY <1>3
<1>5. Sane(C(d), m)
  BY NearCells, RelationsAreCells, SaneAdd, StampedPart DEF PartsOnFile
<1> HIDE DEF st, C
<1> QED BY <1>1, <1>2, <1>3, <1>4, <1>5 DEF DoesAlike

LEMMA LocalColumns ==
  ASSUME NEW t
  PROVE  AllLocal(Tree("attribute_columns", t), Fold[t])
<1> DEFINE st == [op |-> "attribute_columns", t |-> t]
<1> DEFINE m == Fold[t]
<1> SUFFICES ASSUME NEW d, NEW e, NEW w, NEW n, NEW p, Near(d, e, m), ~Raises(d, w, st, p)
             PROVE  DoesAlike(st, m, d, e, w, n, p)
  BY LocalBy DEF Tree
<1> DEFINE C(x) == Add(CellOf(x, m), "compiled", TextsOnFile(t, "attribute_columns", Cell(x, "macros", m), n))
<1>1. ~Raises(e, w, st, p) /\ Staged(e, w, st, p) = Staged(d, w, st, p)
  BY NearObjects DEF Raises, Staged
<1>2. ASSUME NEW x, DOMAIN x = Relation PROVE Turning(st, x, w, n, p, m, C(x))
  <2>1. At(x, w).d = x /\ At(x, w).tmp = w
    BY DEF At
  <2> QED BY <1>2, <2>1, RelationsAreCells, RunsColumns DEF Turning, Tree
<1>3. CellOf(e, m) = CellOf(d, m) /\ DOMAIN d = Relation /\ DOMAIN e = Relation /\ Cell(e, "macros", m) = Cell(d, "macros", m)
  BY NearCells, RelationsAreCells DEF Near, Alike
<1>4. C(e) = C(d)
  BY <1>3
<1>5. Sane(C(d), m)
  BY NearCells, RelationsAreCells, SaneAdd DEF TextsOnFile, TextOnFile
<1> HIDE DEF st, C
<1> QED BY <1>1, <1>2, <1>3, <1>4, <1>5 DEF DoesAlike

LEMMA LocalCutRows ==
  ASSUME NEW t
  PROVE  AllLocal(Tree("delete_rows", t), Fold[t])
<1> DEFINE st == [op |-> "delete_rows", t |-> t]
<1> DEFINE m == Fold[t]
<1> SUFFICES ASSUME NEW d, NEW e, NEW w, NEW n, NEW p, Near(d, e, m), ~Raises(d, w, st, p)
             PROVE  DoesAlike(st, m, d, e, w, n, p)
  BY LocalBy DEF Tree
<1> DEFINE C(x) == Cut(CellOf(x, m), "rows", RowsDoomed(x, w, m))
<1>1. ~Raises(e, w, st, p) /\ Staged(e, w, st, p) = Staged(d, w, st, p)
  BY NearObjects DEF Raises, Staged
<1>2. ASSUME NEW x, DOMAIN x = Relation PROVE Turning(st, x, w, n, p, m, C(x))
  <2>1. At(x, w).d = x /\ At(x, w).tmp = w
    BY DEF At
  <2> QED BY <1>2, <2>1, RelationsAreCells, RunsCutRows DEF Turning, Tree
<1>3. CellOf(e, m) = CellOf(d, m) /\ DOMAIN d = Relation /\ DOMAIN e = Relation /\ RowsDoomed(e, w, m) = RowsDoomed(d, w, m)
  BY NearObjects DEF Near, Alike, RowsDoomed
<1>4. C(e) = C(d)
  BY <1>3
<1>5. Sane(C(d), m)
  BY NearCells, RelationsAreCells, SaneCut
<1> HIDE DEF st, C
<1> QED BY <1>1, <1>2, <1>3, <1>4, <1>5 DEF DoesAlike

LEMMA LocalCutParts ==
  ASSUME NEW t
  PROVE  AllLocal(Tree("delete_partitions", t), Fold[t])
<1> DEFINE st == [op |-> "delete_partitions", t |-> t]
<1> DEFINE m == Fold[t]
<1> SUFFICES ASSUME NEW d, NEW e, NEW w, NEW n, NEW p, Near(d, e, m), ~Raises(d, w, st, p)
             PROVE  DoesAlike(st, m, d, e, w, n, p)
  BY LocalBy DEF Tree
<1> DEFINE C(x) == Cut(CellOf(x, m), "partitions", PartsDoomed(x, w, t))
<1>1. ~Raises(e, w, st, p) /\ Staged(e, w, st, p) = Staged(d, w, st, p)
  BY NearObjects DEF Raises, Staged
<1>2. ASSUME NEW x, DOMAIN x = Relation PROVE Turning(st, x, w, n, p, m, C(x))
  <2>1. At(x, w).d = x /\ At(x, w).tmp = w
    BY DEF At
  <2> QED BY <1>2, <2>1, RelationsAreCells, RunsCutParts DEF Turning, Tree
<1>3. CellOf(e, m) = CellOf(d, m) /\ DOMAIN d = Relation /\ DOMAIN e = Relation /\ PartsDoomed(e, w, t) = PartsDoomed(d, w, t)
  BY NearReads DEF Near, Alike, PartsDoomed
<1>4. C(e) = C(d)
  BY <1>3
<1>5. Sane(C(d), m)
  BY NearCells, RelationsAreCells, SaneCut
<1> HIDE DEF st, C
<1> QED BY <1>1, <1>2, <1>3, <1>4, <1>5 DEF DoesAlike

LEMMA LocalAddRows ==
  ASSUME NEW t
  PROVE  AllLocal(Tree("insert_rows", t), Fold[t])
<1> DEFINE st == [op |-> "insert_rows", t |-> t]
<1> DEFINE m == Fold[t]
<1> SUFFICES ASSUME NEW d, NEW e, NEW w, NEW n, NEW p, Near(d, e, m), ~Raises(d, w, st, p)
             PROVE  DoesAlike(st, m, d, e, w, n, p)
  BY LocalBy DEF Tree
<1> DEFINE C(x) == Add(CellOf(x, m), "rows", RowsOf(m, VersionOf(x, m), w.new, w.arb, n))
<1>1. ~Raises(e, w, st, p) /\ Staged(e, w, st, p) = Staged(d, w, st, p)
  BY NearObjects DEF Raises, Staged
<1>2. ASSUME NEW x, DOMAIN x = Relation PROVE Turning(st, x, w, n, p, m, C(x))
  <2>1. At(x, w).d = x /\ At(x, w).tmp = w
    BY DEF At
  <2> QED BY <1>2, <2>1, RelationsAreCells, RunsAddRows DEF Turning, Tree
<1>0. HasTable(d, m)
  BY DEF Raises
<1>3. CellOf(e, m) = CellOf(d, m) /\ DOMAIN d = Relation /\ DOMAIN e = Relation /\ VersionOf(e, m) = VersionOf(d, m)
  BY <1>0, NearObjects DEF Near, Alike
<1>4. C(e) = C(d)
  BY <1>3
<1>5. Sane(C(d), m)
  BY NearCells, RelationsAreCells, SaneAdd
<1> HIDE DEF st, C
<1> QED BY <1>1, <1>2, <1>3, <1>4, <1>5 DEF DoesAlike

LEMMA LocalAddParts ==
  ASSUME NEW t
  PROVE  AllLocal(Tree("insert_partitions", t), Fold[t])
<1> DEFINE st == [op |-> "insert_partitions", t |-> t]
<1> DEFINE m == Fold[t]
<1> SUFFICES ASSUME NEW d, NEW e, NEW w, NEW n, NEW p, Near(d, e, m), ~Raises(d, w, st, p)
             PROVE  DoesAlike(st, m, d, e, w, n, p)
  BY LocalBy DEF Tree
<1> DEFINE C(x) == Add(CellOf(x, m), "partitions", PartsOnFile(t, w.new, w.epochs, n))
<1>1. ~Raises(e, w, st, p) /\ Staged(e, w, st, p) = Staged(d, w, st, p)
  BY NearObjects DEF Raises, Staged
<1>2. ASSUME NEW x, DOMAIN x = Relation PROVE Turning(st, x, w, n, p, m, C(x))
  <2>1. At(x, w).d = x /\ At(x, w).tmp = w
    BY DEF At
  <2> QED BY <1>2, <2>1, RelationsAreCells, RunsAddParts DEF Turning, Tree
<1>3. CellOf(e, m) = CellOf(d, m) /\ DOMAIN d = Relation /\ DOMAIN e = Relation
  BY NearCells DEF Near, Alike
<1>4. C(e) = C(d)
  BY <1>3
<1>5. Sane(C(d), m)
  BY NearCells, RelationsAreCells, SaneAdd, StampedPart DEF PartsOnFile
<1> HIDE DEF st, C
<1> QED BY <1>1, <1>2, <1>3, <1>4, <1>5 DEF DoesAlike

LEMMA LocalDropMacro ==
  ASSUME NEW t
  PROVE  AllLocal(Tree("drop_macro", t), Fold[t])
<1> DEFINE st == [op |-> "drop_macro", t |-> t]
<1> DEFINE m == Fold[t]
<1> SUFFICES ASSUME NEW d, NEW e, NEW w, NEW n, NEW p, Near(d, e, m), ~Raises(d, w, st, p)
             PROVE  DoesAlike(st, m, d, e, w, n, p)
  BY LocalBy DEF Tree
<1> DEFINE C(x) == Put(CellOf(x, m), "macros", {})
<1>1. ~Raises(e, w, st, p) /\ Staged(e, w, st, p) = Staged(d, w, st, p)
  BY NearObjects DEF Raises, Staged
<1>2. ASSUME NEW x, DOMAIN x = Relation PROVE Turning(st, x, w, n, p, m, C(x))
  <2>1. At(x, w).d = x /\ At(x, w).tmp = w
    BY DEF At
  <2> QED BY <1>2, <2>1, RelationsAreCells, RunsDropMacro DEF Turning, Tree
<1>3. CellOf(e, m) = CellOf(d, m) /\ DOMAIN d = Relation /\ DOMAIN e = Relation
  BY NearCells DEF Near, Alike
<1>4. C(e) = C(d)
  BY <1>3
<1>5. Sane(C(d), m)
  BY NearCells, RelationsAreCells, SanePut
<1> HIDE DEF st, C
<1> QED BY <1>1, <1>2, <1>3, <1>4, <1>5 DEF DoesAlike

LEMMA LocalDropTable ==
  ASSUME NEW t
  PROVE  AllLocal(Tree("drop_table", t), Fold[t])
<1> DEFINE st == [op |-> "drop_table", t |-> t]
<1> DEFINE m == Fold[t]
<1> SUFFICES ASSUME NEW d, NEW e, NEW w, NEW n, NEW p, Near(d, e, m), ~Raises(d, w, st, p)
             PROVE  DoesAlike(st, m, d, e, w, n, p)
  BY LocalBy DEF Tree
<1> DEFINE C(x) == NoTable(CellOf(x, m))
<1>1. ~Raises(e, w, st, p) /\ Staged(e, w, st, p) = Staged(d, w, st, p)
  BY NearObjects DEF Raises, Staged
<1>2. ASSUME NEW x, DOMAIN x = Relation PROVE Turning(st, x, w, n, p, m, C(x))
  <2>1. At(x, w).d = x /\ At(x, w).tmp = w
    BY DEF At
  <2> QED BY <1>2, <2>1, RelationsAreCells, RunsDropTable DEF Turning, Tree
<1>3. CellOf(e, m) = CellOf(d, m) /\ DOMAIN d = Relation /\ DOMAIN e = Relation
  BY NearCells DEF Near, Alike
<1>4. C(e) = C(d)
  BY <1>3
<1>5. Sane(C(d), m)
  BY NearCells, RelationsAreCells, SanePut DEF NoTable
<1> HIDE DEF st, C
<1> QED BY <1>1, <1>2, <1>3, <1>4, <1>5 DEF DoesAlike

\* A verdict on a relation the cell serves, and the per-root ones.
LEMMA LocalAsserts ==
  ASSUME NEW t, NEW art, NEW defect, NEW rel, rel.kind \in {"table", "proj"} => rel.m = Fold[t]
  PROVE  AllLocal(Asserts(t, art, defect, rel), Fold[t])
<1> DEFINE st == [op |-> "assert", t |-> t, art |-> art, defect |-> defect, rel |-> rel]
<1> DEFINE m == Fold[t]
<1> SUFFICES ASSUME NEW d, NEW e, NEW w, NEW n, NEW p, Near(d, e, m), ~Raises(d, w, st, p)
             PROVE  DoesAlike(st, m, d, e, w, n, p)
  BY LocalBy DEF Asserts
<1> DEFINE X(x) == {Stamp(v, n) : v \in VerdictsOn(x, t, art, defect, rel)}
<1> DEFINE C(x) == Add(CellOf(x, m), "assertions", X(x))
<1>1. Read(e, rel) = Read(d, rel) /\ (Readable(e, rel) <=> Readable(d, rel))
  BY NearRelation
<1>2. ~Raises(e, w, st, p) /\ Staged(e, w, st, p) = Staged(d, w, st, p)
  BY <1>1 DEF Raises, Staged
<1>3. ASSUME NEW x, DOMAIN x = Relation PROVE Turning(st, x, w, n, p, m, C(x))
  <2>1. At(x, w).d = x
    BY DEF At
  <2> DEFINE rows == VerdictsOn(x, t, art, defect, rel)
  <2>2. ASSUME NEW v \in rows PROVE Stamp(v, n).t = t
    <3>1. v.t = t /\ "t" \in DOMAIN v
      BY DEF VerdictsOn, Verdict
    <3> HIDE DEF rows
    <3>2. \A f \in DOMAIN v \ {"by"} : Stamp(v, n)[f] = v[f]
      BY DEF Stamp
    <3> QED BY <3>1, <3>2
  <2>3. \A r \in X(x) : Owner("assertions", r) = m
    <3> HIDE DEF rows
    <3> SUFFICES ASSUME NEW r \in X(x) PROVE Owner("assertions", r) = m
      OBVIOUS
    <3>1. PICK v \in rows : r = Stamp(v, n)
      BY DEF rows
    <3> QED BY <2>2, <3>1 DEF Owner
  <2>4. \A r : r \in X(x) <=> \E q \in rows : r = Stamp(q, n)
    OBVIOUS
  <2>5. ASSUME NEW y, Runs(<<st>>, n, {p}, At(x, w), y) PROVE y.d = Insert(x, "assertions", rows, n)
    BY <2>1, <2>5, DoesAssert
  <2> HIDE DEF st, rows, X, m
  <2>6. Turns(x, Insert(x, "assertions", rows, n), m, C(x))
    BY <1>3, <2>3, <2>4, RelationsAreCells, TurnsInsert
  <2> QED BY <2>5, <2>6 DEF Turning
<1>4. CellOf(e, m) = CellOf(d, m) /\ DOMAIN d = Relation /\ DOMAIN e = Relation
  BY DEF Near, Alike
<1>5. C(e) = C(d)
  <2>1. MaxEpoch(e, t) = MaxEpoch(d, t)
    BY NearReads
  <2>2. VerdictsOn(e, t, art, defect, rel) = VerdictsOn(d, t, art, defect, rel)
    BY <1>1, <2>1 DEF VerdictsOn, Verdict
  <2> QED BY <1>4, <2>2
<1>6. Sane(C(d), m)
  <2> HIDE DEF X
  <2> QED BY NearCells, RelationsAreCells, SaneAdd
<1> HIDE DEF st, C
<1> QED BY <1>2, <1>3, <1>4, <1>5, <1>6 DEF DoesAlike

Rejudged(q, t, read, n) ==
  IF q.t = t /\ q.root \in Roots(read)
  THEN [q EXCEPT !.ok = (\A x \in read : x.root = q.root => "p13" \notin x.part.bad), !.by = n] ELSE q

LEMMA LocalRefreshes ==
  ASSUME NEW t, NEW rel, rel.kind \in {"table", "proj"} => rel.m = Fold[t]
  PROVE  AllLocal(Refreshes(t, rel), Fold[t])
<1> DEFINE st == [op |-> "p13_ok", t |-> t, rel |-> rel]
<1> DEFINE m == Fold[t]
<1> SUFFICES ASSUME NEW d, NEW e, NEW w, NEW n, NEW p, Near(d, e, m), ~Raises(d, w, st, p)
             PROVE  DoesAlike(st, m, d, e, w, n, p)
  BY LocalBy DEF Refreshes
<1> DEFINE Z(x) == {Rejudged(q, t, Read(x, rel), n) : q \in Cell(x, "partitions", m)}
<1> DEFINE C(x) == Put(CellOf(x, m), "partitions", Z(x))
<1>1. Read(e, rel) = Read(d, rel) /\ (Readable(e, rel) <=> Readable(d, rel))
  BY NearRelation
<1>2. ~Raises(e, w, st, p) /\ Staged(e, w, st, p) = Staged(d, w, st, p)
  BY <1>1 DEF Raises, Staged
<1>3. ASSUME NEW read, NEW q, "t" \in DOMAIN q
      PROVE  Rejudged(q, t, read, n).t = q.t /\ "t" \in DOMAIN Rejudged(q, t, read, n)
  <2> DEFINE good == \A x \in read : x.root = q.root => "p13" \notin x.part.bad
  <2>1. Rejudged(q, t, read, n) = [q EXCEPT !.ok = good, !.by = n] \/ Rejudged(q, t, read, n) = q
    BY DEF Rejudged
  <2> HIDE DEF good
  <2> QED BY <1>3, <2>1
<1>4. ASSUME NEW x, DOMAIN x = Relation, \A q \in Cell(x, "partitions", m) : "t" \in DOMAIN q
      PROVE  Turning(st, x, w, n, p, m, C(x))
  <2>1. At(x, w).d = x
    BY DEF At
  <2> DEFINE read == Read(x, rel)
  <2> DEFINE g(q) == Rejudged(q, t, read, n)
  <2> DEFINE X == {g(q) : q \in x["partitions"]}
  <2>2. ASSUME NEW y, Runs(<<st>>, n, {p}, At(x, w), y) PROVE y.d = [x EXCEPT !["partitions"] = X]
    <3>1. y.d = RefreshOk(x, t, rel, n)
      BY <2>1, <2>2, DoesP13Ok
    <3>2. RefreshOk(x, t, rel, n) = [x EXCEPT !["partitions"] = X]
      BY <1>4, RelationsAreCells DEF RefreshOk, Rejudged, Cells
    <3> QED BY <3>1, <3>2
  <2>3. \A q : Fold[q.t] # m => g(q) = q
    BY DEF Rejudged
  <2> HIDE DEF read, st
  <2>4. \A q \in Cell(x, "partitions", m) : Owner("partitions", g(q)) = m
    BY <1>3, <1>4 DEF Cell, Owner
  <2>5. \A q : q \in Cell(x, "partitions", m) <=> q \in x["partitions"] /\ Fold[q.t] = m
    BY DEF Cell, Owner
  <2>6. Z(x) = {g(q) : q \in Cell(x, "partitions", m)}
    BY DEF read
  <2> HIDE DEF g, Z, m
  <2>7. /\ \A q : Owner("partitions", q) # m => (q \in X <=> q \in x["partitions"])
        /\ \A q : q \in Z(x) <=> q \in X /\ Owner("partitions", q) = m
    BY <2>3, <2>4, <2>5, <2>6 DEF Owner
  <2> HIDE DEF X
  <2>8. Turns(x, [x EXCEPT !["partitions"] = X], m, C(x))
    BY <1>4, <2>7, RelationsAreCells, TurnsSet
  <2> QED BY <2>2, <2>8 DEF Turning
<1>5. CellOf(e, m) = CellOf(d, m) /\ DOMAIN d = Relation /\ DOMAIN e = Relation
  BY DEF Near, Alike
<1>6. Cell(e, "partitions", m) = Cell(d, "partitions", m) /\ \A q \in Cell(d, "partitions", m) : "t" \in DOMAIN q
  BY NearCells, RelationsAreCells DEF Sane
<1>7. C(e) = C(d)
  BY <1>1, <1>5, <1>6
<1>8. Sane(C(d), m)
  <2>1. \A r \in Z(d) : "t" \in DOMAIN r
    BY <1>3, <1>6
  <2> HIDE DEF Z
  <2> QED BY <2>1, NearCells, RelationsAreCells, SanePut
<1> HIDE DEF st, C
<1> QED BY <1>2, <1>4, <1>5, <1>6, <1>7, <1>8 DEF DoesAlike

-----------------------------------------------------------------------------
(* What a call compiles to keeps to its tree's cell.                       *)

LEMMA LocalSource ==
  ASSUME NEW m, NEW slots, NEW src, NEW key
  PROVE  AllLocal(SourceChecks(slots, src, key), m)
<1> DEFINE a == When("ORDER" \in slots, CheckSource({"order"}, src))
<1> DEFINE b == When(key, CheckSource({"key"}, src))
<1>1. AllLocal(a, m) /\ AllLocal(b, m) /\ SourceChecks(slots, src, key) = a \o b
  BY LocalChecks, LocalWhen DEF SourceChecks
<1> HIDE DEF a, b
<1> QED BY <1>1, LocalJoin

LEMMA LocalReach ==
  ASSUME NEW m, NEW c, NEW src
  PROVE  AllLocal(When(c, CheckSource({"reach"}, src)), m)
BY LocalChecks, LocalWhen

LEMMA LocalVets ==
  ASSUME NEW m, NEW src
  PROVE  AllLocal(CheckSource({"shadow"}, src), m) /\ AllLocal(CheckSource(P13Arms, src), m)
BY LocalChecks

LEMMA LocalOverrides ==
  ASSUME NEW m, NEW c, NEW slots, NEW src
  PROVE  AllLocal(When(c, CheckSource(OverrideSlots(slots), src)), m)
BY LocalChecks, LocalWhen

LEMMA ServedByKind ==
  ASSUME NEW storage, NEW t, NEW slots, NEW src, ServedBy(storage, t, slots, src).kind = "table"
  PROVE  ServedBy(storage, t, slots, src).m = Fold[t]
BY DEF ServedBy, Projection

LEMMA LocalCreate ==
  ASSUME NEW d, NEW p, NEW t, NEW spec, ~CompileCreate(d, p, t, spec).refused
  PROVE  AllLocal(CompileCreate(d, p, t, spec).list, Fold[t])
<1> DEFINE m == Fold[t]
<1> DEFINE slots == CreateSlots(d, spec)
<1> DEFINE preds == CreatePreds(d, spec)
<1> DEFINE sem == Declares(slots, preds) \/ CreateLike(d, spec)
<1> DEFINE src == spec.source
<1> DEFINE concrete == ~spec.abstract
<1> DEFINE stored == concrete /\ spec.storage = "materialized"
<1> DEFINE text == Projection(slots, src)
<1> DEFINE served == ServedBy(spec.storage, t, slots, src)
<1> DEFINE l1 == Register(t, spec.abstract, src, spec.storage, OrderSource(slots), sem)
<1> DEFINE l2 == InsertInto("slots", SlotRows(t, slots, slots))
<1> DEFINE l3 == When(preds # {}, InsertInto("predicates", PredRows(t, preds)))
<1> DEFINE k == CreateChecks(slots, src)
<1> DEFINE l4 == When(concrete, k)
<1> DEFINE l5 == When(stored /\ OverrideSlots(slots) # {}, CheckSource(OverrideSlots(slots), src))
<1> DEFINE l6 == When(stored, Project("create_table", t, src, OrderSource(slots)))
<1> DEFINE l7 == When(concrete, Macro(t, served))
<1> DEFINE l8 == When(stored, Tree("count_partitions", t))
<1> DEFINE r == Records(t, text)
<1> DEFINE l9 == When(concrete, r)
<1>1. CompileCreate(d, p, t, spec).list = l1 \o l2 \o l3 \o l4 \o l5 \o l6 \o l7 \o l8 \o l9
  <2>1. CompileCreate(d, p, t, spec).list = CreateList(t, spec.abstract, src, spec.storage, slots, preds, sem)
    BY CreateIs
  <2> HIDE DEF slots, preds, sem
  <2>2. CreateList(t, spec.abstract, src, spec.storage, slots, preds, sem) =
          l1 \o l2 \o l3 \o l4 \o l5 \o l6 \o l7 \o l8 \o l9
    BY DEF CreateList
  <2> QED BY <2>1, <2>2
<1>2. AllLocal(k, m)
  <2> DEFINE a == SourceChecks(slots, src, "UNIQUE KEY" \in slots)
  <2> DEFINE b == When(~LevelBasis(slots), CheckSource({"reach"}, src))
  <2> DEFINE v == CheckSource({"shadow"}, src)
  <2> DEFINE w == CheckSource(P13Arms, src)
  <2>1. AllLocal(a, m) /\ AllLocal(b, m) /\ AllLocal(v, m) /\ AllLocal(w, m)
    BY LocalSource, LocalReach, LocalVets
  <2>2. k = a \o b \o v \o w
    BY DEF CreateChecks
  <2> HIDE DEF a, b, v, w, k
  <2> QED BY <2>1, <2>2, LocalJoin
<1>3. AllLocal(r, m)
  <2> DEFINE a == InsertInto("compiled", {[t |-> t, art |-> "projection", text |-> text]})
  <2> DEFINE b == Tree("attribute_columns", t)
  <2> HIDE DEF text
  <2>1. AllLocal(a, m) /\ AllLocal(b, m)
    BY LocalProjection, LocalColumns
  <2>2. r = a \o b
    BY DEF Records
  <2> HIDE DEF a, b, r
  <2> QED BY <2>1, <2>2, LocalJoin
<1>4. served.kind = "table" => served.m = m
  BY ServedByKind
<1> HIDE DEF k, r, served, text
<1>5. AllLocal(l1, m) /\ AllLocal(l2, m) /\ AllLocal(l3, m)
  BY LocalRegister, LocalSlots, LocalPredicates, LocalWhen
<1>6. AllLocal(l4, m) /\ AllLocal(l9, m)
  BY <1>2, <1>3, LocalWhen
<1>7. AllLocal(l5, m) /\ AllLocal(l6, m)
  BY LocalOverrides, LocalCreateTable, LocalWhen
<1>8. AllLocal(l7, m) /\ AllLocal(l8, m)
  BY <1>4, LocalMacro, LocalCounted, LocalWhen
<1> HIDE DEF l1, l2, l3, l4, l5, l6, l7, l8, l9
<1> QED BY <1>1, <1>5, <1>6, <1>7, <1>8, LocalJoin

LEMMA LocalDrop ==
  ASSUME NEW d, NEW t, ~CompileDrop(d, t).refused
  PROVE  AllLocal(CompileDrop(d, t).list, Fold[t])
<1> DEFINE m == Fold[t]
<1> DEFINE l == DeleteFromEach(DroppedFrom, [t |-> t])
<1> DEFINE a == Tree("drop_macro", t)
<1> DEFINE b == Tree("drop_table", t)
<1>1. AllLocal(l, m)
  <2>1. IsList(l) /\ Len(l) = 6 /\ \A i \in 1 .. 6 : <<l[i]>> = DeleteFrom(DroppedFrom[i], [t |-> t])
    BY DropLists
  <2>2. \A i \in 1 .. 6 :
          DroppedFrom[i] \in {"trees", "slots", "predicates", "compiled", "partitions", "assertions"}
    BY DEF DroppedFrom
  <2> HIDE DEF l
  <2>3. \A i \in 1 .. 6 : AllLocal(<<l[i]>>, m)
    BY <2>1, <2>2, LocalDelete
  <2>4. \A st : DOMAIN <<st>> = {1} /\ <<st>>[1] = st
    OBVIOUS
  <2>5. \A i \in 1 .. 6 : Local(l[i], m)
    BY <2>3, <2>4 DEF AllLocal
  <2> QED BY <2>1, <2>5, ListMeans DEF AllLocal
<1>2. AllLocal(a, m) /\ AllLocal(b, m)
  BY LocalDropMacro, LocalDropTable
<1>3. CompileDrop(d, t).list = l \o a \o b
  BY DEF CompileDrop, Refused, Compiled
<1> HIDE DEF l, a, b
<1> QED BY <1>1, <1>2, <1>3, LocalJoin

LEMMA LocalAlter ==
  ASSUME NEW d, NEW t, NEW sem, ~CompileAlter(d, t, sem).refused
  PROVE  AllLocal(CompileAlter(d, t, sem).list, Fold[t])
<1> DEFINE m == Fold[t]
<1> DEFINE row == TreeRow(d, t)
<1> DEFINE slots == AlterSlots(d, t, sem)
<1> DEFINE sslots == sem.slots \cup {"ATTR"}
<1> DEFINE preds == AlterPreds(sem)
<1> DEFINE concrete == ~row.abstract
<1> DEFINE stored == concrete /\ row.storage = "materialized"
<1> DEFINE src == row.source
<1> DEFINE k == AlterChecks(t, slots, src, concrete, stored, row.ordersrc)
<1> DEFINE flag == Declares(sem.slots, preds)
<1> DEFINE g == AlterGroup(t, slots, sslots, preds, flag)
<1> DEFINE served == ServedBy(row.storage, t, slots, src)
<1> DEFINE text == Projection(slots, src)
<1> DEFINE r == Rebuilds(t, src, row.ordersrc, text, served, concrete, stored)
<1>1. CompileAlter(d, t, sem).list = k \o g \o r
  BY AlterIs
<1>2. AllLocal(k, m)
  <2> DEFINE q == AlterReads(slots, src)
  <2> DEFINE f == AlterFits(t, src)
  <2> DEFINE v == AlterVets(src)
  <2>1. AllLocal(q, m)
    <3> DEFINE a == SourceChecks(slots, src, "UNIQUE KEY" \in slots)
    <3> DEFINE b == When(~LevelBasis(slots), CheckSource({"reach"}, src))
    <3>1. AllLocal(a, m) /\ AllLocal(b, m) /\ q = a \o b
      BY LocalSource, LocalReach DEF AlterReads
    <3> HIDE DEF a, b, q
    <3> QED BY <3>1, LocalJoin
  <2>2. AllLocal(f, m) /\ AllLocal(v, m)
    BY LocalForeign, LocalDrift, LocalVets, LocalJoin DEF AlterFits, AlterVets
  <2> DEFINE l1 == FrozenGuard(row.ordersrc)
  <2> DEFINE l2 == When(concrete, q)
  <2> DEFINE l3 == When(stored, f)
  <2> DEFINE l4 == When(concrete, v)
  <2> DEFINE l5 == When(stored /\ OverrideSlots(slots) # {}, CheckSource(OverrideSlots(slots), src))
  <2>3. AllLocal(l1, m) /\ AllLocal(l5, m)
    BY LocalFrozen, LocalOverrides
  <2>4. k = l1 \o l2 \o l3 \o l4 \o l5
    BY DEF AlterChecks
  <2> HIDE DEF q, f, v
  <2>5. AllLocal(l2, m) /\ AllLocal(l3, m) /\ AllLocal(l4, m)
    BY <2>1, <2>2, LocalWhen
  <2> HIDE DEF l1, l2, l3, l4, l5, k
  <2> QED BY <2>3, <2>4, <2>5, LocalJoin
<1>3. AllLocal(g, m)
  <2> DEFINE l1 == DeleteFrom("slots", [t |-> t, b |-> "S"])
  <2> DEFINE l2 == DeleteFrom("predicates", [t |-> t])
  <2> DEFINE l3 == InsertInto("slots", SlotRows(t, slots, sslots))
  <2> DEFINE l4 == When(preds # {}, InsertInto("predicates", PredRows(t, preds)))
  <2> DEFINE l5 == SetSemantic(t, flag)
  <2>1. g = (l1 \o l2) \o l3 \o l4 \o l5
    BY DEF AlterGroup, AlterClears
  <2> HIDE DEF slots, sslots, preds, flag
  <2>2. AllLocal(l1, m) /\ AllLocal(l2, m) /\ AllLocal(l3, m) /\ AllLocal(l5, m)
    BY LocalNoSemantics, LocalDelete, LocalSlots, LocalSemantic
  <2>3. AllLocal(l4, m)
    BY LocalPredicates, LocalWhen
  <2> HIDE DEF l1, l2, l3, l4, l5, g
  <2> QED BY <2>1, <2>2, <2>3, LocalJoin
<1>4. AllLocal(r, m)
  <2> DEFINE v == AlterServes(t, text, served)
  <2>1. served.kind = "table" => served.m = m
    BY ServedByKind
  <2> DEFINE l1 == Project("replace_table", t, src, row.ordersrc)
  <2> DEFINE l2 == Macro(t, served)
  <2> DEFINE l3 == Update("compiled", [t |-> t, art |-> "projection"], [text |-> text])
  <2> DEFINE l4 == DeleteFrom("compiled", [t |-> t, art |-> "attribute_columns"])
  <2> DEFINE l5 == Tree("attribute_columns", t)
  <2>2. r = When(stored, l1) \o When(concrete, v) /\ v = l2 \o l3 \o l4 \o l5
    BY DEF Rebuilds, AlterServes, Reprojects, Unlists
  <2> HIDE DEF text, served
  <2>3. AllLocal(l1, m) /\ AllLocal(l2, m) /\ AllLocal(l3, m) /\ AllLocal(l4, m) /\ AllLocal(l5, m)
    BY <2>1, LocalReplaceTable, LocalMacro, LocalReproject, LocalNoArtifacts, LocalColumns
  <2> HIDE DEF l1, l2, l3, l4, l5, v, r
  <2>4. AllLocal(v, m)
    BY <2>2, <2>3, LocalJoin
  <2> QED BY <2>2, <2>3, <2>4, LocalJoin, LocalWhen
<1> HIDE DEF k, g, r
<1> QED BY <1>1, <1>2, <1>3, <1>4, LocalJoin

LEMMA LocalNewChecks ==
  ASSUME NEW m, NEW slots
  PROVE  AllLocal(NewPartitionChecks(slots), m)
<1> DEFINE a == CheckNew(P13Arms)
<1> DEFINE b == When(OverrideSlots(slots) # {}, CheckNew(OverrideSlots(slots)))
<1>1. AllLocal(a, m) /\ AllLocal(b, m) /\ NewPartitionChecks(slots) = a \o b
  BY LocalChecks, LocalWhen DEF NewPartitionChecks
<1> HIDE DEF a, b
<1> QED BY <1>1, LocalJoin

LEMMA LocalInsert ==
  ASSUME NEW d, NEW t, NEW src, ~CompileInsert(d, t, src).refused
  PROVE  AllLocal(CompileInsert(d, t, src).list, Fold[t])
<1> DEFINE m == Fold[t]
<1> DEFINE slots == SlotsOf(d, t)
<1> DEFINE a == SourceChecks(slots, src, ReachKey(slots))
<1> DEFINE b == When(ReachKey(slots), CheckNew({"reach"}))
<1> DEFINE c == NewPartitionChecks(slots)
<1> DEFINE o == TreeRow(d, t).ordersrc
<1> DEFINE f == FrozenGuard(o)
<1> DEFINE g == Project("stage", t, src, o)
<1> DEFINE h == CheckNew({"shadow"})
<1> DEFINE e1 == Tree("present_check", t)
<1> DEFINE e2 == Tree("insert_rows", t)
<1> DEFINE e3 == Tree("insert_partitions", t)
<1> DEFINE e4 == Tree("drop_staged", t)
<1>1. CompileInsert(d, t, src).list = f \o a \o g \o b \o h \o e1 \o c \o e2 \o e3 \o e4
  BY DEF CompileInsert, Refused, Compiled
<1>2. AllLocal(a, m) /\ AllLocal(b, m) /\ AllLocal(c, m) /\ AllLocal(h, m)
  BY LocalSource, LocalNewChecks, LocalChecks, LocalWhen
<1>3. AllLocal(f, m) /\ AllLocal(g, m) /\ AllLocal(e1, m)
  BY LocalFrozen, LocalStage, LocalPresent
<1>4. AllLocal(e2, m) /\ AllLocal(e3, m) /\ AllLocal(e4, m)
  BY LocalAddRows, LocalAddParts, LocalDropStaged
<1> HIDE DEF a, b, c, f, g, h, e1, e2, e3, e4
<1> QED BY <1>1, <1>2, <1>3, <1>4, LocalJoin

LEMMA LocalReplace ==
  ASSUME NEW d, NEW t, NEW src, ~CompileReplace(d, t, src).refused
  PROVE  AllLocal(CompileReplace(d, t, src).list, Fold[t])
<1> DEFINE m == Fold[t]
<1> DEFINE slots == SlotsOf(d, t)
<1> DEFINE a == SourceChecks(slots, src, ReachKey(slots))
<1> DEFINE b == When(ReachKey(slots), CheckNew({"reach"}))
<1> DEFINE c == NewPartitionChecks(slots)
<1> DEFINE o == TreeRow(d, t).ordersrc
<1> DEFINE f == FrozenGuard(o)
<1> DEFINE g == Project("stage", t, src, o)
<1> DEFINE h == CheckNew({"shadow"})
<1> DEFINE e1 == Tree("stage_epochs", t)
<1> DEFINE e2 == Tree("delete_rows", t)
<1> DEFINE e3 == Tree("delete_partitions", t)
<1> DEFINE e4 == Tree("insert_rows", t)
<1> DEFINE e5 == Tree("insert_partitions", t)
<1> DEFINE e6 == Tree("drop_staged", t)
<1>1. CompileReplace(d, t, src).list = f \o a \o g \o b \o h \o c \o e1 \o e2 \o e3 \o e4 \o e5 \o e6
  BY DEF CompileReplace, Refused, Compiled
<1>2. AllLocal(a, m) /\ AllLocal(b, m) /\ AllLocal(c, m) /\ AllLocal(h, m)
  BY LocalSource, LocalNewChecks, LocalChecks, LocalWhen
<1>3. AllLocal(f, m) /\ AllLocal(g, m) /\ AllLocal(e1, m)
  BY LocalFrozen, LocalStage, LocalEpochs
<1>4. AllLocal(e2, m) /\ AllLocal(e3, m)
  BY LocalCutRows, LocalCutParts
<1>5. AllLocal(e4, m) /\ AllLocal(e5, m) /\ AllLocal(e6, m)
  BY LocalAddRows, LocalAddParts, LocalDropStaged
<1> HIDE DEF a, b, c, f, g, h, e1, e2, e3, e4, e5, e6
<1> QED BY <1>1, <1>2, <1>3, <1>4, <1>5, LocalJoin

LEMMA LocalRemove ==
  ASSUME NEW d, NEW t, NEW keys, ~CompileDelete(d, t, keys).refused
  PROVE  AllLocal(CompileDelete(d, t, keys).list, Fold[t])
<1> DEFINE m == Fold[t]
<1> DEFINE a == StageGone(t, keys)
<1> DEFINE g1 == Tree("delete_rows", t)
<1> DEFINE g2 == Tree("delete_partitions", t)
<1> DEFINE e == Tree("drop_staged", t)
<1>1. CompileDelete(d, t, keys).list = a \o g1 \o g2 \o e
  BY DEF CompileDelete, Refused, Compiled, StageGone
<1>2. AllLocal(a, m) /\ AllLocal(g1, m) /\ AllLocal(g2, m) /\ AllLocal(e, m)
  BY LocalGone, LocalCutRows, LocalCutParts, LocalDropStaged
<1> HIDE DEF a, g1, g2, e
<1> QED BY <1>1, <1>2, LocalJoin

LEMMA LocalVerdicts ==
  ASSUME NEW d, NEW t, ~CompileCheck(d, t).refused
  PROVE  AllLocal(CompileCheck(d, t).list, Fold[t])
<1> DEFINE m == Fold[t]
<1> DEFINE slots == SlotsOf(d, t)
<1> DEFINE row == TreeRow(d, t)
<1> DEFINE stored == row.storage = "materialized"
<1> DEFINE rel == [kind |-> IF stored THEN "table" ELSE "proj", m |-> Fold[t]]
<1> DEFINE sql == [kind |-> "sql", src |-> row.source]
<1> DEFINE A(art, defect, r) == Assertion(t, art, defect, r)
<1> DEFINE O(slot) == When(slot \in OverrideSlots(slots), A(OArtifact[slot], slot, rel))
<1> DEFINE a == When(~stored /\ "ORDER" \in slots, A("assert_order", "order", sql))
<1> DEFINE b == A("assert_p13", "p13", rel)
<1> DEFINE c == When(stored, Refreshes(t, rel))
<1>1. CompileCheck(d, t).list = a \o b \o c \o O("SIZE") \o O("PARENT") \o O("CHILDREN") \o O("NEXT")
  BY DEF CompileCheck, Refused, Compiled, Refreshes
<1>2. ASSUME NEW art, NEW defect, NEW r, r.kind \in {"table", "proj"} => r.m = m
      PROVE  AllLocal(A(art, defect, r), m)
  <2> DEFINE x == DeleteFrom("assertions", [t |-> t, art |-> art])
  <2> DEFINE y == Asserts(t, art, defect, r)
  <2>1. A(art, defect, r) = x \o y
    BY DEF Assertion, Asserts
  <2>2. AllLocal(x, m) /\ AllLocal(y, m)
    BY <1>2, LocalNoArtifacts, LocalAsserts
  <2> HIDE DEF x, y, A
  <2> QED BY <2>1, <2>2, LocalJoin
<1>3. (rel.kind \in {"table", "proj"} => rel.m = m) /\ (sql.kind \in {"table", "proj"} => sql.m = m)
  OBVIOUS
<1> HIDE DEF A, rel, sql
<1>4. AllLocal(Refreshes(t, rel), m)
  BY <1>3, LocalRefreshes
<1>5. AllLocal(a, m) /\ AllLocal(b, m) /\ AllLocal(c, m) /\ AllLocal(O("SIZE"), m) /\ AllLocal(O("PARENT"), m)
      /\ AllLocal(O("CHILDREN"), m) /\ AllLocal(O("NEXT"), m)
  BY <1>2, <1>3, <1>4, LocalWhen
<1> HIDE DEF a, b, c, O
<1> QED BY <1>1, <1>5, LocalJoin

LEMMA CompiledLocal ==
  ASSUME NEW d, NEW p, NEW s \in Session, NEW c \in Calls[s], ~Compile(d, p, c).refused
  PROVE  AllLocal(Compile(d, p, c).list, Fold[c.t])
<1>1. c.verb \in {"tree_ddl_create", "tree_ddl_drop", "tree_ddl_alter", "tree_insert", "tree_replace", "tree_delete",
                  "tree_check"}
  BY CallsAssumption
<1>2. CASE c.verb = "tree_ddl_create"
  BY <1>2, LocalCreate DEF Compile
<1>3. CASE c.verb = "tree_ddl_drop"
  BY <1>3, LocalDrop DEF Compile
<1>4. CASE c.verb = "tree_ddl_alter"
  BY <1>4, LocalAlter DEF Compile
<1>5. CASE c.verb = "tree_insert"
  BY <1>5, LocalInsert DEF Compile
<1>6. CASE c.verb = "tree_replace"
  BY <1>6, LocalReplace DEF Compile
<1>7. CASE c.verb = "tree_delete"
  BY <1>7, LocalRemove DEF Compile
<1>8. CASE c.verb = "tree_check"
  BY <1>8, LocalVerdicts DEF Compile
<1> QED BY <1>1, <1>2, <1>3, <1>4, <1>5, <1>6, <1>7, <1>8

-----------------------------------------------------------------------------
(* A whole list, over databases that agree about its tree.                 *)

LEMMA RunAllIs ==
  ASSUME NEW d, NEW l, IsList(l), NEW n
  PROVE  \E f : /\ Atomic!RunAll(d, l, n) = f[Len(l)] /\ f[0] = AtStart(d)
                /\ \A i \in 1 .. Len(l) : f[i] = Turn(f[i - 1], l[i], n, pio)
<1> DEFINE f == CHOOSE f : f = [i \in 0 .. Len(l) |-> IF i = 0 THEN AtStart(d) ELSE Turn(f[i - 1], l[i], n, pio)]
<1>1. Atomic!RunAll(d, l, n) = f[Len(l)]
  BY DEF Atomic!RunAll, AtStart, Turn
<1>2. f = RunOf(d, l, n, pio)
  BY DEF RunOf, Repeated
<1> HIDE DEF f
<1> QED BY <1>1, <1>2, RunSteps

\* A database, as the initial one and COMMIT make it.
IsDb(d) == d = [rel \in DOMAIN d |-> d[rel]]

LEMMA EffectIsDb ==
  ASSUME NEW d, DOMAIN d = Relation, IsDb(d), NEW tmp, NEW st, NEW n, NEW p
  PROVE  IsDb(Effect(d, tmp, st, n, p))
<1>1. \A x, rel, X : DOMAIN x = Relation /\ IsDb(x) => IsDb([x EXCEPT ![rel] = X]) /\ DOMAIN [x EXCEPT ![rel] = X] = Relation
  BY DEF IsDb
<1> DEFINE D(x) == DOMAIN x = Relation /\ IsDb(x)
<1>2. \A x, rel, rows : D(x) => D(Insert(x, rel, rows, n)) /\ D(Without(x, rel, rows))
  BY <1>1 DEF Insert, Without
<1>3. ASSUME NEW x, D(x), NEW m, NEW parts, NEW arb
      PROVE  D(DropTable(x, m)) /\ D(MakeTable(x, m, parts, arb, n)) /\ D(AppendRows(x, m, parts, arb, n))
  <2> HIDE DEF D
  <2> QED BY <1>2, <1>3 DEF DropTable, MakeTable, AppendRows
<1>4. \A x, t, rel : D(x) => D(RefreshOk(x, t, rel, n))
  BY <1>1 DEF RefreshOk
<1>5. \A X : D([d EXCEPT !["trees"] = X])
  BY <1>1
<1>6. D(d)
  OBVIOUS
<1> HIDE DEF D
<1>7. D(Effect(d, tmp, st, n, p))
  BY <1>2, <1>3, <1>4, <1>5, <1>6 DEF Effect
<1> QED BY <1>7 DEF D

LEMMA RunAllFollows ==
  ASSUME NEW m, NEW l, AllLocal(l, m), NEW b, NEW d, Near(b, d, m), IsDb(d), NEW n, NEW y,
         Runs(l, n, {pio}, At(b, NoTemp), y)
  PROVE  LET z == Atomic!RunAll(d, l, n)
         IN  z.ok /\ Near(y.d, z.d, m) /\ Within(b, y.d, m) /\ Within(d, z.d, m) /\ IsDb(z.d)
<1>1. PICK f : /\ f[0] = At(b, NoTemp) /\ f[Len(l)] = y
               /\ \A i \in 1 .. Len(l) : \E p \in {pio} : Does(f[i - 1], l[i], n, p, f[i])
  BY DEF Runs
<1>2. PICK g : /\ Atomic!RunAll(d, l, n) = g[Len(l)] /\ g[0] = AtStart(d)
               /\ \A i \in 1 .. Len(l) : g[i] = Turn(g[i - 1], l[i], n, pio)
  BY RunAllIs DEF AllLocal
<1>3. Len(l) \in Nat /\ DOMAIN l = 1 .. Len(l)
  BY ListMeans DEF AllLocal
<1> DEFINE Good(i) == /\ g[i].ok /\ g[i].tmp = f[i].tmp /\ Near(f[i].d, g[i].d, m)
                      /\ Within(b, f[i].d, m) /\ Within(d, g[i].d, m) /\ IsDb(g[i].d)
<1> DEFINE Bad == {i \in 0 .. Len(l) : ~ Good(i)}
<1>4. Good(0)
  BY <1>1, <1>2 DEF At, AtStart, Within, Near, Alike
<1>5. ASSUME NEW i \in 1 .. Len(l), Good(i - 1) PROVE Good(i)
  <2> DEFINE x == f[i - 1]
  <2> DEFINE w == g[i - 1]
  <2>1. Does(x, l[i], n, pio, f[i]) /\ g[i] = Turn(w, l[i], n, pio)
    BY <1>1, <1>2
  <2>2. w.ok /\ w.tmp = x.tmp /\ Near(x.d, w.d, m) /\ Within(b, x.d, m) /\ Within(d, w.d, m) /\ IsDb(w.d)
    BY <1>5
  <2>3. Local(l[i], m)
    BY <1>3 DEF AllLocal
  <2> HIDE DEF x, w, Good
  <2>4. /\ ~Raises(x.d, x.tmp, l[i], pio)
        /\ f[i] = [d |-> Effect(x.d, x.tmp, l[i], n, pio), tmp |-> Staged(x.d, x.tmp, l[i], pio)]
    BY <2>1 DEF Does
  <2>5. /\ ~Raises(w.d, x.tmp, l[i], pio)
        /\ Staged(w.d, x.tmp, l[i], pio) = Staged(x.d, x.tmp, l[i], pio)
        /\ Follows(x.d, w.d, Effect(x.d, x.tmp, l[i], n, pio), Effect(w.d, x.tmp, l[i], n, pio), m)
    BY <2>2, <2>3, <2>4 DEF Local
  <2>6. g[i] = [ok |-> TRUE, d |-> Effect(w.d, x.tmp, l[i], n, pio), tmp |-> Staged(x.d, x.tmp, l[i], pio)]
    BY <2>1, <2>2, <2>5 DEF Turn
  <2>7. Within(x.d, f[i].d, m) /\ Within(w.d, g[i].d, m) /\ Near(f[i].d, g[i].d, m)
    BY <2>4, <2>5, <2>6 DEF Follows
  <2>8. Within(b, f[i].d, m) /\ Within(d, g[i].d, m)
    BY <2>2, <2>7, WithinBoth
  <2>9. IsDb(g[i].d)
    <3>1. DOMAIN w.d = Relation
      BY <2>2 DEF Near, Alike
    <3> QED BY <2>2, <2>6, <3>1, EffectIsDb
  <2> QED BY <2>4, <2>6, <2>7, <2>8, <2>9 DEF Good
<1> HIDE DEF Good
<1>6. Bad = {}
  <2> SUFFICES ASSUME Bad # {} PROVE FALSE
    OBVIOUS
  <2>1. Bad \in SUBSET Nat
    BY <1>3
  <2>2. PICK i \in Bad : \A j \in Bad : i <= j
    BY <2>1, LeastNat
  <2>3. i # 0 /\ i \in 0 .. Len(l)
    BY <1>4, <2>2
  <2>4. i \in 1 .. Len(l) /\ i - 1 \in 0 .. Len(l) /\ i - 1 \notin Bad
    BY <1>3, <2>2, <2>3
  <2>5. Good(i)
    BY <1>5, <2>4
  <2> QED BY <2>2, <2>5
<1>7. Good(Len(l))
  BY <1>3, <1>6
<1> QED BY <1>1, <1>2, <1>7 DEF Good

-----------------------------------------------------------------------------
(* What a call compiles to depends on its tree's cell, and on that of the  *)
(* tree it is LIKE.                                                        *)

Touches(c) ==
  {Fold[c.t]} \cup (IF c.verb = "tree_ddl_create" /\ c.spec.like # NULL THEN {Fold[c.spec.like]} ELSE {})

LEMMA SameReads ==
  ASSUME NEW d, NEW e, NEW t, Tidy(CellOf(d, Fold[t])), CellOf(e, Fold[t]) = CellOf(d, Fold[t])
  PROVE  /\ Registered(e, t) <=> Registered(d, t)
         /\ Collides(e, t) <=> Collides(d, t)
         /\ SlotsOf(e, t) = SlotsOf(d, t) /\ PredsOf(e, t) = PredsOf(d, t)
         /\ Registered(d, t) => TreeRow(e, t) = TreeRow(d, t)
<1>1. \A rel \in Cells : Cell(e, rel, Fold[t]) = Cell(d, rel, Fold[t])
  BY CellIn
<1>2. ASSUME NEW rel \in {"trees", "slots", "predicates"}
      PROVE  Select(e, rel, [t |-> t]) = Select(d, rel, [t |-> t])
  <2>1. rel \in Cells /\ \A r : Owner(rel, r) = Fold[r.t]
    BY RelationsAreCells DEF Owner
  <2>2. \A r : r.t = t => (r \in e[rel] <=> r \in d[rel])
    BY <1>1, <2>1 DEF Cell
  <2>3. Select(e, rel, [t |-> t]) = {r \in e[rel] : r.t = t} /\ Select(d, rel, [t |-> t]) = {r \in d[rel] : r.t = t}
    BY SelectTree
  <2> QED BY <2>2, <2>3
<1>3. \A r : Fold[r.t] = Fold[t] => (r \in e["trees"] <=> r \in d["trees"])
  BY <1>1, RelationsAreCells DEF Cell, Owner
<1>4. (Registered(e, t) <=> Registered(d, t)) /\ (Collides(e, t) <=> Collides(d, t))
  BY <1>3 DEF Registered, Collides
<1>5. SlotsOf(e, t) = SlotsOf(d, t) /\ PredsOf(e, t) = PredsOf(d, t)
  BY <1>2 DEF SlotsOf, PredsOf
<1>6. ASSUME Registered(d, t) PROVE TreeRow(e, t) = TreeRow(d, t)
  <2>1. CellOf(d, Fold[t])["trees"] = {TreeRow(d, t)}
    BY <1>6, TidyReads
  <2>2. CellOf(e, Fold[t])["trees"] = {TreeRow(e, t)}
    BY <1>4, <1>6, TidyReads
  <2> QED BY <2>1, <2>2
<1> QED BY <1>4, <1>5, <1>6

\* What create refuses of the spec itself.
CreateRefuses(p, spec, slots) ==
  \/ spec.abstract /\ spec.source # NULL
  \/ ~spec.abstract /\ spec.source = NULL
  \/ spec.storage \notin {"materialized", "projection"}
  \/ ~LevelBasis(slots) /\ "UNIQUE KEY" \notin slots
  \/ LevelBasis(slots) /\ "SIBLING_ORDER" \in slots
  \/ ~spec.abstract /\ spec.storage = "projection" /\ LevelBasis(slots) /\ "ORDER" \notin slots
  \/ ~spec.abstract /\ OrderSource(slots) = "frozen" /\ ~p
  \/ ~PrefixesBind(slots)

LEMMA CreateNear ==
  ASSUME NEW d, NEW e, NEW p, NEW t, NEW spec,
         Tidy(CellOf(d, Fold[t])), CellOf(e, Fold[t]) = CellOf(d, Fold[t]),
         spec.like # NULL => Tidy(CellOf(d, Fold[spec.like])) /\ CellOf(e, Fold[spec.like]) = CellOf(d, Fold[spec.like])
  PROVE  CompileCreate(e, p, t, spec) = CompileCreate(d, p, t, spec)
<1>1. (Registered(e, t) <=> Registered(d, t)) /\ (Collides(e, t) <=> Collides(d, t))
  BY SameReads
<1>2. CreateSlots(e, spec) = CreateSlots(d, spec) /\ CreatePreds(e, spec) = CreatePreds(d, spec)
      /\ CreateLike(e, spec) = CreateLike(d, spec)
      /\ (spec.like # NULL => SlotsOf(e, spec.like) = SlotsOf(d, spec.like))
  <2>1. CASE spec.like = NULL
    BY <2>1 DEF CreateSlots, CreatePreds, CreateLike
  <2>2. CASE spec.like # NULL
    <3> DEFINE k == spec.like
    <3>1. /\ SlotsOf(e, k) = SlotsOf(d, k) /\ PredsOf(e, k) = PredsOf(d, k)
          /\ Registered(e, k) <=> Registered(d, k)
          /\ Registered(d, k) => TreeRow(e, k) = TreeRow(d, k)
      BY <2>2, SameReads
    <3>2. CreateSlots(e, spec) = CreateSlots(d, spec)
      BY <3>1 DEF CreateSlots
    <3>3. CreatePreds(e, spec) = CreatePreds(d, spec)
      BY <3>1, <3>2 DEF CreatePreds
    <3> QED BY <3>1, <3>2, <3>3 DEF CreateLike
  <2> QED BY <2>1, <2>2
<1>3. \A x : CompileCreate(x, p, t, spec) =
        LET slots == CreateSlots(x, spec)  preds == CreatePreds(x, spec) IN
        IF \/ t = NULL \/ spec.abstract = NULL \/ Registered(x, t) \/ Collides(x, t)
           \/ spec.like # NULL /\ SlotsOf(x, spec.like) = {}
           \/ CreateRefuses(p, spec, slots)
        THEN Refused
        ELSE Compiled(CreateList(t, spec.abstract, spec.source, spec.storage, slots, preds,
                                 Declares(slots, preds) \/ CreateLike(x, spec)))
  BY DEF CompileCreate, CreateSlots, CreatePreds, CreateLike, CreateList, CreateChecks, Records, CreateRefuses
<1> QED BY <1>1, <1>2, <1>3

LEMMA CompileNear ==
  ASSUME NEW d, NEW e, NEW p, NEW s \in Session, NEW c \in Calls[s], \A m : Tidy(CellOf(d, m)),
         \A m \in Touches(c) : CellOf(e, m) = CellOf(d, m)
  PROVE  Compile(e, p, c) = Compile(d, p, c)
<1>1. c.verb \in {"tree_ddl_create", "tree_ddl_drop", "tree_ddl_alter", "tree_insert", "tree_replace", "tree_delete",
                  "tree_check"}
  BY CallsAssumption
<1> DEFINE t == c.t
<1>2. CellOf(e, Fold[t]) = CellOf(d, Fold[t]) /\ Tidy(CellOf(d, Fold[t]))
  BY DEF Touches
<1>3. /\ Registered(e, t) <=> Registered(d, t)
      /\ SlotsOf(e, t) = SlotsOf(d, t)
      /\ Registered(d, t) => TreeRow(e, t) = TreeRow(d, t)
  BY <1>2, SameReads
<1>4. \A verb : HasContext(e, t, verb) <=> HasContext(d, t, verb)
  BY <1>3 DEF HasContext
<1>5. \A verb : HasContext(d, t, verb) => Registered(d, t)
  BY DEF HasContext
<1>6. CASE c.verb = "tree_ddl_create"
  <2>1. c.spec.like # NULL => Fold[c.spec.like] \in Touches(c)
    BY <1>6 DEF Touches
  <2>2. CompileCreate(e, p, c.t, c.spec) = CompileCreate(d, p, c.t, c.spec)
    BY <1>2, <2>1, CreateNear
  <2> QED BY <1>6, <2>2 DEF Compile
<1> HIDE DEF t
<1>7. CompileDrop(e, t) = CompileDrop(d, t)
  BY <1>3 DEF CompileDrop
<1>8. \A sem : CompileAlter(e, t, sem) = CompileAlter(d, t, sem)
  <2> TAKE sem
  <2>1. CASE Registered(d, t)
    BY <1>3, <2>1 DEF CompileAlter
  <2>2. CASE ~Registered(d, t)
    BY <1>3, <2>2 DEF CompileAlter
  <2> QED BY <2>1, <2>2
<1>9. \A src : CompileInsert(e, t, src) = CompileInsert(d, t, src) /\ CompileReplace(e, t, src) = CompileReplace(d, t, src)
  <2> TAKE src
  <2>1. CompileInsert(e, t, src) = CompileInsert(d, t, src)
    <3>1. CASE HasContext(d, t, "tree_insert")
      <4>1. TreeRow(e, t) = TreeRow(d, t)
        BY <1>3, <1>5, <3>1
      <4> QED BY <1>3, <1>4, <4>1, Zenon DEF CompileInsert
    <3>2. CASE ~HasContext(d, t, "tree_insert")
      BY <1>4, <3>2 DEF CompileInsert
    <3> QED BY <3>1, <3>2
  <2>2. CompileReplace(e, t, src) = CompileReplace(d, t, src)
    <3>1. CASE HasContext(d, t, "tree_replace")
      <4>1. TreeRow(e, t) = TreeRow(d, t)
        BY <1>3, <1>5, <3>1
      <4> QED BY <1>3, <1>4, <4>1, Zenon DEF CompileReplace
    <3>2. CASE ~HasContext(d, t, "tree_replace")
      BY <1>4, <3>2 DEF CompileReplace
    <3> QED BY <3>1, <3>2
  <2> QED BY <2>1, <2>2
<1>10. \A keys : CompileDelete(e, t, keys) = CompileDelete(d, t, keys)
  BY <1>4 DEF CompileDelete
<1>11. CompileCheck(e, t) = CompileCheck(d, t)
  <2>1. CASE HasContext(d, t, "tree_check")
    <3>1. TreeRow(e, t) = TreeRow(d, t)
      BY <1>3, <1>5, <2>1
    <3> QED BY <1>3, <1>4, <3>1, Zenon DEF CompileCheck
  <2>2. CASE ~HasContext(d, t, "tree_check")
    BY <1>4, <2>2 DEF CompileCheck
  <2> QED BY <2>1, <2>2
<1> QED BY <1>1, <1>6, <1>7, <1>8, <1>9, <1>10, <1>11 DEF Compile, t

-----------------------------------------------------------------------------
(* Every list under way runs over what is committed.                       *)

\* Nobody else changes what a call reads: its session is the only one, or none
\* changes a source or the setting and no other works on the trees it names.
\* Nobody edits a generated table by hand.
Steady ==
  /\ Damage = {}
  /\ \/ Lone
     \/ /\ MaxEdits = 0
        /\ \A s, r \in Session : s # r => \A c \in Calls[s], e \in Calls[r] : Fold[e.t] \notin Touches(c)

LEMMA SteadyApart == Steady => Apart
<1>1. \A c : Fold[c.t] \in Touches(c)
  BY DEF Touches
<1> QED BY <1>1 DEF Steady, Apart

\* The list is what the committed database compiles the call to, ...
Due(d, p, c, l) == ~Compile(d, p, c).refused /\ l = Compile(d, p, c).list

\* ... and what is left of it in transaction n.
Doing(d, p, c, l, n, b, v, w) ==
  /\ ~Compile(d, p, c).refused
  /\ Alike(b, d, Fold[c.t])
  /\ IsList(l)
  /\ \A y : Runs(l, n, {p}, At(v, w), y) => Runs(Compile(d, p, c).list, n, {p}, At(b, NoTemp), y)

LEMMA DueBegins ==
  ASSUME NEW d, DOMAIN d = Relation, NEW p, NEW s \in Session, NEW c \in Calls[s], NEW l, Due(d, p, c, l), NEW n
  PROVE  Doing(d, p, c, l, n, d, d, NoTemp)
<1>1. IsList(l)
  BY CompiledList DEF Due
<1>2. Alike(d, d, Fold[c.t])
  BY DEF Alike
<1> QED BY <1>1, <1>2 DEF Due, Doing

LEMMA DoingOn ==
  ASSUME NEW d, NEW p, NEW c, NEW l, l # <<>>, NEW n, NEW b, NEW v, NEW w,
         Doing(d, p, c, l, n, b, v, w), ~Raises(v, w, Head(l), p)
  PROVE  Doing(d, p, c, Tail(l), n, b, Effect(v, w, Head(l), n, p), Staged(v, w, Head(l), p))
<1> DEFINE v1 == Effect(v, w, Head(l), n, p)
<1> DEFINE w1 == Staged(v, w, Head(l), p)
<1> DEFINE P == {p}
<1> DEFINE x == At(v, w)
<1> DEFINE z == At(v1, w1)
<1> DEFINE all == Compile(d, p, c).list
<1>1. /\ ~Compile(d, p, c).refused /\ Alike(b, d, Fold[c.t]) /\ IsList(l)
      /\ \A y : Runs(l, n, P, x, y) => Runs(all, n, P, At(b, NoTemp), y)
  BY DEF Doing
<1>2. IsList(Tail(l))
  BY <1>1, ListRest
<1>3. Does(x, Head(l), n, p, z)
  BY DEF Does, At
<1>4. p \in P
  OBVIOUS
<1> HIDE DEF P, x, z, all
<1>5. ASSUME NEW y, Runs(Tail(l), n, P, z, y) PROVE Runs(all, n, P, At(b, NoTemp), y)
  <2>1. Runs(l, n, P, x, y)
    BY <1>1, <1>3, <1>4, <1>5, RunsMore
  <2> QED BY <1>1, <2>1
<1> HIDE DEF v1, w1
<1>6. Doing(d, p, c, Tail(l), n, b, v1, w1)
  BY <1>1, <1>2, <1>5 DEF Doing, P, all, z
<1> QED BY <1>6 DEF v1, w1

\* Standing: Inductive, while the sessions are steady.
Standing(s) ==
  /\ pc[s] = "begin" => Due(db, pio, call[s], todo[s])
  /\ pc[s] = "run" => Doing(db, pio, call[s], todo[s], tx[s], base[s], view[s], temp[s])
Stands ==
  /\ IsDb(db)
  /\ \A s \in Session : Standing(s)

LEMMA StandingStays ==
  ASSUME NEW s \in Session, Planned, Standing(s),
         /\ pc'[s] = pc[s] /\ call'[s] = call[s] /\ todo'[s] = todo[s] /\ tx'[s] = tx[s]
         /\ base'[s] = base[s] /\ view'[s] = view[s] /\ temp'[s] = temp[s],
         ~Resting(s) => /\ \A m \in Touches(call[s]) : CellOf(db', m) = CellOf(db, m)
                        /\ DOMAIN db' = Relation /\ db'["source"] = db["source"] /\ pio' = pio
  PROVE  Standing(s)'
<1>1. CASE pc[s] \notin {"begin", "run"}
  BY <1>1 DEF Standing
<1>2. CASE pc[s] \in {"begin", "run"}
  <2> DEFINE c == call[s]
  <2>1. c \in Calls[s] /\ ~Resting(s) /\ \A m : Tidy(CellOf(db, m))
    BY <1>2 DEF Planned, Plan, Resting
  <2>2. Compile(db', pio, c) = Compile(db, pio, c)
    BY <2>1, CompileNear
  <2>3. Fold[c.t] \in Touches(c)
    BY DEF Touches
  <2>4. CellOf(db', Fold[c.t]) = CellOf(db, Fold[c.t]) /\ DOMAIN db' = Relation /\ db'["source"] = db["source"] /\ pio' = pio
    BY <2>1, <2>3
  <2> HIDE DEF c
  <2>5. pc[s] = "begin" => Due(db', pio', c, todo[s])
    BY <2>2, <2>4 DEF Standing, Due, c
  <2>6. pc[s] = "run" => Doing(db', pio', c, todo[s], tx[s], base[s], view[s], temp[s])
    BY <2>2, <2>4 DEF Standing, Doing, Alike, c
  <2> QED BY <2>5, <2>6 DEF Standing, c
<1> QED BY <1>1, <1>2

LEMMA InitStands == Init => Stands
<1> SUFFICES ASSUME Init PROVE Stands
  OBVIOUS
<1>1. db = [EmptyDb EXCEPT !["source"] = Contents0] /\ \A s \in Session : pc[s] = "idle"
  BY DEF Init
<1>2. IsDb(db)
  BY <1>1 DEF IsDb, EmptyDb
<1> QED BY <1>1, <1>2 DEF Stands, Standing

LEMMA NextStands == Steady /\ TypeOK /\ Planned /\ Stands /\ [Next]_vars => Stands'
<1> SUFFICES ASSUME Steady, TypeOK, Planned, Stands, [Next]_vars PROVE Stands'
  OBVIOUS
<1> DEFINE Still(s) ==
  /\ pc'[s] = pc[s] /\ call'[s] = call[s] /\ todo'[s] = todo[s] /\ tx'[s] = tx[s]
  /\ base'[s] = base[s] /\ view'[s] = view[s] /\ temp'[s] = temp[s]
<1>0. /\ IsDb(db) /\ \A s \in Session : Standing(s)
      /\ \A s \in Session : ~Resting(s) => call[s] \in Calls[s]
      /\ DOMAIN db = Relation
      /\ DOMAIN pc = Session /\ DOMAIN call = Session /\ DOMAIN todo = Session /\ DOMAIN tx = Session
      /\ DOMAIN base = Session /\ DOMAIN view = Session /\ DOMAIN temp = Session
      /\ edits \in Nat
  BY DEF Stands, TypeOK, Planned, Plan, Resting
<1>1. ASSUME db' = db, pio' = pio, NEW s \in Session, \A r \in Session : r # s => Still(r), Standing(s)'
      PROVE  Stands'
  <2>1. \A r \in Session : r # s => Standing(r)'
    BY <1>0, <1>1, StandingStays
  <2> QED BY <1>0, <1>1, <2>1 DEF Stands
<1>2. ASSUME UNCHANGED <<db, pio, pc, call, todo, tx, base, view, temp>> PROVE Stands'
  <2>1. \A r \in Session : Standing(r)'
    BY <1>0, <1>2, StandingStays
  <2> QED BY <1>0, <1>2, <2>1 DEF Stands
<1>3. ASSUME NEW s \in Session, ChangeSource(s) \/ SetOption(s) PROVE Stands'
  <2>1. UNCHANGED <<pc, call, todo, tx, base, view, temp>> /\ Resting(s) /\ edits < MaxEdits
    BY <1>3 DEF ChangeSource, SetOption, local
  <2>2. \A k \in Session : Resting(k)
    BY <1>0, <2>1 DEF Steady, Lone
  <2>3. \A k \in Session : Standing(k)'
    BY <1>0, <2>1, <2>2, StandingStays
  <2>4. IsDb(db')
    BY <1>0, <1>3 DEF ChangeSource, SetOption, IsDb
  <2> QED BY <2>3, <2>4 DEF Stands
<1>4. ASSUME NEW s \in Session, EditStored(s) PROVE FALSE
  BY <1>4 DEF EditStored, Steady
<1>5. ASSUME NEW s \in Session, BeginExplicit(s) \/ EndExplicit(s) PROVE Stands'
  BY <1>2, <1>5 DEF BeginExplicit, EndExplicit, local
<1>6. ASSUME NEW s \in Session,
             VerbBind(s) \/ Unbind(s) \/ VerbInit(s) \/ EndScan(s) \/ RequireAutoCommit(s)
      PROVE  Stands'
  <2>1. UNCHANGED <<db, pio, todo, tx, base, view, temp>>
    BY <1>6 DEF VerbBind, Unbind, VerbInit, EndScan, RequireAutoCommit, local
  <2>2. /\ \E c : call' = [call EXCEPT ![s] = c] \/ call' = call
        /\ \/ \E at \in {"idle", "bound", "scan", "compile"} : pc' = [pc EXCEPT ![s] = at]
    BY <1>6 DEF VerbBind, Unbind, VerbInit, EndScan, RequireAutoCommit, Return
  <2>3. Standing(s)'
    BY <1>0, <2>2 DEF Standing
  <2>4. \A r \in Session : r # s => Still(r)
    BY <1>0, <2>1, <2>2
  <2> QED BY <1>1, <2>1, <2>3, <2>4
<1>7. ASSUME NEW s \in Session, CompileStatements(s) PROVE Stands'
  <2>1. UNCHANGED <<db, pio, call, tx, base, view, temp>> /\ pc[s] = "compile"
    BY <1>7 DEF CompileStatements
  <2>2. CASE Return(s, "refused") /\ UNCHANGED todo
    <3>1. pc' = [pc EXCEPT ![s] = "idle"] /\ todo' = todo
      BY <2>2 DEF Return
    <3>2. Standing(s)'
      BY <1>0, <3>1 DEF Standing
    <3> QED BY <1>0, <1>1, <2>1, <3>1, <3>2
  <2>3. CASE /\ ~Compile(db, pio, call[s]).refused
             /\ todo' = [todo EXCEPT ![s] = Compile(db, pio, call[s]).list]
             /\ pc' = [pc EXCEPT ![s] = "begin"]
    <3>1. todo'[s] = Compile(db, pio, call[s]).list /\ pc'[s] = "begin"
      BY <1>0, <2>3
    <3>2. Due(db, pio, call[s], todo'[s])
      BY <2>3, <3>1 DEF Due
    <3>3. Standing(s)'
      BY <2>1, <3>1, <3>2 DEF Standing
    <3> QED BY <1>0, <1>1, <2>1, <2>3, <3>3
  <2> QED BY <1>7, <2>2, <2>3 DEF CompileStatements
<1>8. ASSUME NEW s \in Session, BeginTransaction(s) PROVE Stands'
  <2>1. UNCHANGED <<db, pio, call, todo>> /\ pc[s] = "begin" /\ pc' = [pc EXCEPT ![s] = "run"]
    BY <1>8 DEF BeginTransaction
  <2>2. /\ base' = [base EXCEPT ![s] = db] /\ view' = [view EXCEPT ![s] = db]
        /\ temp' = [temp EXCEPT ![s] = NoTemp] /\ tx' = [tx EXCEPT ![s] = begun + 1]
    BY <1>8 DEF BeginTransaction
  <2>3. call[s] \in Calls[s]
    BY <1>0, <2>1 DEF Resting
  <2>4. Due(db, pio, call[s], todo[s])
    BY <1>0, <2>1 DEF Standing
  <2>5. Doing(db, pio, call[s], todo[s], begun + 1, db, db, NoTemp)
    BY <1>0, <2>3, <2>4, DueBegins
  <2>6. base'[s] = db /\ view'[s] = db /\ temp'[s] = NoTemp /\ tx'[s] = begun + 1 /\ pc'[s] = "run"
    BY <1>0, <2>1, <2>2
  <2>7. Standing(s)'
    BY <2>1, <2>5, <2>6 DEF Standing
  <2> QED BY <1>0, <1>1, <2>1, <2>2, <2>7
<1>9. ASSUME NEW s \in Session, RunStatement(s) PROVE Stands'
  <2> DEFINE st == Head(todo[s])
  <2>1. UNCHANGED <<db, pio, pc, call, base, tx>> /\ pc[s] = "run" /\ todo[s] # <<>>
    BY <1>9 DEF RunStatement
  <2>2. /\ view' = [view EXCEPT ![s] = Effect(@, temp[s], st, tx[s], pio)]
        /\ temp' = [temp EXCEPT ![s] = Staged(view[s], @, st, pio)]
        /\ todo' = [todo EXCEPT ![s] = Tail(@)]
    BY <1>9 DEF RunStatement
  <2>3. /\ view'[s] = Effect(view[s], temp[s], st, tx[s], pio) /\ temp'[s] = Staged(view[s], temp[s], st, pio)
        /\ todo'[s] = Tail(todo[s])
    BY <1>0, <2>2
  <2>4. Doing(db, pio, call[s], todo[s], tx[s], base[s], view[s], temp[s])
    BY <1>0, <2>1 DEF Standing
  <2>5. ~Raises(view[s], temp[s], Head(todo[s]), pio)
    BY <1>9 DEF RunStatement
  <2>6. Doing(db, pio, call[s], Tail(todo[s]), tx[s], base[s], Effect(view[s], temp[s], st, tx[s], pio),
              Staged(view[s], temp[s], st, pio))
    BY <2>1, <2>4, <2>5, DoingOn
  <2>7. Standing(s)'
    BY <2>1, <2>3, <2>6 DEF Standing
  <2> QED BY <1>0, <1>1, <2>1, <2>2, <2>7
<1>10. ASSUME NEW s \in Session, RollBack(s) \/ CommitFails(s) PROVE Stands'
  <2>1. UNCHANGED <<db, pio, call>> /\ Return(s, "error") /\ Release(s)
    BY <1>10 DEF RollBack, CommitFails
  <2>2. \A r \in Session : r # s => Still(r)
    BY <1>0, <2>1 DEF Return, Release
  <2>3. Standing(s)'
    BY <1>0, <2>1 DEF Return, Standing
  <2> QED BY <1>1, <2>1, <2>2, <2>3
<1>11. ASSUME NEW s \in Session, Commit(s) PROVE Stands'
  <2> DEFINE m == Fold[call[s].t]
  <2>1. /\ UNCHANGED <<pio, call>> /\ Release(s) /\ pc[s] = "run"
        /\ db' = Merge(db, base[s], view[s]) /\ pc' = [pc EXCEPT ![s] = "scan"]
    BY <1>11 DEF Commit
  <2>2. Within(db, db', m)
    BY <1>11, CommitTurns
  <2>3. IsDb(db')
    BY <2>1 DEF Merge, IsDb
  <2>4. \A r \in Session : r # s => Still(r)
    BY <1>0, <2>1 DEF Release
  <2>5. call[s] \in Calls[s]
    BY <1>0, <2>1 DEF Resting
  <2>6. ASSUME NEW r \in Session, r # s PROVE Standing(r)'
    <3>1. ~Resting(r) => m \notin Touches(call[r])
      BY <1>0, <2>5, <2>6 DEF Steady, Lone
    <3>2. ~Resting(r) => \A k \in Touches(call[r]) : CellOf(db', k) = CellOf(db, k)
      BY <2>2, <3>1, OtherCells
    <3>3. DOMAIN db' = Relation /\ db'["source"] = db["source"]
      BY <2>2 DEF Within
    <3> QED BY <1>0, <2>1, <2>4, <2>6, <3>2, <3>3, StandingStays
  <2>7. Standing(s)'
    BY <1>0, <2>1 DEF Standing
  <2> QED BY <2>3, <2>6, <2>7 DEF Stands
<1>12. CASE Crash
  <2>1. db' = db /\ \A s \in Session : pc'[s] = "idle"
    BY <1>12 DEF Crash
  <2> QED BY <1>0, <2>1 DEF Stands, Standing
<1>13. CASE UNCHANGED vars
  BY <1>2, <1>13 DEF vars, local
<1> QED BY <1>3, <1>4, <1>5, <1>6, <1>7, <1>8, <1>9, <1>10, <1>11, <1>12, <1>13 DEF Next, Step

LEMMA StandsAlways ==
  ASSUME Steady
  PROVE  Spec => []Stands
<1>1. Apart
  BY SteadyApart
<1> QED BY <1>1, InitStands, NextStands, TypeCorrect, PlannedAlways, PTL DEF Spec

-----------------------------------------------------------------------------
(* No transaction is numbered beyond the bound.                            *)

\* The sessions whose call may yet begin a transaction.
Waits(s) == pc[s] \in {"bound", "compile", "begin"} \/ (pc[s] = "scan" /\ ~done[s])
Waiting  == {s \in Session : Waits(s)}
Numbered ==
  /\ begun + Cardinality(Waiting) <= MaxTx
  /\ \A s \in Session : pc[s] = "run" => tx[s] \in Txs

LEMMA WaitingCounts ==
  /\ IsFiniteSet(Waiting) /\ Cardinality(Waiting) \in Nat
  /\ IsFiniteSet(Waiting') /\ Cardinality(Waiting') \in Nat
  /\ Waiting' \subseteq Waiting => Cardinality(Waiting') <= Cardinality(Waiting)
  /\ \A s : Waiting' \subseteq Waiting \cup {s} => Cardinality(Waiting') <= Cardinality(Waiting) + 1
  /\ \A s \in Waiting : Waiting' \subseteq Waiting \ {s} => Cardinality(Waiting') <= Cardinality(Waiting) - 1
<1>1. IsFiniteSet(Waiting) /\ IsFiniteSet(Waiting')
  <2>1. Waiting \in SUBSET Session /\ Waiting' \in SUBSET Session
    BY DEF Waiting
  <2> QED BY <2>1, FS_Subset, BoundsAssumption
<1>2. Cardinality(Waiting) \in Nat /\ Cardinality(Waiting') \in Nat
  BY <1>1, FS_CardinalityType
<1>3. \A T : IsFiniteSet(T) /\ Waiting' \subseteq T => Cardinality(Waiting') <= Cardinality(T)
  BY FS_Subset
<1>4. ASSUME NEW s, Waiting' \subseteq Waiting \cup {s} PROVE Cardinality(Waiting') <= Cardinality(Waiting) + 1
  <2>1. IsFiniteSet(Waiting \cup {s}) /\ (\/ Cardinality(Waiting \cup {s}) = Cardinality(Waiting)
                                          \/ Cardinality(Waiting \cup {s}) = Cardinality(Waiting) + 1)
    BY <1>1, FS_AddElement
  <2>2. Cardinality(Waiting') <= Cardinality(Waiting \cup {s})
    BY <1>3, <1>4, <2>1
  <2> QED BY <1>2, <2>1, <2>2
<1>5. ASSUME NEW s \in Waiting, Waiting' \subseteq Waiting \ {s} PROVE Cardinality(Waiting') <= Cardinality(Waiting) - 1
  <2>1. IsFiniteSet(Waiting \ {s}) /\ Cardinality(Waiting \ {s}) = Cardinality(Waiting) - 1
    BY <1>1, FS_RemoveElement
  <2>2. Cardinality(Waiting') <= Cardinality(Waiting \ {s})
    BY <1>3, <1>5, <2>1
  <2> QED BY <2>1, <2>2
<1> QED BY <1>1, <1>2, <1>3, <1>4, <1>5

LEMMA InitNumbered == Init => Numbered
<1> SUFFICES ASSUME Init PROVE Numbered
  OBVIOUS
<1>1. Waiting = {}
  BY DEF Init, Waiting, Waits
<1> QED BY <1>1, FS_EmptySet, BoundsAssumption DEF Numbered, Init

LEMMA NextNumbered == TypeOK /\ Numbered /\ [Next]_vars => Numbered'
<1> SUFFICES ASSUME TypeOK, Numbered, [Next]_vars PROVE Numbered'
  OBVIOUS
<1> USE DEF Waits
<1>0. /\ begun \in Nat /\ MaxTx \in Nat
      /\ begun + Cardinality(Waiting) <= MaxTx /\ \A s \in Session : pc[s] = "run" => tx[s] \in 1 .. MaxTx
      /\ DOMAIN pc = Session /\ DOMAIN done = Session /\ DOMAIN tx = Session
  BY BoundsAssumption DEF Numbered, TypeOK, Txs
<1>1. ASSUME begun' = begun, Waiting' \subseteq Waiting, \A s \in Session : pc'[s] = "run" => pc[s] = "run" /\ tx'[s] = tx[s]
      PROVE  Numbered'
  <2>1. begun' + Cardinality(Waiting)' <= MaxTx
    BY <1>0, <1>1, WaitingCounts
  <2> QED BY <1>0, <1>1, <2>1 DEF Numbered, Txs
<1>2. ASSUME NEW s \in Session,
             \/ BeginExplicit(s) \/ EndExplicit(s) \/ ChangeSource(s) \/ EditStored(s) \/ SetOption(s) \/ RunStatement(s)
      PROVE  Numbered'
  <2>1. UNCHANGED <<pc, done, tx, begun>>
    BY <1>2 DEF BeginExplicit, EndExplicit, ChangeSource, EditStored, SetOption, RunStatement, local
  <2> QED BY <1>1, <2>1 DEF Waiting
<1>3. ASSUME NEW s \in Session, VerbBind(s) PROVE Numbered'
  <2> DEFINE busy == {x \in Session : ~Idle(x)}
  <2>1. UNCHANGED <<done, tx, begun>> /\ pc' = [pc EXCEPT ![s] = "bound"] /\ Idle(s) /\ begun + Cardinality(busy) < MaxTx
    BY <1>3 DEF VerbBind, local
  <2>2. Waiting' \subseteq Waiting \cup {s}
    BY <1>0, <2>1 DEF Waiting
  <2>3. IsFiniteSet(busy) /\ Cardinality(busy) \in Nat /\ Cardinality(Waiting) <= Cardinality(busy)
    <3>1. busy \in SUBSET Session /\ Waiting \in SUBSET busy
      BY DEF Waiting, Idle
    <3> HIDE DEF busy
    <3>2. IsFiniteSet(busy)
      BY <3>1, BoundsAssumption, FS_Subset
    <3> QED BY <3>1, <3>2, FS_Subset, FS_CardinalityType
  <2> HIDE DEF busy
  <2>4. Cardinality(Waiting') <= Cardinality(Waiting) + 1
    BY <2>2, WaitingCounts
  <2>5. begun' + Cardinality(Waiting') <= MaxTx
    BY <1>0, <2>1, <2>3, <2>4, WaitingCounts
  <2>6. \A r \in Session : pc'[r] = "run" => tx'[r] \in 1 .. MaxTx
    BY <1>0, <2>1
  <2> QED BY <2>5, <2>6 DEF Numbered, Txs
<1>4. ASSUME NEW s \in Session, Unbind(s) \/ VerbInit(s) \/ EndScan(s) \/ RequireAutoCommit(s) \/ CompileStatements(s)
      PROVE  Numbered'
  <2>1. UNCHANGED <<tx, begun>> /\ (done' = done \/ (pc[s] = "bound" /\ done' = [done EXCEPT ![s] = FALSE]))
    <3>1. Unbind(s) \/ EndScan(s) \/ RequireAutoCommit(s) \/ CompileStatements(s) => UNCHANGED <<tx, begun, done>>
      BY DEF Unbind, EndScan, RequireAutoCommit, CompileStatements, local
    <3>2. VerbInit(s) => UNCHANGED <<tx, begun>> /\ pc[s] = "bound" /\ done' = [done EXCEPT ![s] = FALSE]
      BY DEF VerbInit
    <3> QED BY <1>4, <3>1, <3>2
  <2>2. \/ pc' = [pc EXCEPT ![s] = "idle"]
        \/ s \in Waiting /\ \E at \in {"scan", "compile", "begin"} : pc' = [pc EXCEPT ![s] = at]
    BY <1>4 DEF Unbind, VerbInit, EndScan, RequireAutoCommit, CompileStatements, Return, Waiting
  <2>3. Waiting' \subseteq Waiting
    BY <1>0, <2>1, <2>2 DEF Waiting
  <2> QED BY <1>0, <1>1, <2>1, <2>2, <2>3
<1>5. ASSUME NEW s \in Session, BeginTransaction(s) PROVE Numbered'
  <2>1. /\ done' = done /\ pc[s] = "begin" /\ pc' = [pc EXCEPT ![s] = "run"]
        /\ tx' = [tx EXCEPT ![s] = begun + 1] /\ begun' = begun + 1
    BY <1>5 DEF BeginTransaction
  <2>2. s \in Waiting /\ Waiting' \subseteq Waiting \ {s}
    BY <1>0, <2>1 DEF Waiting
  <2>3. Cardinality(Waiting') <= Cardinality(Waiting) - 1
    BY <2>2, WaitingCounts
  <2>4. begun' + Cardinality(Waiting') <= MaxTx /\ begun + 1 \in 1 .. MaxTx
    BY <1>0, <2>1, <2>3, WaitingCounts
  <2>5. \A r \in Session : pc'[r] = "run" => tx'[r] \in 1 .. MaxTx
    BY <1>0, <2>1, <2>4
  <2> QED BY <2>4, <2>5 DEF Numbered, Txs
<1>6. ASSUME NEW s \in Session, RollBack(s) \/ CommitFails(s) \/ Commit(s) PROVE Numbered'
  <2>1. Release(s) /\ begun' = begun /\ (\/ done' = done /\ pc' = [pc EXCEPT ![s] = "idle"]
                                         \/ done' = [done EXCEPT ![s] = TRUE] /\ pc' = [pc EXCEPT ![s] = "scan"])
    BY <1>6 DEF RollBack, CommitFails, Commit, Return
  <2>2. tx' = [tx EXCEPT ![s] = 0]
    BY <2>1 DEF Release
  <2>3. Waiting' \subseteq Waiting
    BY <1>0, <2>1 DEF Waiting
  <2> QED BY <1>0, <1>1, <2>1, <2>2, <2>3
<1>7. CASE Crash
  <2>1. begun' = begun /\ \A s \in Session : pc'[s] = "idle"
    BY <1>7 DEF Crash
  <2> QED BY <1>1, <2>1 DEF Waiting
<1>8. CASE UNCHANGED vars
  BY <1>1, <1>8 DEF vars, local, Waiting
<1> QED BY <1>2, <1>3, <1>4, <1>5, <1>6, <1>7, <1>8 DEF Next, Step

LEMMA NumberedAlways == Spec => []Numbered
BY InitNumbered, NextNumbered, TypeCorrect, PTL DEF Spec

-----------------------------------------------------------------------------
(* The executor implements the contract.                                   *)

\* Databases that agree within a cell and outside it are one.
LEMMA OneDb ==
  ASSUME NEW x, NEW y, IsDb(x), IsDb(y), NEW d, NEW m, Within(d, x, m), Within(d, y, m), CellOf(x, m) = CellOf(y, m)
  PROVE  x = y
<1>1. DOMAIN x = Relation /\ DOMAIN y = Relation /\ x["source"] = y["source"]
  BY DEF Within
<1>2. ASSUME NEW rel \in Cells PROVE x[rel] = y[rel]
  <2>1. ASSUME NEW r PROVE r \in x[rel] <=> r \in y[rel]
    <3> DEFINE k == Owner(rel, r)
    <3>1. Cell(x, rel, k) = Cell(y, rel, k)
      <4>1. CASE k = m
        BY <4>1, CellIn
      <4>2. CASE k # m
        BY <4>2 DEF Within
      <4> QED BY <4>1, <4>2
    <3> QED BY <3>1 DEF Cell
  <2> QED BY <2>1
<1>3. \A rel \in Relation : rel \in Cells \/ rel = "source"
  BY DEF Cells
<1>4. \A rel \in Relation : x[rel] = y[rel]
  BY <1>1, <1>2, <1>3
<1> QED BY <1>1, <1>4 DEF IsDb

LEMMA CommitApplies ==
  ASSUME Steady, TypeOK, Planned, Stands, Numbered, NEW s \in Session, Commit(s)
  PROVE  call[s] \in AllCalls /\ tx[s] \in Txs /\ Atomic!ApplyAs(call[s], tx[s])
<1> DEFINE c == call[s]
<1> DEFINE m == Fold[c.t]
<1> DEFINE l == Compile(db, pio, c).list
<1> DEFINE y == At(view[s], temp[s])
<1> DEFINE z == Atomic!RunAll(db, l, tx[s])
<1>1. /\ UNCHANGED pio /\ pc[s] = "run" /\ todo[s] = <<>> /\ db' = Merge(db, base[s], view[s])
  BY DEF Commit
<1>2. c \in Calls[s] /\ tx[s] \in Txs /\ \A k : Tidy(CellOf(db, k))
  BY <1>1 DEF Planned, Plan, Numbered
<1>3. Doing(db, pio, c, <<>>, tx[s], base[s], view[s], temp[s])
  BY <1>1 DEF Stands, Standing
<1>4. Within(db, db', m) /\ CellOf(db', m) = CellOf(view[s], m)
  BY CommitTurns
<1>5. ~Compile(db, pio, c).refused /\ Alike(base[s], db, m) /\ Runs(l, tx[s], {pio}, At(base[s], NoTemp), y)
  <2>1. Runs(<<>>, tx[s], {pio}, y, y)
    BY RunsNone
  <2> QED BY <1>3, <2>1 DEF Doing
<1>6. Near(base[s], db, m)
  <2>1. Sane(CellOf(db, m), m)
    BY <1>2, TidySane
  <2> QED BY <1>5, <2>1 DEF Near, Alike
<1>7. AllLocal(l, m)
  BY <1>2, <1>5, CompiledLocal
<1>8. IsDb(db) /\ IsDb(db')
  BY <1>1 DEF Stands, Merge, IsDb
<1>9. y.d = view[s]
  BY DEF At
<1> HIDE DEF c, m, l, y
<1>10. z.ok /\ Near(y.d, z.d, m) /\ Within(db, z.d, m) /\ IsDb(z.d)
  BY <1>5, <1>6, <1>7, <1>8, RunAllFollows
<1> HIDE DEF z
<1>11. CellOf(z.d, m) = CellOf(db', m)
  BY <1>4, <1>9, <1>10 DEF Near, Alike
<1>12. db' = z.d
  BY <1>4, <1>8, <1>10, <1>11, OneDb
<1>13. c \in AllCalls
  BY <1>2 DEF AllCalls
<1>14. Atomic!ApplyAs(c, tx[s])
  BY <1>1, <1>5, <1>10, <1>12 DEF Atomic!ApplyAs, l, z
<1> QED BY <1>2, <1>13, <1>14 DEF c

LEMMA OthersStutter ==
  ASSUME Steady, TypeOK, [Next]_vars, \A s \in Session : ~Commit(s)
  PROVE  Atomic!Environment \/ UNCHANGED <<db, pio>>
<1>1. ASSUME NEW s \in Session, ChangeSource(s) PROVE Atomic!Environment
  BY <1>1 DEF ChangeSource, TypeOK, Atomic!Environment
<1>2. ASSUME NEW s \in Session, EditStored(s) PROVE FALSE
  BY <1>2 DEF EditStored, Steady
<1>3. ASSUME NEW s \in Session, SetOption(s) PROVE Atomic!Environment
  BY <1>3 DEF SetOption, Atomic!Environment
<1>4. ASSUME NEW s \in Session,
             BeginExplicit(s) \/ EndExplicit(s) \/ VerbBind(s) \/ Unbind(s) \/ VerbInit(s) \/ EndScan(s)
             \/ RequireAutoCommit(s) \/ CompileStatements(s) \/ BeginTransaction(s) \/ RunStatement(s) \/ RollBack(s)
             \/ CommitFails(s)
      PROVE  UNCHANGED <<db, pio>>
  BY <1>4 DEF BeginExplicit, EndExplicit, VerbBind, Unbind, VerbInit, EndScan, RequireAutoCommit, CompileStatements,
              BeginTransaction, RunStatement, RollBack, CommitFails
<1>5. CASE Crash
  BY <1>5 DEF Crash, Atomic!Environment
<1>6. CASE UNCHANGED vars
  BY <1>6 DEF vars
<1> QED BY <1>1, <1>2, <1>3, <1>4, <1>5, <1>6 DEF Next, Step

\* To everyone else a call is one step, which applies the whole of its list to the
\* database as it then is, or no step at all: what VerbScan does on two connections,
\* statement by statement, with other sessions in between.
THEOREM CallsAreAtomic == ASSUME Steady PROVE Spec => AtomicCalls
<1>1. Init => Atomic!AtomicInit
  BY DEF Init, EmptyDb, Atomic!AtomicInit, Relation
<1>2. TypeOK /\ Planned /\ Stands /\ Numbered /\ [Next]_vars => [Atomic!AtomicNext]_<<db, pio>>
  <2> SUFFICES ASSUME TypeOK, Planned, Stands, Numbered, [Next]_vars PROVE [Atomic!AtomicNext]_<<db, pio>>
    OBVIOUS
  <2>1. CASE \E s \in Session : Commit(s)
    <3>1. PICK s \in Session : Commit(s)
      BY <2>1
    <3>2. call[s] \in AllCalls /\ tx[s] \in Txs /\ Atomic!ApplyAs(call[s], tx[s])
      BY <3>1, CommitApplies
    <3>3. Atomic!Apply(call[s])
      BY <3>2 DEF Atomic!Apply
    <3> QED BY <3>2, <3>3 DEF Atomic!AtomicNext
  <2>2. CASE \A s \in Session : ~Commit(s)
    BY <2>2, OthersStutter DEF Atomic!AtomicNext
  <2> QED BY <2>1, <2>2
<1>3. Apart
  BY SteadyApart
<1> QED BY <1>1, <1>2, <1>3, TypeCorrect, PlannedAlways, StandsAlways, NumberedAlways, PTL DEF Spec, AtomicCalls, Atomic!AtomicSpec

=============================================================================
