---------------------------- MODULE CatalogProofs ----------------------------
(***************************************************************************)
(* What is proved of the executor, for any number of sessions, calls,      *)
(* sources, names and faults, and of the trees the verbs leave in the      *)
(* catalog, for sessions that keep to trees of their own.                  *)
(***************************************************************************)
EXTENDS VerbProperties, StatementLemmas

-----------------------------------------------------------------------------
(* Type correctness.                                                       *)

LEMMA InitTypeOK == Init => TypeOK
BY DEF Init, TypeOK, EmptyDb

LEMMA NextTypeOK == TypeOK /\ [Next]_vars => TypeOK'
<1> SUFFICES ASSUME TypeOK, [Next]_vars PROVE TypeOK'
  OBVIOUS
<1> "source" \in Relation /\ "rows" \in Relation BY DEF Relation
<1>1. ASSUME NEW s \in Session, BeginExplicit(s) \/ EndExplicit(s) PROVE TypeOK'
  BY <1>1 DEF TypeOK, BeginExplicit, EndExplicit, local
<1>2. ASSUME NEW s \in Session, ChangeSource(s) \/ EditStored(s) \/ SetOption(s) PROVE TypeOK'
  <2>1. DOMAIN db' = Relation
    BY <1>2 DEF TypeOK, ChangeSource, EditStored, SetOption
  <2>2. edits' \in Nat
    BY <1>2 DEF TypeOK, ChangeSource, EditStored, SetOption
  <2>3. pio' \in BOOLEAN
    BY <1>2, Zenon DEF TypeOK, ChangeSource, EditStored, SetOption
  <2>4. UNCHANGED <<caller, pc, call, done, todo, base, view, temp, tx, result, begun>>
    BY <1>2 DEF ChangeSource, EditStored, SetOption, local
  <2> QED BY <2>1, <2>2, <2>3, <2>4 DEF TypeOK
<1>3. ASSUME NEW s \in Session, VerbBind(s) \/ Unbind(s) \/ EndScan(s) PROVE TypeOK'
  BY <1>3 DEF TypeOK, VerbBind, Unbind, EndScan, local
<1>12. ASSUME NEW s \in Session, VerbInit(s) PROVE TypeOK'
  <2>1. UNCHANGED <<db, pio, caller, call, todo, base, view, temp, tx, result, begun, edits>>
    BY <1>12 DEF VerbInit
  <2>2. pc' = [pc EXCEPT ![s] = "scan"] /\ done' = [done EXCEPT ![s] = FALSE]
    BY <1>12 DEF VerbInit
  <2> QED BY <2>1, <2>2 DEF TypeOK
<1>4. ASSUME NEW s \in Session, RequireAutoCommit(s) PROVE TypeOK'
  BY <1>4 DEF TypeOK, RequireAutoCommit, Return, local
<1>5. ASSUME NEW s \in Session, CompileStatements(s) PROVE TypeOK'
  BY <1>5 DEF TypeOK, CompileStatements, Return
<1>6. ASSUME NEW s \in Session, BeginTransaction(s) PROVE TypeOK'
  BY <1>6 DEF TypeOK, BeginTransaction
<1>7. ASSUME NEW s \in Session, RunStatement(s) PROVE TypeOK'
  <2>1. DOMAIN Effect(view[s], temp[s], Head(todo[s]), tx[s], pio) = Relation
    BY EffectDomain DEF TypeOK
  <2> QED BY <1>7, <2>1 DEF TypeOK, RunStatement
<1>8. ASSUME NEW s \in Session, RollBack(s) \/ CommitFails(s) PROVE TypeOK'
  <2>1. UNCHANGED <<db, pio, caller, call, done, begun, edits>>
    BY <1>8 DEF RollBack, CommitFails
  <2>2. Return(s, "error") /\ Release(s)
    BY <1>8 DEF RollBack, CommitFails
  <2> QED BY <2>1, <2>2 DEF TypeOK, Return, Release, EmptyDb
<1>9. ASSUME NEW s \in Session, Commit(s) PROVE TypeOK'
  BY <1>9, MergeDomain DEF TypeOK, Commit, Release, EmptyDb
<1>10. CASE Crash
  BY <1>10 DEF TypeOK, Crash, EmptyDb
<1>11. CASE UNCHANGED vars
  BY <1>11 DEF TypeOK, vars, local
<1> QED BY <1>1, <1>2, <1>3, <1>4, <1>5, <1>6, <1>7, <1>8, <1>9, <1>10, <1>11, <1>12 DEF Next, Step

\* The state is well typed in every reachable state.
THEOREM TypeCorrect == Spec => []TypeOK
BY InitTypeOK, NextTypeOK, PTL DEF Spec

-----------------------------------------------------------------------------
(* One row per registered tree.                                            *)

\* Inductive: uniqueness holds of the committed database and of what every
\* open transaction sees.
UniqueEverywhere == UniqueTrees(db) /\ \A s \in Session : UniqueTrees(view[s])

LEMMA InitUnique == Init => UniqueEverywhere
BY DEF Init, UniqueEverywhere, UniqueTrees, EmptyDb, Relation

LEMMA NextUnique == TypeOK /\ UniqueEverywhere /\ [Next]_vars => UniqueEverywhere'
<1> SUFFICES ASSUME TypeOK, UniqueEverywhere, [Next]_vars PROVE UniqueEverywhere'
  OBVIOUS
<1> USE DEF UniqueEverywhere
<1>0. UniqueTrees(EmptyDb)
  BY DEF UniqueTrees, EmptyDb, Relation
<1>1. ASSUME NEW s \in Session,
             BeginExplicit(s) \/ EndExplicit(s) \/ SetOption(s) \/ VerbBind(s) \/ Unbind(s)
             \/ VerbInit(s) \/ EndScan(s) \/ RequireAutoCommit(s) \/ CompileStatements(s)
      PROVE UniqueEverywhere'
  BY <1>1 DEF BeginExplicit, EndExplicit, SetOption, VerbBind, Unbind, VerbInit, EndScan, RequireAutoCommit,
               CompileStatements, local
<1>2. ASSUME NEW s \in Session, ChangeSource(s) \/ EditStored(s) PROVE UniqueEverywhere'
  <2>1. db'["trees"] = db["trees"] /\ view' = view
    BY <1>2 DEF ChangeSource, EditStored, local, TypeOK, Relation
  <2> QED BY <2>1 DEF UniqueTrees
<1>3. ASSUME NEW s \in Session, BeginTransaction(s) PROVE UniqueEverywhere'
  BY <1>3 DEF BeginTransaction, TypeOK
<1>4. ASSUME NEW s \in Session, RunStatement(s) PROVE UniqueEverywhere'
  <2>1. UniqueTrees(Effect(view[s], temp[s], Head(todo[s]), tx[s], pio))
    BY <1>4, EffectUniqueTrees DEF RunStatement, TypeOK
  <2> QED BY <1>4, <2>1 DEF RunStatement, TypeOK
<1>5. ASSUME NEW s \in Session, RollBack(s) \/ CommitFails(s) PROVE UniqueEverywhere'
  BY <1>5, <1>0 DEF RollBack, CommitFails, Release, TypeOK
<1>6. ASSUME NEW s \in Session, Commit(s) PROVE UniqueEverywhere'
  BY <1>6, <1>0, MergeUniqueTrees DEF Commit, Release, TypeOK
<1>7. CASE Crash
  BY <1>7, <1>0 DEF Crash
<1>8. CASE UNCHANGED vars
  BY <1>8 DEF vars, local
<1> QED BY <1>1, <1>2, <1>3, <1>4, <1>5, <1>6, <1>7, <1>8 DEF Next, Step

\* However many sessions register trees at once, a tree has one row.
THEOREM OneTree == Spec => []OneTreePerName
<1>1. UniqueEverywhere => OneTreePerName
  BY DEF UniqueEverywhere, UniqueTrees, OneTreePerName
<1> QED BY TypeCorrect, InitUnique, NextUnique, <1>1, PTL DEF Spec

-----------------------------------------------------------------------------
(* What shows, and when.                                                   *)

\* Inductive: past the guard, the caller is outside any transaction.
PastGuard == \A s \in Session : pc[s] \in {"compile", "begin", "run"} => caller[s] = "auto"

LEMMA InitPastGuard == Init => PastGuard
BY DEF Init, PastGuard

LEMMA NextPastGuard == TypeOK /\ PastGuard /\ [Next]_vars => PastGuard'
<1> SUFFICES ASSUME TypeOK, PastGuard, [Next]_vars PROVE PastGuard'
  OBVIOUS
<1> USE DEF TypeOK, PastGuard
<1>1. ASSUME NEW s \in Session, BeginExplicit(s) \/ EndExplicit(s) PROVE PastGuard'
  BY <1>1 DEF BeginExplicit, EndExplicit, Resting
<1>2. ASSUME NEW s \in Session, ChangeSource(s) \/ EditStored(s) \/ SetOption(s) PROVE PastGuard'
  BY <1>2 DEF ChangeSource, EditStored, SetOption
<1>3. ASSUME NEW s \in Session, VerbBind(s) \/ Unbind(s) \/ VerbInit(s) \/ EndScan(s) PROVE PastGuard'
  BY <1>3 DEF VerbBind, Unbind, VerbInit, EndScan
<1>4. ASSUME NEW s \in Session, RequireAutoCommit(s) PROVE PastGuard'
  BY <1>4 DEF RequireAutoCommit, Return
<1>5. ASSUME NEW s \in Session, CompileStatements(s) \/ BeginTransaction(s) \/ RunStatement(s) PROVE PastGuard'
  BY <1>5 DEF CompileStatements, BeginTransaction, RunStatement, Return
<1>6. ASSUME NEW s \in Session, RollBack(s) \/ Commit(s) \/ CommitFails(s) PROVE PastGuard'
  BY <1>6 DEF RollBack, Commit, CommitFails, Return
<1>7. CASE Crash
  BY <1>7 DEF Crash
<1>8. CASE UNCHANGED vars
  BY <1>8 DEF vars
<1> QED BY <1>1, <1>2, <1>3, <1>4, <1>5, <1>6, <1>7, <1>8 DEF Next, Step

\* A step that changes the committed database is an edit of the users' own or
\* the COMMIT of a call whose list has run to its end, outside any transaction
\* of its caller.
LEMMA StepShows ==
  ASSUME TypeOK, PastGuard, [Next]_vars
  PROVE  db' # db => \/ edits' # edits
                     \/ \E s \in Session : Committed(s) /\ caller[s] = "auto" /\ todo[s] = <<>>
<1> SUFFICES ASSUME db' # db
             PROVE  edits' # edits \/ \E s \in Session : Committed(s) /\ caller[s] = "auto" /\ todo[s] = <<>>
  OBVIOUS
<1>1. PICK s \in Session : ChangeSource(s) \/ EditStored(s) \/ Commit(s)
  BY DEF Next, Step, vars, BeginExplicit, EndExplicit, SetOption, VerbBind, Unbind, VerbInit, EndScan,
         RequireAutoCommit, CompileStatements, BeginTransaction, RunStatement, RollBack, CommitFails, Crash
<1>2. CASE ChangeSource(s) \/ EditStored(s)
  BY <1>2 DEF ChangeSource, EditStored, TypeOK
<1>3. CASE Commit(s)
  BY <1>3 DEF Commit, Committed, TypeOK, PastGuard
<1> QED BY <1>1, <1>2, <1>3

\* Nothing of a verb shows before its own COMMIT, and nothing a caller could
\* still roll back ever depends on it.
THEOREM OnlyCommits == Spec => OnlyCommitsShow
<1>1. TypeOK /\ PastGuard /\ [Next]_vars =>
        [db' # db => \/ edits' # edits
                     \/ \E s \in Session : Committed(s) /\ caller[s] = "auto" /\ todo[s] = <<>>]_vars
  BY StepShows
<1> QED BY TypeCorrect, InitPastGuard, NextPastGuard, <1>1, PTL DEF Spec, OnlyCommitsShow

-----------------------------------------------------------------------------
(* One effect per call.                                                    *)

\* Inductive: a call that has answered is back in its scan, which notes it.
Answered ==
  \A s \in Session :
    /\ pc[s] = "bound" => result[s] = "none"
    /\ ~Resting(s) /\ result[s] = "ok" => pc[s] = "scan" /\ done[s]

LEMMA InitAnswered == Init => Answered
BY DEF Init, Answered, Resting

LEMMA NextAnswered == TypeOK /\ Answered /\ [Next]_vars => Answered'
<1> SUFFICES ASSUME TypeOK, Answered, [Next]_vars PROVE Answered'
  OBVIOUS
<1> USE DEF TypeOK, Answered, Resting
<1>1. ASSUME NEW s \in Session,
             BeginExplicit(s) \/ EndExplicit(s) \/ ChangeSource(s) \/ EditStored(s) \/ SetOption(s)
      PROVE  Answered'
  BY <1>1 DEF BeginExplicit, EndExplicit, ChangeSource, EditStored, SetOption, local
<1>2. ASSUME NEW s \in Session, VerbBind(s) \/ Unbind(s) \/ VerbInit(s) \/ EndScan(s) PROVE Answered'
  BY <1>2 DEF VerbBind, Unbind, VerbInit, EndScan, Idle, local
<1>3. ASSUME NEW s \in Session, RequireAutoCommit(s) \/ CompileStatements(s) PROVE Answered'
  BY <1>3 DEF RequireAutoCommit, CompileStatements, Return, local
<1>4. ASSUME NEW s \in Session, BeginTransaction(s) \/ RunStatement(s) PROVE Answered'
  BY <1>4 DEF BeginTransaction, RunStatement
<1>5. ASSUME NEW s \in Session, RollBack(s) \/ CommitFails(s) PROVE Answered'
  <2>1. pc' = [pc EXCEPT ![s] = "idle"] /\ result' = [result EXCEPT ![s] = "error"]
    BY <1>5 DEF RollBack, CommitFails, Return
  <2>2. done' = done
    BY <1>5 DEF RollBack, CommitFails
  <2> QED BY <2>1, <2>2
<1>6. ASSUME NEW s \in Session, Commit(s) PROVE Answered'
  <2>1. pc' = [pc EXCEPT ![s] = "scan"] /\ result' = [result EXCEPT ![s] = "ok"]
    BY <1>6 DEF Commit
  <2>2. done'[s] /\ \A t \in Session \ {s} : done'[t] = done[t]
    BY <1>6, Zenon DEF Commit
  <2> QED BY <2>1, <2>2
<1>7. CASE Crash
  BY <1>7 DEF Crash
<1>8. CASE UNCHANGED vars
  BY <1>8 DEF vars, local
<1> QED BY <1>1, <1>2, <1>3, <1>4, <1>5, <1>6, <1>7, <1>8 DEF Next, Step

\* A call answers by its COMMIT alone, and once it has answered its scan neither
\* commits nor refuses (VerbScan's done).
LEMMA StepAnswersOnce ==
  ASSUME TypeOK, Answered, [Next]_vars, NEW s \in Session, pc[s] \notin {"idle", "bound"}
  PROVE  /\ result[s] = "ok" => ~Committed(s) /\ result'[s] \notin {"refused", "error"}
         /\ result[s] # "ok" /\ result'[s] = "ok" => Committed(s)
<1> USE DEF TypeOK, Committed
<1>1. result[s] = "ok" => pc[s] = "scan" /\ done[s]
  BY DEF Answered, Resting
<1>2. ASSUME NEW t \in Session,
             BeginExplicit(t) \/ EndExplicit(t) \/ ChangeSource(t) \/ EditStored(t) \/ SetOption(t)
             \/ Unbind(t) \/ VerbInit(t) \/ EndScan(t) \/ BeginTransaction(t) \/ RunStatement(t)
      PROVE  result' = result
  BY <1>2 DEF BeginExplicit, EndExplicit, ChangeSource, EditStored, SetOption, Unbind, VerbInit, EndScan,
              BeginTransaction, RunStatement
<1>3. ASSUME NEW t \in Session, VerbBind(t) PROVE result'[s] = result[s]
  BY <1>3 DEF VerbBind, Idle
<1>4. ASSUME NEW t \in Session, RequireAutoCommit(t) \/ CompileStatements(t) \/ RollBack(t) \/ CommitFails(t)
      PROVE  result'[s] = result[s] \/ (t = s /\ result'[s] \in {"refused", "error"} /\ ~(pc[s] = "scan" /\ done[s]))
  BY <1>4 DEF RequireAutoCommit, CompileStatements, RollBack, CommitFails, Return
<1>5. ASSUME NEW t \in Session, Commit(t)
      PROVE  result'[s] = result[s] \/ (t = s /\ result'[s] = "ok" /\ pc[s] = "run")
  BY <1>5 DEF Commit
<1>6. CASE Crash
  BY <1>6 DEF Crash
<1>7. CASE UNCHANGED vars
  BY <1>1, <1>7 DEF vars
<1> QED BY <1>1, <1>2, <1>3, <1>4, <1>5, <1>6, <1>7 DEF Next, Step

\* A verb takes effect exactly when its scan answers its row, however often the
\* scan is called.
THEOREM OneEffect == Spec => OneEffectPerCall
<1>1. TypeOK /\ Answered /\ [Next]_vars =>
        [\A s \in Session : pc[s] \notin {"idle", "bound"} =>
           /\ result[s] = "ok" => ~Committed(s) /\ result'[s] \notin {"refused", "error"}
           /\ result[s] # "ok" /\ result'[s] = "ok" => Committed(s)]_vars
  BY StepAnswersOnce
<1> QED BY TypeCorrect, InitAnswered, NextAnswered, <1>1, PTL DEF Spec, OneEffectPerCall

-----------------------------------------------------------------------------
(* Running a list of statements.                                           *)

\* A transaction's database and temporary tables, before and after a statement.
Does(x, st, n, p, y) ==
  /\ ~Raises(x.d, x.tmp, st, p)
  /\ y = [d |-> Effect(x.d, x.tmp, st, n, p), tmp |-> Staged(x.d, x.tmp, st, p)]

\* The list l, run by transaction n while the setting is in P, leads from x to y.
Runs(l, n, P, x, y) ==
  \E f : /\ f[0] = x /\ f[Len(l)] = y
         /\ \A i \in 1 .. Len(l) : \E p \in P : Does(f[i - 1], l[i], n, p, f[i])

LEMMA RunsNone ==
  ASSUME NEW n, NEW P, NEW x
  PROVE  Runs(<<>>, n, P, x, x)
<1> DEFINE f == [i \in {0} |-> x]
<1>1. f[0] = x /\ f[Len(<<>>)] = x /\ 1 .. Len(<<>>) = {}
  OBVIOUS
<1> QED BY <1>1 DEF Runs

LEMMA RunsNothing ==
  ASSUME NEW n, NEW P, NEW x, NEW y, Runs(<<>>, n, P, x, y)
  PROVE  y = x
BY DEF Runs

LEMMA RunsOne ==
  ASSUME NEW st, NEW n, NEW P, NEW x, NEW y, Runs(<<st>>, n, P, x, y)
  PROVE  \E p \in P : Does(x, st, n, p, y)
<1>1. PICK f : /\ f[0] = x /\ f[Len(<<st>>)] = y
               /\ \A i \in 1 .. Len(<<st>>) : \E p \in P : Does(f[i - 1], <<st>>[i], n, p, f[i])
  BY DEF Runs
<1>2. Len(<<st>>) = 1 /\ <<st>>[1] = st
  BY OneList
<1>3. f[1] = y /\ \E p \in P : Does(f[1 - 1], <<st>>[1], n, p, f[1])
  BY <1>1, <1>2
<1> QED BY <1>1, <1>2, <1>3

LEMMA RunsWhen ==
  ASSUME NEW c, NEW l, NEW n, NEW P, NEW x, NEW y, Runs(When(c, l), n, P, x, y)
  PROVE  (c => Runs(l, n, P, x, y)) /\ (~c => y = x)
BY RunsNothing DEF When

\* A statement, then the rest.
LEMMA RunsMore ==
  ASSUME NEW l, IsList(l), l # <<>>, NEW n, NEW P, NEW x, NEW y, NEW z, NEW p \in P,
         Does(x, Head(l), n, p, z), Runs(Tail(l), n, P, z, y)
  PROVE  Runs(l, n, P, x, y)
<1>1. PICK f : /\ f[0] = z /\ f[Len(Tail(l))] = y
               /\ \A i \in 1 .. Len(Tail(l)) : \E q \in P : Does(f[i - 1], Tail(l)[i], n, q, f[i])
  BY DEF Runs
<1> DEFINE g == [i \in 0 .. Len(l) |-> IF i = 0 THEN x ELSE f[i - 1]]
<1>2. Len(Tail(l)) \in Nat /\ Len(l) = Len(Tail(l)) + 1
  BY ListRest, ListMeans
<1>3. g[0] = x /\ g[1] = z /\ g[Len(l)] = y
  BY <1>1, <1>2
<1>4. ASSUME NEW i \in 1 .. Len(l) PROVE \E q \in P : Does(g[i - 1], l[i], n, q, g[i])
  <2>1. CASE i = 1
    BY <1>3, <2>1, ListRest
  <2>2. CASE i # 1
    <3>1. i - 1 \in 1 .. Len(Tail(l))
      BY <1>2, <2>2
    <3>2. \E q \in P : Does(f[(i - 1) - 1], Tail(l)[i - 1], n, q, f[i - 1])
      BY <1>1, <3>1
    <3>3. Tail(l)[i - 1] = l[(i - 1) + 1]
      BY <3>1, ListRest
    <3>4. g[i - 1] = f[(i - 1) - 1] /\ g[i] = f[i - 1] /\ (i - 1) + 1 = i
      BY <1>2, <2>2
    <3> QED BY <3>2, <3>3, <3>4
  <2> QED BY <2>1, <2>2
<1> HIDE DEF g
<1> QED BY <1>3, <1>4 DEF Runs

\* One list behind another.
LEMMA RunsBoth ==
  ASSUME NEW a, NEW b, IsList(a), IsList(b), NEW n, NEW P, NEW x, NEW y, Runs(a \o b, n, P, x, y)
  PROVE  \E z : Runs(a, n, P, x, z) /\ Runs(b, n, P, z, y)
<1>1. PICK f : /\ f[0] = x /\ f[Len(a \o b)] = y
               /\ \A i \in 1 .. Len(a \o b) : \E p \in P : Does(f[i - 1], (a \o b)[i], n, p, f[i])
  BY DEF Runs
<1>2. Len(a) \in Nat /\ Len(b) \in Nat /\ Len(a \o b) = Len(a) + Len(b)
  BY ListMeans, ListsJoin
<1>3. ASSUME NEW i \in 1 .. Len(a) PROVE \E p \in P : Does(f[i - 1], a[i], n, p, f[i])
  <2>1. i \in 1 .. Len(a \o b) /\ (a \o b)[i] = a[i]
    BY <1>2, ListsJoin
  <2> QED BY <1>1, <2>1
<1>4. Runs(a, n, P, x, f[Len(a)])
  BY <1>1, <1>3 DEF Runs
<1> DEFINE g == [i \in 0 .. Len(b) |-> f[Len(a) + i]]
<1>5. g[0] = f[Len(a)] /\ g[Len(b)] = y
  BY <1>1, <1>2
<1>6. ASSUME NEW i \in 1 .. Len(b) PROVE \E p \in P : Does(g[i - 1], b[i], n, p, g[i])
  <2>1. Len(a) + i \in 1 .. Len(a \o b) /\ (a \o b)[Len(a) + i] = b[i]
    BY <1>2, ListsJoin
  <2>2. \E p \in P : Does(f[(Len(a) + i) - 1], b[i], n, p, f[Len(a) + i])
    BY <1>1, <2>1
  <2>3. g[i - 1] = f[(Len(a) + i) - 1] /\ g[i] = f[Len(a) + i]
    <3>1. Len(a) + (i - 1) = (Len(a) + i) - 1 /\ i - 1 \in 0 .. Len(b) /\ i \in 0 .. Len(b)
      BY <1>2
    <3> QED BY <3>1
  <2> QED BY <2>2, <2>3
<1> HIDE DEF g
<1>7. Runs(b, n, P, f[Len(a)], y)
  BY <1>5, <1>6 DEF Runs
<1> QED BY <1>4, <1>7

\* The first of four lists, and the other three behind it.
LEMMA RunsFirst ==
  ASSUME NEW a, NEW b, NEW c, NEW e, IsList(a), IsList(b), IsList(c), IsList(e), NEW n, NEW P, NEW x, NEW y,
         Runs(a \o b \o c \o e, n, P, x, y)
  PROVE  \E z : Runs(a, n, P, x, z) /\ Runs(b \o c \o e, n, P, z, y)
<1> DEFINE rest == b \o c \o e
<1>1. a \o b \o c \o e = a \o rest
  <2> DEFINE bc == b \o c
  <2>1. a \o b \o c = a \o bc
    BY ListsAssociate, SMTT(30)
  <2>2. IsList(bc)
    BY ListsJoin
  <2> HIDE DEF bc
  <2>3. a \o bc \o e = a \o (bc \o e)
    BY <2>2, ListsAssociate, SMTT(30)
  <2> QED BY <2>1, <2>3 DEF bc
<1>2. IsList(rest)
  BY ListsJoin
<1> HIDE DEF rest
<1>3. Runs(a \o rest, n, P, x, y)
  BY <1>1
<1>4. \E z : Runs(a, n, P, x, z) /\ Runs(rest, n, P, z, y)
  BY <1>2, <1>3, RunsBoth
<1> QED BY <1>4 DEF rest

-----------------------------------------------------------------------------
(* What each statement does when it does not raise.                        *)

LEMMA DoesRegister ==
  ASSUME NEW t, NEW abstract, NEW source, NEW storage, NEW ordersrc, NEW sem, NEW n, NEW P, NEW x, NEW y,
         Runs(Register(t, abstract, source, storage, ordersrc, sem), n, P, x, y)
  PROVE  /\ ~Registered(x.d, t) /\ y.tmp = x.tmp
         /\ y.d = [x.d EXCEPT !["trees"] = @ \cup
              {[t |-> t, abstract |-> abstract, source |-> source, storage |-> storage,
                ordersrc |-> ordersrc, sem |-> sem, by |-> n]}]
<1> DEFINE st == [op |-> "register", t |-> t, abstract |-> abstract, source |-> source, storage |-> storage,
                  ordersrc |-> ordersrc, sem |-> sem]
<1>1. PICK p \in P : Does(x, st, n, p, y)
  BY RunsOne DEF Register
<1>2. ~Registered(x.d, t)
  BY <1>1 DEF Does, Raises
<1>3. y.tmp = x.tmp
  BY <1>1 DEF Does, Staged
<1>4. y.d = [x.d EXCEPT !["trees"] = @ \cup {TreeRecord(st, st.sem, n)}]
  BY <1>1 DEF Does, Effect
<1> QED BY <1>2, <1>3, <1>4 DEF TreeRecord

LEMMA DoesSetSemantic ==
  ASSUME NEW t, NEW sem, NEW n, NEW P, NEW x, NEW y, Runs(SetSemantic(t, sem), n, P, x, y)
  PROVE  /\ y.tmp = x.tmp
         /\ y.d = [x.d EXCEPT !["trees"] = {IF r.t = t THEN TreeRecord(r, sem, n) ELSE r : r \in @}]
<1> DEFINE st == [op |-> "set_semantic", t |-> t, sem |-> sem]
<1>1. PICK p \in P : Does(x, st, n, p, y)
  BY RunsOne DEF SetSemantic
<1>2. y.tmp = x.tmp
  BY <1>1 DEF Does, Staged
<1>3. y.d = [x.d EXCEPT !["trees"] = {IF r.t = st.t THEN TreeRecord(r, st.sem, n) ELSE r : r \in @}]
  BY <1>1 DEF Does, Effect
<1> QED BY <1>2, <1>3

LEMMA DoesInsert ==
  ASSUME NEW rel \in Keyless, NEW rows, NEW n, NEW P, NEW x, NEW y, Runs(InsertInto(rel, rows), n, P, x, y)
  PROVE  y.tmp = x.tmp /\ y.d = Insert(x.d, rel, rows, n)
<1> DEFINE st == [op |-> "insert", rel |-> rel, rows |-> rows]
<1>1. PICK p \in P : Does(x, st, n, p, y)
  BY RunsOne DEF InsertInto
<1>2. y.tmp = x.tmp
  BY <1>1 DEF Does, Staged
<1>3. y.d = Insert(x.d, st.rel, st.rows, n)
  BY <1>1 DEF Does, Effect
<1> QED BY <1>2, <1>3

LEMMA DoesDelete ==
  ASSUME NEW rel, NEW where, NEW n, NEW P, NEW x, NEW y, Runs(DeleteFrom(rel, where), n, P, x, y)
  PROVE  y.tmp = x.tmp /\ y.d = Without(x.d, rel, Select(x.d, rel, where))
<1> DEFINE st == [op |-> "delete", rel |-> rel, where |-> where]
<1>1. PICK p \in P : Does(x, st, n, p, y)
  BY RunsOne DEF DeleteFrom
<1>2. y.tmp = x.tmp
  BY <1>1 DEF Does, Staged
<1>3. y.d = Without(x.d, st.rel, Select(x.d, st.rel, st.where))
  BY <1>1 DEF Does, Effect
<1> QED BY <1>2, <1>3

Updated(rows, new) == {Assign(r, new) : r \in rows}

LEMMA DoesUpdate ==
  ASSUME NEW rel \in Keyless, NEW where, NEW new, NEW n, NEW P, NEW x, NEW y,
         Runs(Update(rel, where, new), n, P, x, y)
  PROVE  /\ y.tmp = x.tmp
         /\ y.d = Insert(Without(x.d, rel, Select(x.d, rel, where)), rel,
                         Updated(Select(x.d, rel, where), new), n)
<1> DEFINE st == [op |-> "update", rel |-> rel, where |-> where, new |-> new]
<1>1. PICK p \in P : Does(x, st, n, p, y)
  BY RunsOne DEF Update
<1>2. y.tmp = x.tmp
  BY <1>1 DEF Does, Staged
<1>3. y.d = Insert(Without(x.d, st.rel, Select(x.d, st.rel, st.where)), st.rel,
                   Updated(Select(x.d, st.rel, st.where), st.new), n)
  BY <1>1 DEF Does, Effect, Updated
<1> QED BY <1>2, <1>3

LEMMA DoesCheck ==
  ASSUME NEW defects, NEW src, NEW n, NEW P, NEW x, NEW y,
         Runs(<<[op |-> "check", defects |-> defects, src |-> src]>>, n, P, x, y)
  PROVE  /\ y.d = x.d /\ y.tmp = x.tmp
         /\ src # NULL => \A p \in Contents(x.d, src) : p.part.bad \cap defects = {}
         /\ src = NULL => \A p \in x.tmp.new : p.part.bad \cap defects = {}
<1> DEFINE st == [op |-> "check", defects |-> defects, src |-> src]
<1>1. PICK p \in P : Does(x, st, n, p, y)
  BY RunsOne
<1>2. y.tmp = x.tmp
  BY <1>1 DEF Does, Staged
<1>3. y.d = x.d
  BY <1>1 DEF Does, Effect
<1>4. \A q \in Subject(x.d, x.tmp, st) : q.part.bad \cap st.defects = {}
  BY <1>1 DEF Does, Raises
<1> QED BY <1>2, <1>3, <1>4 DEF Subject

LEMMA DoesFrozenGuard ==
  ASSUME NEW ordersrc, NEW n, NEW P, NEW x, NEW y, Runs(FrozenGuard(ordersrc), n, P, x, y)
  PROVE  /\ y.d = x.d /\ y.tmp = x.tmp
         /\ ordersrc = "frozen" => \E p \in P : p
<1> DEFINE st == [op |-> "frozen_guard"]
<1>1. CASE ordersrc = "frozen"
  <2>1. PICK p \in P : Does(x, st, n, p, y)
    BY <1>1, RunsOne DEF FrozenGuard, When
  <2>2. y.tmp = x.tmp
    BY <2>1 DEF Does, Staged
  <2>3. y.d = x.d
    BY <2>1 DEF Does, Effect
  <2>4. p
    BY <2>1 DEF Does, Raises
  <2> QED BY <2>2, <2>3, <2>4
<1>2. CASE ordersrc # "frozen"
  BY <1>2, RunsNothing DEF FrozenGuard, When
<1> QED BY <1>1, <1>2

LEMMA DoesProject ==
  ASSUME NEW op \in {"create_table", "replace_table"}, NEW t, NEW src, NEW ordersrc, NEW n, NEW P, NEW x, NEW y,
         Runs(Project(op, t, src, ordersrc), n, P, x, y)
  PROVE  /\ y.tmp = x.tmp
         /\ \E p \in P : y.d = MakeTable(x.d, Fold[t], Contents(x.d, src), ~p /\ (ordersrc = "frozen"), n)
<1> DEFINE st == [op |-> op, t |-> t, src |-> src, frozen |-> ordersrc = "frozen"]
<1>1. PICK p \in P : Does(x, st, n, p, y)
  BY RunsOne DEF Project
<1>2. y.tmp = x.tmp
  BY <1>1 DEF Does, Staged
<1>3. y.d = MakeTable(x.d, Fold[st.t], Contents(x.d, st.src), ~p /\ st.frozen, n)
  BY <1>1 DEF Does, Effect
<1> QED BY <1>2, <1>3

MacroOf(t, text) == {[m |-> Fold[t], text |-> text]}

LEMMA DoesMacro ==
  ASSUME NEW t, NEW text, NEW n, NEW P, NEW x, NEW y, Runs(Macro(t, text), n, P, x, y)
  PROVE  /\ y.tmp = x.tmp
         /\ y.d = Insert(Without(x.d, "macros", Entry(x.d, "macros", Fold[t])), "macros", MacroOf(t, text), n)
<1> DEFINE st == [op |-> "macro", t |-> t, text |-> text]
<1>1. PICK p \in P : Does(x, st, n, p, y)
  BY RunsOne DEF Macro
<1>2. y.tmp = x.tmp
  BY <1>1 DEF Does, Staged
<1>3. y.d = Insert(Without(x.d, "macros", Entry(x.d, "macros", Fold[st.t])), "macros",
                   {[m |-> Fold[st.t], text |-> st.text]}, n)
  BY <1>1 DEF Does, Effect
<1> QED BY <1>2, <1>3 DEF MacroOf

LEMMA DoesTreeSource ==
  ASSUME NEW op \in {"foreign_check", "drift_check"}, NEW t, NEW src, NEW n, NEW P, NEW x, NEW y,
         Runs(TreeSource(op, t, src), n, P, x, y)
  PROVE  y.d = x.d /\ y.tmp = x.tmp /\ (op = "drift_check" => ~Drifted(x.d, t, src))
<1> DEFINE st == [op |-> op, t |-> t, src |-> src]
<1>1. PICK p \in P : Does(x, st, n, p, y)
  BY RunsOne DEF TreeSource
<1>2. y.tmp = x.tmp
  BY <1>1 DEF Does, Staged
<1>3. y.d = x.d
  BY <1>1 DEF Does, Effect
<1>4. op = "drift_check" => ~Drifted(x.d, t, src)
  BY <1>1 DEF Does, Raises
<1> QED BY <1>2, <1>3, <1>4

\* What "attribute_columns" records of the macros M.
Columns(t, M) == {[t |-> t, art |-> "attribute_columns", text |-> r.text] : r \in M}

\* The stored rows, and the partitions on file, of the roots about to go.
RowsDoomed(d, tmp, m) == {r \in Stored(d, m) : r.root \in Doomed(tmp)}
PartsDoomed(d, tmp, t) == {q \in Select(d, "partitions", [t |-> t]) : q.root \in Doomed(tmp)}

\* The statements that name only their tree.
LEMMA DoesTree ==
  ASSUME NEW op \in {"count_partitions", "attribute_columns", "present_check", "delete_rows", "delete_partitions",
                     "insert_rows", "insert_partitions", "drop_macro", "drop_table"},
         NEW t, NEW n, NEW P, NEW x, NEW y, Runs(Tree(op, t), n, P, x, y)
  PROVE  LET m == Fold[t] IN
         /\ y.tmp = x.tmp
         /\ op = "count_partitions" => y.d = Insert(x.d, "partitions", NewPartitions(t, Stored(x.d, m), {}), n)
         /\ op = "attribute_columns" => y.d = Insert(x.d, "compiled", Columns(t, Entry(x.d, "macros", m)), n)
         /\ op = "present_check" => y.d = x.d /\ ~AlreadyPresent(x.d, x.tmp, t)
         /\ op = "delete_rows" => y.d = Without(x.d, "rows", RowsDoomed(x.d, x.tmp, m))
         /\ op = "delete_partitions" => y.d = Without(x.d, "partitions", PartsDoomed(x.d, x.tmp, t))
         /\ op = "insert_rows" => HasTable(x.d, m) /\ y.d = AppendRows(x.d, m, x.tmp.new, x.tmp.arb, n)
         /\ op = "insert_partitions" => y.d = Insert(x.d, "partitions", NewPartitions(t, x.tmp.new, x.tmp.epochs), n)
         /\ op = "drop_macro" => y.d = Without(x.d, "macros", Entry(x.d, "macros", m))
         /\ op = "drop_table" => y.d = DropTable(x.d, m)
<1> DEFINE st == [op |-> op, t |-> t]
<1> DEFINE m == Fold[t]
<1>1. PICK p \in P : Does(x, st, n, p, y)
  BY RunsOne DEF Tree
<1>2. y.tmp = x.tmp
  BY <1>1 DEF Does, Staged
<1>3. y.d = Effect(x.d, x.tmp, st, n, p) /\ ~Raises(x.d, x.tmp, st, p) /\ st.op = op /\ st.t = t
  BY <1>1 DEF Does
<1> HIDE DEF st
<1>4. op = "count_partitions" => y.d = Insert(x.d, "partitions", NewPartitions(t, Stored(x.d, m), {}), n)
  BY <1>3 DEF Effect
<1>5. op = "attribute_columns" => y.d = Insert(x.d, "compiled", Columns(t, Entry(x.d, "macros", m)), n)
  BY <1>3 DEF Effect, Columns
<1>6. op = "present_check" => y.d = x.d /\ ~AlreadyPresent(x.d, x.tmp, t)
  BY <1>3 DEF Effect, Raises
<1>7. op = "delete_rows" => y.d = Without(x.d, "rows", RowsDoomed(x.d, x.tmp, m))
  BY <1>3 DEF Effect, RowsDoomed
<1>8. op = "delete_partitions" => y.d = Without(x.d, "partitions", PartsDoomed(x.d, x.tmp, t))
  BY <1>3 DEF Effect, PartsDoomed
<1>9. op = "insert_rows" => HasTable(x.d, m) /\ y.d = AppendRows(x.d, m, x.tmp.new, x.tmp.arb, n)
  BY <1>3 DEF Effect, Raises
<1>10. op = "insert_partitions" => y.d = Insert(x.d, "partitions", NewPartitions(t, x.tmp.new, x.tmp.epochs), n)
  BY <1>3 DEF Effect
<1>11. op = "drop_macro" => y.d = Without(x.d, "macros", Entry(x.d, "macros", m))
  BY <1>3 DEF Effect
<1>12. op = "drop_table" => y.d = DropTable(x.d, m)
  BY <1>3 DEF Effect
<1> QED BY <1>2, <1>4, <1>5, <1>6, <1>7, <1>8, <1>9, <1>10, <1>11, <1>12

LEMMA DoesStageEpochs ==
  ASSUME NEW t, NEW n, NEW P, NEW x, NEW y, Runs(Tree("stage_epochs", t), n, P, x, y)
  PROVE  /\ y.d = x.d
         /\ y.tmp = [x.tmp EXCEPT !.epochs = {[root |-> q.root, epoch |-> q.epoch] :
              q \in {z \in Select(x.d, "partitions", [t |-> t]) : z.root \in Roots(x.tmp.new)}}]
<1> DEFINE st == [op |-> "stage_epochs", t |-> t]
<1>1. PICK p \in P : Does(x, st, n, p, y)
  BY RunsOne DEF Tree
<1>2. y.tmp = Staged(x.d, x.tmp, st, p) /\ y.d = Effect(x.d, x.tmp, st, n, p) /\ st.op = "stage_epochs" /\ st.t = t
  BY <1>1 DEF Does
<1> HIDE DEF st
<1>3. y.d = x.d
  BY <1>2 DEF Effect
<1>4. y.tmp = [x.tmp EXCEPT !.epochs = {[root |-> q.root, epoch |-> q.epoch] :
        q \in {z \in Select(x.d, "partitions", [t |-> st.t]) : z.root \in Roots(x.tmp.new)}}]
  BY <1>2 DEF Staged
<1> QED BY <1>2, <1>3, <1>4

StageGone(t, roots) == <<[op |-> "stage_gone", t |-> t, roots |-> roots]>>

LEMMA DoesStageGone ==
  ASSUME NEW t, NEW roots, NEW n, NEW P, NEW x, NEW y, Runs(StageGone(t, roots), n, P, x, y)
  PROVE  y.d = x.d /\ y.tmp = [x.tmp EXCEPT !.gone = Roots(Stored(x.d, Fold[t])) \cap roots]
<1> DEFINE st == [op |-> "stage_gone", t |-> t, roots |-> roots]
<1>1. PICK p \in P : Does(x, st, n, p, y)
  BY RunsOne DEF StageGone
<1> QED BY <1>1 DEF Does, Effect, Staged

LEMMA DoesDropStaged ==
  ASSUME NEW t, NEW n, NEW P, NEW x, NEW y, Runs(Tree("drop_staged", t), n, P, x, y)
  PROVE  y.d = x.d
<1> DEFINE st == [op |-> "drop_staged", t |-> t]
<1>1. PICK p \in P : Does(x, st, n, p, y)
  BY RunsOne DEF Tree
<1> QED BY <1>1 DEF Does, Effect

\* The verdict an "assert" statement records.
VerdictsOn(d, t, art, defect, rel) ==
  {Verdict(d, [op |-> "assert", t |-> t, art |-> art, defect |-> defect, rel |-> rel])}

LEMMA DoesAssert ==
  ASSUME NEW t, NEW art, NEW defect, NEW rel, NEW n, NEW P, NEW x, NEW y,
         Runs(<<[op |-> "assert", t |-> t, art |-> art, defect |-> defect, rel |-> rel]>>, n, P, x, y)
  PROVE  /\ y.tmp = x.tmp
         /\ y.d = Insert(x.d, "assertions", VerdictsOn(x.d, t, art, defect, rel), n)
<1> DEFINE st == [op |-> "assert", t |-> t, art |-> art, defect |-> defect, rel |-> rel]
<1>1. PICK p \in P : Does(x, st, n, p, y)
  BY RunsOne
<1>2. y.tmp = Staged(x.d, x.tmp, st, p) /\ y.d = Effect(x.d, x.tmp, st, n, p) /\ st.op = "assert"
  BY <1>1 DEF Does
<1>3. {Verdict(x.d, st)} = VerdictsOn(x.d, t, art, defect, rel)
  BY DEF VerdictsOn
<1> HIDE DEF st
<1>4. y.tmp = x.tmp /\ y.d = Insert(x.d, "assertions", {Verdict(x.d, st)}, n)
  BY <1>2 DEF Staged, Effect
<1> QED BY <1>3, <1>4

LEMMA DoesP13Ok ==
  ASSUME NEW t, NEW rel, NEW n, NEW P, NEW x, NEW y,
         Runs(<<[op |-> "p13_ok", t |-> t, rel |-> rel]>>, n, P, x, y)
  PROVE  y.tmp = x.tmp /\ y.d = RefreshOk(x.d, t, rel, n)
<1> DEFINE st == [op |-> "p13_ok", t |-> t, rel |-> rel]
<1>1. PICK p \in P : Does(x, st, n, p, y)
  BY RunsOne
<1>2. y.tmp = Staged(x.d, x.tmp, st, p) /\ y.d = Effect(x.d, x.tmp, st, n, p)
      /\ st.op = "p13_ok" /\ st.t = t /\ st.rel = rel
  BY <1>1 DEF Does
<1> HIDE DEF st
<1>3. y.tmp = x.tmp /\ y.d = RefreshOk(x.d, st.t, st.rel, n)
  BY <1>2 DEF Staged, Effect
<1> QED BY <1>2, <1>3

-----------------------------------------------------------------------------
(* Cells.  What the trees of one generated name keep in the database is    *)
(* all that a verb on one of them changes.                                 *)

\* The relations that hold the trees' own rows, and the generated name a row
\* belongs to: its cell of the database.
Cells == Relation \ {"source"}
Owner(rel, r) == IF rel \in {"tables", "macros", "rows"} THEN r.m ELSE Fold[r.t]
Cell(d, rel, m) == {r \in d[rel] : Owner(rel, r) = m}

\* e is d but for the cell of m.
Within(d, e, m) ==
  /\ DOMAIN e = Relation /\ e["source"] = d["source"]
  /\ \A rel \in Cells : \A k : k # m => Cell(e, rel, k) = Cell(d, rel, k)

LEMMA WithinBoth ==
  ASSUME NEW d, NEW e, NEW g, NEW m, Within(d, e, m), Within(e, g, m)
  PROVE  Within(d, g, m)
BY DEF Within

LEMMA SelectTree ==
  ASSUME NEW d, NEW rel, NEW t
  PROVE  Select(d, rel, [t |-> t]) = {r \in d[rel] : r.t = t}
BY DEF Select, Matches

LEMMA EntryIsCell ==
  ASSUME NEW d, NEW rel \in {"tables", "macros", "rows"}, NEW m
  PROVE  Entry(d, rel, m) = Cell(d, rel, m)
BY DEF Entry, Select, Matches, Cell, Owner

LEMMA StampKeeps ==
  ASSUME NEW r, NEW n
  PROVE  /\ DOMAIN Stamp(r, n) = DOMAIN r \cup {"by"} /\ Stamp(r, n).by = n
         /\ \A f \in DOMAIN r \ {"by"} : Stamp(r, n)[f] = r[f]
BY DEF Stamp

\* The cell of m, as a function of the relation, and what may be made of one.
CellOf(d, m) == [rel \in Cells |-> Cell(d, rel, m)]
Put(C, rel, X) == [C EXCEPT ![rel] = X]
Add(C, rel, X) == [C EXCEPT ![rel] = @ \cup X]
Cut(C, rel, X) == [C EXCEPT ![rel] = @ \ X]

\* e is d but for the cell of m, which is C.
Turns(d, e, m, C) == Within(d, e, m) /\ CellOf(e, m) = C

LEMMA RelationsAreCells ==
  /\ "trees" \in Cells /\ "slots" \in Cells /\ "predicates" \in Cells /\ "compiled" \in Cells
  /\ "partitions" \in Cells /\ "assertions" \in Cells /\ "tables" \in Cells /\ "rows" \in Cells /\ "macros" \in Cells
BY DEF Cells, Relation

LEMMA CellIn ==
  \A d, m : DOMAIN CellOf(d, m) = Cells /\ \A rel \in Cells : CellOf(d, m)[rel] = Cell(d, rel, m)
BY DEF CellOf

LEMMA TurnsDomain ==
  ASSUME NEW d, NEW e, NEW m, NEW C, Turns(d, e, m, C)
  PROVE  DOMAIN e = Relation /\ e["source"] = d["source"] /\ CellOf(e, m) = C
BY DEF Turns, Within

LEMMA TurnsBoth ==
  ASSUME NEW d, NEW e, NEW g, NEW m, NEW C, NEW D, Turns(d, e, m, C), Turns(e, g, m, D)
  PROVE  Turns(d, g, m, D)
BY WithinBoth DEF Turns

LEMMA TurnsNothing ==
  ASSUME NEW d, DOMAIN d = Relation, NEW m
  PROVE  Turns(d, d, m, CellOf(d, m))
BY DEF Turns, Within

\* INSERT of rows of the cell.
LEMMA TurnsInsert ==
  ASSUME NEW d, DOMAIN d = Relation, NEW rel \in Cells, NEW rows, NEW n, NEW m, NEW X,
         \A r : r \in X <=> \E q \in rows : r = Stamp(q, n),
         \A r \in X : Owner(rel, r) = m
  PROVE  Turns(d, Insert(d, rel, rows, n), m, Add(CellOf(d, m), rel, X))
<1> DEFINE e == Insert(d, rel, rows, n)
<1>0. {Stamp(q, n) : q \in rows} = X
  OBVIOUS
<1>1. DOMAIN e = Relation /\ e[rel] = d[rel] \cup X /\ \A other \in Relation \ {rel} : e[other] = d[other]
  BY <1>0 DEF Insert, Cells
<1> HIDE DEF e
<1>3. Cell(e, rel, m) = Cell(d, rel, m) \cup X /\ \A k : k # m => Cell(e, rel, k) = Cell(d, rel, k)
  BY <1>1 DEF Cell
<1>4. \A other \in Cells \ {rel} : \A k : Cell(e, other, k) = Cell(d, other, k)
  BY <1>1 DEF Cell, Cells
<1>5. e["source"] = d["source"]
  BY <1>1 DEF Cells, Relation
<1>6. Within(d, e, m)
  BY <1>1, <1>3, <1>4, <1>5 DEF Within
<1>7. CellOf(e, m) = Add(CellOf(d, m), rel, X)
  BY <1>3, <1>4 DEF CellOf, Add
<1> QED BY <1>6, <1>7 DEF Turns, e

\* DELETE of rows of the cell.
LEMMA TurnsWithout ==
  ASSUME NEW d, DOMAIN d = Relation, NEW rel \in Cells, NEW X, NEW m, \A r \in X : Owner(rel, r) = m
  PROVE  Turns(d, Without(d, rel, X), m, Cut(CellOf(d, m), rel, X))
<1> DEFINE e == Without(d, rel, X)
<1>1. DOMAIN e = Relation /\ e[rel] = d[rel] \ X /\ \A other \in Relation \ {rel} : e[other] = d[other]
  BY DEF Without, Cells
<1> HIDE DEF e
<1>3. Cell(e, rel, m) = Cell(d, rel, m) \ X /\ \A k : k # m => Cell(e, rel, k) = Cell(d, rel, k)
  BY <1>1 DEF Cell
<1>4. \A other \in Cells \ {rel} : \A k : Cell(e, other, k) = Cell(d, other, k)
  BY <1>1 DEF Cell, Cells
<1>5. e["source"] = d["source"]
  BY <1>1 DEF Cells, Relation
<1>6. Within(d, e, m)
  BY <1>1, <1>3, <1>4, <1>5 DEF Within
<1>7. CellOf(e, m) = Cut(CellOf(d, m), rel, X)
  BY <1>3, <1>4 DEF CellOf, Cut
<1> QED BY <1>6, <1>7 DEF Turns, e

\* Any change of one relation that keeps the other cells' rows.
LEMMA TurnsSet ==
  ASSUME NEW d, DOMAIN d = Relation, NEW rel \in Cells, NEW X, NEW m, NEW Z,
         \A r : Owner(rel, r) # m => (r \in X <=> r \in d[rel]),
         \A r : r \in Z <=> r \in X /\ Owner(rel, r) = m
  PROVE  Turns(d, [d EXCEPT ![rel] = X], m, Put(CellOf(d, m), rel, Z))
<1> DEFINE e == [d EXCEPT ![rel] = X]
<1>1. DOMAIN e = Relation /\ e[rel] = X /\ \A other \in Relation \ {rel} : e[other] = d[other]
  BY DEF Cells
<1> HIDE DEF e
<1>3. Cell(e, rel, m) = Z /\ \A k : k # m => Cell(e, rel, k) = Cell(d, rel, k)
  BY <1>1 DEF Cell
<1>4. \A other \in Cells \ {rel} : \A k : Cell(e, other, k) = Cell(d, other, k)
  BY <1>1 DEF Cell, Cells
<1>5. e["source"] = d["source"]
  BY <1>1 DEF Cells, Relation
<1>6. Within(d, e, m)
  BY <1>1, <1>3, <1>4, <1>5 DEF Within
<1>7. CellOf(e, m) = Put(CellOf(d, m), rel, Z)
  BY <1>3, <1>4 DEF CellOf, Put
<1> QED BY <1>6, <1>7 DEF Turns, e

\* The table of a name and its rows, as they stand in the database.
TablesOnFile(m, n) == {[m |-> m, by |-> n]}
RowsOf(m, v, parts, arb, n) ==
  {[m |-> m, v |-> v, root |-> p.root, part |-> p.part, arb |-> arb, by |-> n] : p \in parts}
NoTable(C) == Put(Put(C, "tables", {}), "rows", {})
NewTable(C, tables, rows) == Put(Put(C, "tables", tables), "rows", rows)

LEMMA StampedRows ==
  ASSUME NEW m, NEW v, NEW parts, NEW arb, NEW n
  PROVE  /\ \A r : r \in RowsOf(m, v, parts, arb, n) <=> \E q \in TableRows(m, v, parts, arb) : r = Stamp(q, n)
         /\ \A r \in RowsOf(m, v, parts, arb, n) : Owner("rows", r) = m
<1> DEFINE R(p) == [m |-> m, v |-> v, root |-> p.root, part |-> p.part, arb |-> arb]
<1>1. ASSUME NEW p \in parts
      PROVE  Stamp(R(p), n) = [m |-> m, v |-> v, root |-> p.root, part |-> p.part, arb |-> arb, by |-> n]
  BY DEF Stamp
<1>2. {Stamp(r, n) : r \in TableRows(m, v, parts, arb)} = {Stamp(R(p), n) : p \in parts}
  BY DEF TableRows
<1>3. {Stamp(r, n) : r \in TableRows(m, v, parts, arb)} = RowsOf(m, v, parts, arb, n)
  BY <1>1, <1>2 DEF RowsOf
<1>4. \A r \in RowsOf(m, v, parts, arb, n) : Owner("rows", r) = m
  BY DEF RowsOf, Owner
<1> QED BY <1>3, <1>4

LEMMA StampedEntry ==
  ASSUME NEW m, NEW n
  PROVE  /\ \A r : r \in TablesOnFile(m, n) <=> \E q \in {[m |-> m]} : r = Stamp(q, n)
         /\ \A r \in TablesOnFile(m, n) : Owner("tables", r) = m
BY DEF Stamp, TablesOnFile, Owner

\* DROP TABLE IF EXISTS.
LEMMA TurnsDropTable ==
  ASSUME NEW d, DOMAIN d = Relation, NEW m
  PROVE  Turns(d, DropTable(d, m), m, NoTable(CellOf(d, m)))
<1> DEFINE T == Entry(d, "tables", m)
<1> DEFINE R == Entry(d, "rows", m)
<1> DEFINE f == Without(d, "tables", T)
<1> DEFINE e == Without(f, "rows", R)
<1>1. T = Cell(d, "tables", m) /\ R = Cell(d, "rows", m)
  BY EntryIsCell
<1>2. (\A r \in T : Owner("tables", r) = m) /\ (\A r \in R : Owner("rows", r) = m)
  BY <1>1 DEF Cell
<1> HIDE DEF T, R
<1>3. Turns(d, f, m, Cut(CellOf(d, m), "tables", T))
  BY <1>2, RelationsAreCells, TurnsWithout
<1> HIDE DEF f
<1>4. DOMAIN f = Relation
  BY <1>3 DEF Turns, Within
<1>5. Turns(f, e, m, Cut(CellOf(f, m), "rows", R))
  BY <1>2, <1>4, RelationsAreCells, TurnsWithout
<1>6. e = DropTable(d, m)
  BY DEF DropTable, e, f, T, R
<1> HIDE DEF e
<1>7. Cut(CellOf(f, m), "rows", R) = NoTable(CellOf(d, m))
  <2> DEFINE C == CellOf(d, m)
  <2> DEFINE D == CellOf(f, m)
  <2>1. DOMAIN C = Cells /\ C["tables"] = T /\ C["rows"] = R /\ D = Cut(C, "tables", T)
    BY <1>1, <1>3, CellIn, RelationsAreCells DEF Turns
  <2> HIDE DEF C, D
  <2>2. Cut(D, "rows", R) = NoTable(C)
    BY <2>1, RelationsAreCells DEF Cut, NoTable, Put
  <2> QED BY <2>2 DEF C, D
<1> QED BY <1>3, <1>5, <1>6, <1>7, TurnsBoth

\* CREATE [OR REPLACE] TABLE ... AS.
LEMMA TurnsMakeTable ==
  ASSUME NEW d, DOMAIN d = Relation, NEW m, NEW parts, NEW arb, NEW n
  PROVE  Turns(d, MakeTable(d, m, parts, arb, n), m,
               NewTable(CellOf(d, m), TablesOnFile(m, n), RowsOf(m, n, parts, arb, n)))
<1> DEFINE T == {[m |-> m]}
<1> DEFINE R == TableRows(m, n, parts, arb)
<1> DEFINE f == DropTable(d, m)
<1> DEFINE g == Insert(f, "tables", T, n)
<1> DEFINE e == Insert(g, "rows", R, n)
<1> DEFINE U == TablesOnFile(m, n)
<1> DEFINE V == RowsOf(m, n, parts, arb, n)
<1>1. /\ \A r : r \in U <=> \E q \in T : r = Stamp(q, n)
      /\ \A r \in U : Owner("tables", r) = m
  BY StampedEntry
<1>2. /\ \A r : r \in V <=> \E q \in R : r = Stamp(q, n)
      /\ \A r \in V : Owner("rows", r) = m
  BY StampedRows
<1>3. Turns(d, f, m, NoTable(CellOf(d, m)))
  BY TurnsDropTable
<1>6. e = MakeTable(d, m, parts, arb, n)
  BY DEF MakeTable
<1> HIDE DEF T, R, f, U, V
<1>4. DOMAIN f = Relation
  BY <1>3 DEF Turns, Within
<1>7. Turns(f, g, m, Add(CellOf(f, m), "tables", U))
  BY <1>1, <1>4, RelationsAreCells, TurnsInsert
<1> HIDE DEF g
<1>8. DOMAIN g = Relation
  BY <1>7 DEF Turns, Within
<1>9. Turns(g, e, m, Add(CellOf(g, m), "rows", V))
  BY <1>2, <1>8, RelationsAreCells, TurnsInsert
<1> HIDE DEF e
<1>10. Add(CellOf(g, m), "rows", V) = NewTable(CellOf(d, m), U, V)
  <2> DEFINE C == CellOf(d, m)
  <2> DEFINE D == CellOf(f, m)
  <2> DEFINE E == CellOf(g, m)
  <2>1. DOMAIN C = Cells /\ D = NoTable(C) /\ E = Add(D, "tables", U)
    BY <1>3, <1>7, CellIn DEF Turns
  <2> HIDE DEF C, D, E
  <2>2. Add(E, "rows", V) = NewTable(C, U, V)
    BY <2>1, RelationsAreCells DEF Add, NoTable, NewTable, Put
  <2> QED BY <2>2 DEF C, E
<1> QED BY <1>3, <1>6, <1>7, <1>9, <1>10, TurnsBoth DEF U, V

-----------------------------------------------------------------------------
(* What each statement makes of its tree's cell.                           *)

\* The rows of the catalog, as written.
TreesOnFile(t, abstract, source, storage, ordersrc, sem, n) ==
  {[t |-> t, abstract |-> abstract, source |-> source, storage |-> storage,
    ordersrc |-> ordersrc, sem |-> sem, by |-> n]}
SlotsOnFile(t, slots, which, n) == {[t |-> t, b |-> Block(slots, s), s |-> s, by |-> n] : s \in which}
PredsOnFile(t, preds, n) == {[t |-> t, p |-> p, by |-> n] : p \in preds}
TextOnFile(t, art, text, n) == [t |-> t, art |-> art, text |-> text, by |-> n]
TextsOnFile(t, art, macros, n) == {TextOnFile(t, art, r.text, n) : r \in macros}
MacrosOnFile(m, text, n) == {[m |-> m, text |-> text, by |-> n]}

LEMMA RunsRegister ==
  ASSUME NEW t, NEW abstract, NEW source, NEW storage, NEW ordersrc, NEW sem, NEW n, NEW P, NEW x, NEW y,
         DOMAIN x.d = Relation, Runs(Register(t, abstract, source, storage, ordersrc, sem), n, P, x, y)
  PROVE  /\ y.tmp = x.tmp
         /\ Turns(x.d, y.d, Fold[t],
                  Add(CellOf(x.d, Fold[t]), "trees", TreesOnFile(t, abstract, source, storage, ordersrc, sem, n)))
<1> DEFINE R == TreesOnFile(t, abstract, source, storage, ordersrc, sem, n)
<1> DEFINE X == x.d["trees"] \cup R
<1> DEFINE m == Fold[t]
<1> DEFINE d == x.d
<1>1. y.tmp = x.tmp /\ y.d = [d EXCEPT !["trees"] = X] /\ DOMAIN d = Relation
  BY DoesRegister DEF TreesOnFile
<1>2. \A r \in R : Owner("trees", r) = m
  BY DEF Owner, TreesOnFile
<1> DEFINE Z == Cell(d, "trees", m) \cup R
<1> HIDE DEF R, m
<1>3. /\ \A q : Owner("trees", q) # m => (q \in X <=> q \in d["trees"])
      /\ \A q : q \in Z <=> q \in X /\ Owner("trees", q) = m
  BY <1>2 DEF Cell
<1> HIDE DEF X, Z, d
<1>4. Turns(d, [d EXCEPT !["trees"] = X], m, Put(CellOf(d, m), "trees", Z))
  BY <1>1, <1>3, RelationsAreCells, TurnsSet
<1>5. Put(CellOf(d, m), "trees", Z) = Add(CellOf(d, m), "trees", R)
  <2> DEFINE C == CellOf(d, m)
  <2>1. DOMAIN C = Cells /\ Z = C["trees"] \cup R
    BY CellIn, RelationsAreCells DEF Z
  <2> HIDE DEF C
  <2>2. Put(C, "trees", Z) = Add(C, "trees", R)
    BY <2>1 DEF Put, Add
  <2> QED BY <2>2 DEF C
<1> QED BY <1>1, <1>4, <1>5 DEF R, m, d

\* The flag set on the row of t.
Flagged(trees, t, sem, n) == {IF r.t = t THEN TreeRecord(r, sem, n) ELSE r : r \in trees}

LEMMA RunsSemantic ==
  ASSUME NEW t, NEW sem, NEW n, NEW P, NEW x, NEW y, DOMAIN x.d = Relation, Runs(SetSemantic(t, sem), n, P, x, y)
  PROVE  /\ y.tmp = x.tmp
         /\ Turns(x.d, y.d, Fold[t],
                  Put(CellOf(x.d, Fold[t]), "trees", Flagged(Cell(x.d, "trees", Fold[t]), t, sem, n)))
<1> DEFINE g(r) == IF r.t = t THEN TreeRecord(r, sem, n) ELSE r
<1> DEFINE d == x.d
<1> DEFINE m == Fold[t]
<1> DEFINE X == {g(r) : r \in d["trees"]}
<1>1. y.tmp = x.tmp /\ y.d = [d EXCEPT !["trees"] = X] /\ DOMAIN d = Relation
  BY RelationsAreCells, DoesSetSemantic DEF Cells
<1>2. \A r : Owner("trees", g(r)) = Owner("trees", r)
  BY DEF Owner, TreeRecord
<1>3. \A r : Fold[r.t] # m => g(r) = r
  OBVIOUS
<1> DEFINE Z == {g(r) : r \in Cell(d, "trees", m)}
<1>6. Z = Flagged(Cell(d, "trees", m), t, sem, n)
  BY DEF Flagged
<1> HIDE DEF g, m, d
<1>4. \A q : q \in Z <=> q \in X /\ Owner("trees", q) = m
  BY <1>2 DEF Cell
<1>5. \A q : Owner("trees", q) # m => (q \in X <=> q \in d["trees"])
  BY <1>2, <1>3 DEF Owner
<1> HIDE DEF X, Z
<1>7. Turns(d, [d EXCEPT !["trees"] = X], m, Put(CellOf(d, m), "trees", Z))
  BY <1>1, <1>4, <1>5, RelationsAreCells, TurnsSet
<1> QED BY <1>1, <1>6, <1>7 DEF m, d

LEMMA RunsSlots ==
  ASSUME NEW t, NEW slots, NEW which, NEW n, NEW P, NEW x, NEW y,
         DOMAIN x.d = Relation, Runs(InsertInto("slots", SlotRows(t, slots, which)), n, P, x, y)
  PROVE  /\ y.tmp = x.tmp
         /\ Turns(x.d, y.d, Fold[t], Add(CellOf(x.d, Fold[t]), "slots", SlotsOnFile(t, slots, which, n)))
<1>1. y.tmp = x.tmp /\ y.d = Insert(x.d, "slots", SlotRows(t, slots, which), n)
  BY DoesInsert DEF Keyless, Relation
<1> DEFINE R(s) == [t |-> t, b |-> Block(slots, s), s |-> s]
<1>2. \A s : Stamp(R(s), n) = [t |-> t, b |-> Block(slots, s), s |-> s, by |-> n]
  BY DEF Stamp
<1>3. {Stamp(r, n) : r \in SlotRows(t, slots, which)} = {Stamp(R(s), n) : s \in which}
  BY DEF SlotRows
<1> DEFINE X == SlotsOnFile(t, slots, which, n)
<1> DEFINE rows == SlotRows(t, slots, which)
<1> DEFINE m == Fold[t]
<1>4. (\A r : r \in X <=> \E q \in rows : r = Stamp(q, n)) /\ \A r \in X : Owner("slots", r) = m
  <2>1. {Stamp(r, n) : r \in rows} = X
    BY <1>2, <1>3 DEF SlotsOnFile
  <2>2. \A r \in X : Owner("slots", r) = m
    BY DEF SlotsOnFile, Owner
  <2> HIDE DEF X, rows
  <2> QED BY <2>1, <2>2
<1> HIDE DEF X, rows, m
<1>5. Turns(x.d, Insert(x.d, "slots", rows, n), m, Add(CellOf(x.d, m), "slots", X))
  BY <1>4, RelationsAreCells, TurnsInsert
<1> QED BY <1>1, <1>5 DEF X, rows, m

LEMMA RunsPredicates ==
  ASSUME NEW t, NEW preds, NEW n, NEW P, NEW x, NEW y,
         DOMAIN x.d = Relation, Runs(InsertInto("predicates", PredRows(t, preds)), n, P, x, y)
  PROVE  /\ y.tmp = x.tmp
         /\ Turns(x.d, y.d, Fold[t], Add(CellOf(x.d, Fold[t]), "predicates", PredsOnFile(t, preds, n)))
<1>1. y.tmp = x.tmp /\ y.d = Insert(x.d, "predicates", PredRows(t, preds), n)
  BY DoesInsert DEF Keyless, Relation
<1> DEFINE R(p) == [t |-> t, p |-> p]
<1>2. \A p : Stamp(R(p), n) = [t |-> t, p |-> p, by |-> n]
  BY DEF Stamp
<1>3. {Stamp(r, n) : r \in PredRows(t, preds)} = {Stamp(R(p), n) : p \in preds}
  BY DEF PredRows
<1> DEFINE X == PredsOnFile(t, preds, n)
<1> DEFINE rows == PredRows(t, preds)
<1> DEFINE m == Fold[t]
<1>4. (\A r : r \in X <=> \E q \in rows : r = Stamp(q, n)) /\ \A r \in X : Owner("predicates", r) = m
  <2>1. {Stamp(r, n) : r \in rows} = X
    BY <1>2, <1>3 DEF PredsOnFile
  <2>2. \A r \in X : Owner("predicates", r) = m
    BY DEF PredsOnFile, Owner
  <2> HIDE DEF X, rows
  <2> QED BY <2>1, <2>2
<1> HIDE DEF X, rows, m
<1>5. Turns(x.d, Insert(x.d, "predicates", rows, n), m, Add(CellOf(x.d, m), "predicates", X))
  BY <1>4, RelationsAreCells, TurnsInsert
<1> QED BY <1>1, <1>5 DEF X, rows, m

\* ... which create and alter leave out when there is none.
LEMMA RunsPreds ==
  ASSUME NEW t, NEW preds, NEW c, c <=> preds # {}, NEW n, NEW P, NEW x, NEW y, DOMAIN x.d = Relation,
         Runs(When(c, InsertInto("predicates", PredRows(t, preds))), n, P, x, y)
  PROVE  /\ y.tmp = x.tmp
         /\ Turns(x.d, y.d, Fold[t], Add(CellOf(x.d, Fold[t]), "predicates", PredsOnFile(t, preds, n)))
<1>1. CASE c
  <2>1. Runs(InsertInto("predicates", PredRows(t, preds)), n, P, x, y)
    BY <1>1 DEF When
  <2> QED BY <2>1, RunsPredicates
<1>2. CASE ~c
  <2>1. y = x
    BY <1>2, RunsNothing DEF When
  <2> DEFINE C == CellOf(x.d, Fold[t])
  <2>2. PredsOnFile(t, preds, n) = {} /\ DOMAIN C = Cells /\ C = [rel \in Cells |-> C[rel]]
    BY <1>2 DEF PredsOnFile, CellOf
  <2>3. Turns(x.d, x.d, Fold[t], C)
    BY TurnsNothing
  <2> HIDE DEF C
  <2>4. Add(C, "predicates", PredsOnFile(t, preds, n)) = C
    BY <2>2 DEF Add
  <2> QED BY <2>1, <2>3, <2>4 DEF C
<1> QED BY <1>1, <1>2

LEMMA RunsProjection ==
  ASSUME NEW t, NEW text, NEW n, NEW P, NEW x, NEW y, DOMAIN x.d = Relation,
         Runs(InsertInto("compiled", {[t |-> t, art |-> "projection", text |-> text]}), n, P, x, y)
  PROVE  /\ y.tmp = x.tmp
         /\ Turns(x.d, y.d, Fold[t], Add(CellOf(x.d, Fold[t]), "compiled", {TextOnFile(t, "projection", text, n)}))
<1> DEFINE r == [t |-> t, art |-> "projection", text |-> text]
<1> DEFINE rows == {r}
<1> DEFINE m == Fold[t]
<1> DEFINE w == TextOnFile(t, "projection", text, n)
<1> DEFINE X == {w}
<1>1. y.tmp = x.tmp /\ y.d = Insert(x.d, "compiled", rows, n)
  BY DoesInsert DEF Keyless, Relation
<1>2. Stamp(r, n) = w
  BY DEF Stamp, TextOnFile
<1>3. Owner("compiled", w) = m
  BY DEF Owner, TextOnFile
<1> HIDE DEF r, w, m
<1>4. (\A q : q \in X <=> \E z \in rows : q = Stamp(z, n)) /\ \A q \in X : Owner("compiled", q) = m
  BY <1>2, <1>3
<1> HIDE DEF X, rows
<1>5. Turns(x.d, Insert(x.d, "compiled", rows, n), m, Add(CellOf(x.d, m), "compiled", X))
  BY <1>4, RelationsAreCells, TurnsInsert
<1> QED BY <1>1, <1>5 DEF X, rows, m, w

LEMMA RunsColumns ==
  ASSUME NEW t, NEW n, NEW P, NEW x, NEW y, DOMAIN x.d = Relation, Runs(Tree("attribute_columns", t), n, P, x, y)
  PROVE  /\ y.tmp = x.tmp
         /\ Turns(x.d, y.d, Fold[t], Add(CellOf(x.d, Fold[t]), "compiled",
              TextsOnFile(t, "attribute_columns", Cell(x.d, "macros", Fold[t]), n)))
<1> DEFINE m == Fold[t]
<1> DEFINE M == Cell(x.d, "macros", m)
<1>0. Entry(x.d, "macros", m) = M
  BY EntryIsCell
<1>1. y.tmp = x.tmp /\ y.d = Insert(x.d, "compiled", Columns(t, M), n)
  BY <1>0, DoesTree
<1> DEFINE X == TextsOnFile(t, "attribute_columns", M, n)
<1> DEFINE rows == Columns(t, M)
<1> HIDE DEF M
<1>2. \A r : Stamp([t |-> t, art |-> "attribute_columns", text |-> r.text], n)
             = TextOnFile(t, "attribute_columns", r.text, n)
  BY DEF Stamp, TextOnFile
<1>3. {Stamp(q, n) : q \in Columns(t, M)}
      = {Stamp([t |-> t, art |-> "attribute_columns", text |-> r.text], n) : r \in M}
  BY DEF Columns
<1>4. (\A q : q \in X <=> \E z \in rows : q = Stamp(z, n)) /\ \A q \in X : Owner("compiled", q) = m
  <2>1. {Stamp(r, n) : r \in rows} = X
    BY <1>2, <1>3 DEF TextsOnFile
  <2>2. \A r \in X : Owner("compiled", r) = m
    BY DEF TextsOnFile, Owner, TextOnFile
  <2> HIDE DEF X, rows
  <2> QED BY <2>1, <2>2
<1> HIDE DEF X, rows, m
<1>5. Turns(x.d, Insert(x.d, "compiled", rows, n), m, Add(CellOf(x.d, m), "compiled", X))
  BY <1>4, RelationsAreCells, TurnsInsert
<1> QED BY <1>1, <1>5 DEF X, rows, m, M

LEMMA RunsMacro ==
  ASSUME NEW t, NEW text, NEW n, NEW P, NEW x, NEW y, DOMAIN x.d = Relation, Runs(Macro(t, text), n, P, x, y)
  PROVE  /\ y.tmp = x.tmp
         /\ Turns(x.d, y.d, Fold[t], Put(CellOf(x.d, Fold[t]), "macros", MacrosOnFile(Fold[t], text, n)))
<1> DEFINE m == Fold[t]
<1> DEFINE M == Entry(x.d, "macros", m)
<1> DEFINE f == Without(x.d, "macros", M)
<1> DEFINE rows == MacroOf(t, text)
<1> DEFINE X == MacrosOnFile(m, text, n)
<1>0. M = Cell(x.d, "macros", m) /\ \A q \in M : Owner("macros", q) = m
  BY EntryIsCell DEF Cell
<1>1. y.tmp = x.tmp /\ y.d = Insert(f, "macros", rows, n)
  BY DoesMacro
<1>2. (\A q : q \in X <=> \E z \in rows : q = Stamp(z, n)) /\ \A q \in X : Owner("macros", q) = m
  BY DEF MacrosOnFile, MacroOf, Stamp, Owner
<1> HIDE DEF M, rows, X, m
<1>3. Turns(x.d, f, m, Cut(CellOf(x.d, m), "macros", M))
  BY <1>0, RelationsAreCells, TurnsWithout
<1> HIDE DEF f
<1>4. DOMAIN f = Relation
  BY <1>3, TurnsDomain
<1>5. Turns(f, Insert(f, "macros", rows, n), m, Add(CellOf(f, m), "macros", X))
  BY <1>2, <1>4, RelationsAreCells, TurnsInsert
<1>6. Add(CellOf(f, m), "macros", X) = Put(CellOf(x.d, m), "macros", X)
  <2> DEFINE C == CellOf(x.d, m)
  <2> DEFINE D == CellOf(f, m)
  <2>1. DOMAIN C = Cells /\ C["macros"] = M /\ D = Cut(C, "macros", M)
    BY <1>0, <1>3, CellIn, RelationsAreCells DEF Turns
  <2> HIDE DEF C, D
  <2>2. Add(D, "macros", X) = Put(C, "macros", X)
    BY <2>1, RelationsAreCells DEF Add, Cut, Put
  <2> QED BY <2>2 DEF C, D
<1> QED BY <1>1, <1>3, <1>5, <1>6, TurnsBoth DEF X, m

\* Is the order of a new table that of no declaration and no kept insertion order?
Loose(p, ordersrc) == ~p /\ ordersrc = "frozen"

LEMMA RunsTable ==
  ASSUME NEW op \in {"create_table", "replace_table"}, NEW t, NEW src, NEW ordersrc, NEW n, NEW P, NEW x, NEW y,
         DOMAIN x.d = Relation, Runs(Project(op, t, src, ordersrc), n, P, x, y)
  PROVE  /\ y.tmp = x.tmp
         /\ \E p \in P : Turns(x.d, y.d, Fold[t],
              NewTable(CellOf(x.d, Fold[t]), TablesOnFile(Fold[t], n),
                       RowsOf(Fold[t], n, Contents(x.d, src), Loose(p, ordersrc), n)))
<1>1. y.tmp = x.tmp /\ \E p \in P : y.d = MakeTable(x.d, Fold[t], Contents(x.d, src), ~p /\ (ordersrc = "frozen"), n)
  BY DoesProject
<1>2. PICK p \in P : y.d = MakeTable(x.d, Fold[t], Contents(x.d, src), ~p /\ (ordersrc = "frozen"), n)
  BY <1>1
<1> DEFINE m == Fold[t]
<1> DEFINE d == x.d
<1> DEFINE parts == Contents(d, src)
<1> DEFINE arb == Loose(p, ordersrc)
<1>3. y.d = MakeTable(d, m, parts, arb, n) /\ DOMAIN d = Relation
  BY <1>2 DEF Loose
<1> HIDE DEF m, d, parts, arb
<1>4. Turns(d, y.d, m, NewTable(CellOf(d, m), TablesOnFile(m, n), RowsOf(m, n, parts, arb, n)))
  BY <1>3, TurnsMakeTable
<1> QED BY <1>1, <1>4 DEF m, d, parts, arb

LEMMA RunsDropMacro ==
  ASSUME NEW t, NEW n, NEW P, NEW x, NEW y, DOMAIN x.d = Relation, Runs(Tree("drop_macro", t), n, P, x, y)
  PROVE  y.tmp = x.tmp /\ Turns(x.d, y.d, Fold[t], Put(CellOf(x.d, Fold[t]), "macros", {}))
<1> DEFINE m == Fold[t]
<1> DEFINE M == Entry(x.d, "macros", m)
<1>1. y.tmp = x.tmp /\ y.d = Without(x.d, "macros", M)
  BY DoesTree
<1>2. M = Cell(x.d, "macros", m) /\ \A q \in M : Owner("macros", q) = m
  BY EntryIsCell DEF Cell
<1> HIDE DEF M, m
<1>3. Turns(x.d, Without(x.d, "macros", M), m, Cut(CellOf(x.d, m), "macros", M))
  BY <1>2, RelationsAreCells, TurnsWithout
<1>4. Cut(CellOf(x.d, m), "macros", M) = Put(CellOf(x.d, m), "macros", {})
  <2> DEFINE C == CellOf(x.d, m)
  <2>1. DOMAIN C = Cells /\ C["macros"] = M
    BY <1>2, CellIn, RelationsAreCells
  <2> HIDE DEF C
  <2>2. Cut(C, "macros", M) = Put(C, "macros", {})
    BY <2>1, RelationsAreCells DEF Cut, Put
  <2> QED BY <2>2 DEF C
<1> QED BY <1>1, <1>3, <1>4 DEF m

LEMMA RunsDropTable ==
  ASSUME NEW t, NEW n, NEW P, NEW x, NEW y, DOMAIN x.d = Relation, Runs(Tree("drop_table", t), n, P, x, y)
  PROVE  y.tmp = x.tmp /\ Turns(x.d, y.d, Fold[t], NoTable(CellOf(x.d, Fold[t])))
<1>1. y.tmp = x.tmp /\ y.d = DropTable(x.d, Fold[t])
  BY DoesTree
<1> DEFINE m == Fold[t]
<1> HIDE DEF m
<1>2. Turns(x.d, DropTable(x.d, m), m, NoTable(CellOf(x.d, m)))
  BY TurnsDropTable
<1> QED BY <1>1, <1>2 DEF m

\* DELETE ... WHERE the row's tree is t, and of its S slots and attribute columns.
ThoseOf(rows, t)          == {r \in rows : r.t = t}
SemanticsOf(rows, t)      == {r \in rows : r.t = t /\ r.b = "S"}
ArtifactsOf(rows, t, art) == {r \in rows : r.t = t /\ r.art = art}

LEMMA RunsNoRows ==
  ASSUME NEW rel \in {"trees", "slots", "predicates", "compiled", "partitions", "assertions"}, NEW t,
         NEW n, NEW P, NEW x, NEW y, DOMAIN x.d = Relation, Runs(DeleteFrom(rel, [t |-> t]), n, P, x, y)
  PROVE  /\ y.tmp = x.tmp
         /\ Turns(x.d, y.d, Fold[t], Cut(CellOf(x.d, Fold[t]), rel, ThoseOf(Cell(x.d, rel, Fold[t]), t)))
<1> DEFINE S == Select(x.d, rel, [t |-> t])
<1> DEFINE m == Fold[t]
<1>0. rel \in Cells
  BY DEF Cells, Relation
<1>1. y.tmp = x.tmp /\ y.d = Without(x.d, rel, S)
  BY DoesDelete
<1>2. S = {r \in x.d[rel] : r.t = t}
  BY SelectTree
<1>3. (\A r \in S : Owner(rel, r) = m) /\ S = ThoseOf(Cell(x.d, rel, m), t)
  BY <1>2 DEF Owner, ThoseOf, Cell
<1> HIDE DEF S, m
<1>4. Turns(x.d, Without(x.d, rel, S), m, Cut(CellOf(x.d, m), rel, S))
  BY <1>0, <1>3, TurnsWithout
<1> QED BY <1>1, <1>3, <1>4 DEF m

LEMMA RunsNoSemantics ==
  ASSUME NEW t, NEW n, NEW P, NEW x, NEW y, DOMAIN x.d = Relation,
         Runs(DeleteFrom("slots", [t |-> t, b |-> "S"]), n, P, x, y)
  PROVE  /\ y.tmp = x.tmp
         /\ Turns(x.d, y.d, Fold[t],
                  Cut(CellOf(x.d, Fold[t]), "slots", SemanticsOf(Cell(x.d, "slots", Fold[t]), t)))
<1> DEFINE S == Select(x.d, "slots", [t |-> t, b |-> "S"])
<1> DEFINE m == Fold[t]
<1>1. y.tmp = x.tmp /\ y.d = Without(x.d, "slots", S)
  BY DoesDelete
<1>2. S = {r \in x.d["slots"] : r.t = t /\ r.b = "S"}
  BY DEF Select, Matches
<1>3. (\A r \in S : Owner("slots", r) = m) /\ S = SemanticsOf(Cell(x.d, "slots", m), t)
  BY <1>2 DEF Owner, SemanticsOf, Cell
<1> HIDE DEF S, m
<1>4. Turns(x.d, Without(x.d, "slots", S), m, Cut(CellOf(x.d, m), "slots", S))
  BY <1>3, RelationsAreCells, TurnsWithout
<1> QED BY <1>1, <1>3, <1>4 DEF m

LEMMA RunsNoArtifacts ==
  ASSUME NEW rel \in {"compiled", "assertions"}, NEW t, NEW art, NEW n, NEW P, NEW x, NEW y, DOMAIN x.d = Relation,
         Runs(DeleteFrom(rel, [t |-> t, art |-> art]), n, P, x, y)
  PROVE  /\ y.tmp = x.tmp
         /\ Turns(x.d, y.d, Fold[t],
                  Cut(CellOf(x.d, Fold[t]), rel, ArtifactsOf(Cell(x.d, rel, Fold[t]), t, art)))
<1> DEFINE S == Select(x.d, rel, [t |-> t, art |-> art])
<1> DEFINE m == Fold[t]
<1>0. rel \in Cells
  BY DEF Cells, Relation
<1>1. y.tmp = x.tmp /\ y.d = Without(x.d, rel, S)
  BY DoesDelete
<1>2. S = {r \in x.d[rel] : r.t = t /\ r.art = art}
  BY DEF Select, Matches
<1>3. (\A r \in S : Owner(rel, r) = m) /\ S = ArtifactsOf(Cell(x.d, rel, m), t, art)
  BY <1>2 DEF Owner, ArtifactsOf, Cell
<1> HIDE DEF S, m
<1>4. Turns(x.d, Without(x.d, rel, S), m, Cut(CellOf(x.d, m), rel, S))
  BY <1>0, <1>3, TurnsWithout
<1> QED BY <1>1, <1>3, <1>4 DEF m

\* UPDATE of the recorded projections, where every record is one that was written so.
Reprojected(rows, t, text, n) == {TextOnFile(t, "projection", text, n) : r \in ArtifactsOf(rows, t, "projection")}

LEMMA RunsReproject ==
  ASSUME NEW t, NEW text, NEW n, NEW P, NEW x, NEW y, DOMAIN x.d = Relation,
         \A r \in Cell(x.d, "compiled", Fold[t]) : r = TextOnFile(r.t, r.art, r.text, r.by),
         Runs(Update("compiled", [t |-> t, art |-> "projection"], [text |-> text]), n, P, x, y)
  PROVE  /\ y.tmp = x.tmp
         /\ Turns(x.d, y.d, Fold[t],
                  Add(Cut(CellOf(x.d, Fold[t]), "compiled", ArtifactsOf(Cell(x.d, "compiled", Fold[t]), t, "projection")),
                      "compiled", Reprojected(Cell(x.d, "compiled", Fold[t]), t, text, n)))
<1> DEFINE S == Select(x.d, "compiled", [t |-> t, art |-> "projection"])
<1> DEFINE f == Without(x.d, "compiled", S)
<1> DEFINE g(r) == Assign(r, [text |-> text])
<1> DEFINE rows == Updated(S, [text |-> text])
<1> DEFINE m == Fold[t]
<1> DEFINE X == Reprojected(Cell(x.d, "compiled", m), t, text, n)
<1>1. y.tmp = x.tmp /\ y.d = Insert(f, "compiled", rows, n)
  BY DoesUpdate DEF Keyless, Relation
<1>2. S = {r \in x.d["compiled"] : r.t = t /\ r.art = "projection"}
  BY DEF Select, Matches
<1>3. (\A r \in S : Owner("compiled", r) = m) /\ S = ArtifactsOf(Cell(x.d, "compiled", m), t, "projection")
  BY <1>2 DEF Owner, ArtifactsOf, Cell
<1>4. ASSUME NEW r \in S PROVE Stamp(g(r), n) = TextOnFile(t, "projection", text, n)
  <2>1. r = TextOnFile(t, "projection", r.text, r.by)
    BY <1>3 DEF ArtifactsOf
  <2>2. g(TextOnFile(t, "projection", r.text, r.by)) = TextOnFile(t, "projection", text, r.by)
    BY DEF Assign, TextOnFile
  <2>3. Stamp(TextOnFile(t, "projection", text, r.by), n) = TextOnFile(t, "projection", text, n)
    BY DEF Stamp, TextOnFile
  <2> QED BY <2>1, <2>2, <2>3
<1>5. (\A q : q \in X <=> \E z \in rows : q = Stamp(z, n)) /\ \A q \in X : Owner("compiled", q) = m
  <2>0. rows = {g(r) : r \in S}
    BY DEF Updated
  <2> HIDE DEF S, g, rows
  <2>1. X = {TextOnFile(t, "projection", text, n) : r \in S}
    BY <1>3 DEF Reprojected
  <2>2. Owner("compiled", TextOnFile(t, "projection", text, n)) = m
    BY DEF Owner, TextOnFile
  <2> DEFINE w == TextOnFile(t, "projection", text, n)
  <2> HIDE DEF w, X
  <2>3. \A q : q \in X <=> q = w /\ S # {}
    BY <2>1 DEF w
  <2>4. \A q : q \in {Stamp(z, n) : z \in rows} <=> q = w /\ S # {}
    BY <1>4, <2>0 DEF w
  <2> QED BY <2>2, <2>3, <2>4 DEF w
<1> HIDE DEF S, rows, X, m
<1>6. Turns(x.d, f, m, Cut(CellOf(x.d, m), "compiled", S))
  BY <1>3, RelationsAreCells, TurnsWithout
<1> HIDE DEF f
<1>7. DOMAIN f = Relation /\ CellOf(f, m) = Cut(CellOf(x.d, m), "compiled", S)
  BY <1>6, TurnsDomain
<1>8. Turns(f, Insert(f, "compiled", rows, n), m, Add(CellOf(f, m), "compiled", X))
  BY <1>5, <1>7, RelationsAreCells, TurnsInsert
<1> QED BY <1>1, <1>3, <1>6, <1>7, <1>8, TurnsBoth DEF m, X

\* New rows of tree_state.partitions, one per partition, at the next epoch.
NextEpoch(epochs, root) == IF root \in Roots(epochs) THEN (CHOOSE e \in epochs : e.root = root).epoch + 1 ELSE 1
NewPart(t, root, size, epoch) == [t |-> t, root |-> root, n |-> size, ok |-> TRUE, epoch |-> epoch]
PartsOnFile(t, parts, epochs, n) == {Stamp(NewPart(t, p.root, p.part.n, NextEpoch(epochs, p.root)), n) : p \in parts}

LEMMA StampedPart ==
  ASSUME NEW t, NEW root, NEW size, NEW epoch, NEW n
  PROVE  LET q == Stamp(NewPart(t, root, size, epoch), n) IN
         /\ q.t = t /\ q.root = root /\ q.n = size /\ q.epoch = epoch
         /\ {"t", "root", "n", "epoch", "ok"} \subseteq DOMAIN q
<1> DEFINE r == NewPart(t, root, size, epoch)
<1>1. r.t = t /\ r.root = root /\ r.n = size /\ r.epoch = epoch
  BY DEF NewPart
<1>2. {"t", "root", "n", "epoch", "ok"} \subseteq DOMAIN r
  BY DEF NewPart
<1> HIDE DEF r
<1>3. DOMAIN Stamp(r, n) = DOMAIN r \cup {"by"} /\ \A f \in DOMAIN r \ {"by"} : Stamp(r, n)[f] = r[f]
  BY StampKeeps
<1> QED BY <1>1, <1>2, <1>3 DEF r

LEMMA TurnsParts ==
  ASSUME NEW d, DOMAIN d = Relation, NEW t, NEW parts, NEW epochs, NEW n
  PROVE  Turns(d, Insert(d, "partitions", NewPartitions(t, parts, epochs), n), Fold[t],
               Add(CellOf(d, Fold[t]), "partitions", PartsOnFile(t, parts, epochs, n)))
<1> DEFINE rows == NewPartitions(t, parts, epochs)
<1> DEFINE X == PartsOnFile(t, parts, epochs, n)
<1> DEFINE m == Fold[t]
<1>1. rows = {NewPart(t, p.root, p.part.n, NextEpoch(epochs, p.root)) : p \in parts}
  BY DEF NewPartitions, NewPart, NextEpoch
<1>2. {Stamp(q, n) : q \in rows} = X
  BY <1>1 DEF PartsOnFile
<1>3. \A q \in X : Owner("partitions", q) = m
  BY StampedPart DEF Owner, PartsOnFile
<1> HIDE DEF rows, X, m
<1>4. \A q : q \in X <=> \E z \in rows : q = Stamp(z, n)
  BY <1>2
<1>5. Turns(d, Insert(d, "partitions", rows, n), m, Add(CellOf(d, m), "partitions", X))
  BY <1>3, <1>4, RelationsAreCells, TurnsInsert
<1> QED BY <1>5 DEF rows, X, m

LEMMA RunsCounted ==
  ASSUME NEW t, NEW n, NEW P, NEW x, NEW y, DOMAIN x.d = Relation, Runs(Tree("count_partitions", t), n, P, x, y)
  PROVE  /\ y.tmp = x.tmp
         /\ Turns(x.d, y.d, Fold[t], Add(CellOf(x.d, Fold[t]), "partitions",
                                         PartsOnFile(t, Stored(x.d, Fold[t]), {}, n)))
<1>1. y.tmp = x.tmp /\ y.d = Insert(x.d, "partitions", NewPartitions(t, Stored(x.d, Fold[t]), {}), n)
  BY DoesTree
<1> DEFINE S == Stored(x.d, Fold[t])
<1> DEFINE E == {}
<1> HIDE DEF S, E
<1>2. Turns(x.d, Insert(x.d, "partitions", NewPartitions(t, S, E), n), Fold[t],
            Add(CellOf(x.d, Fold[t]), "partitions", PartsOnFile(t, S, E, n)))
  BY TurnsParts
<1> QED BY <1>1, <1>2 DEF S, E

LEMMA RunsAddParts ==
  ASSUME NEW t, NEW n, NEW P, NEW x, NEW y, DOMAIN x.d = Relation, Runs(Tree("insert_partitions", t), n, P, x, y)
  PROVE  /\ y.tmp = x.tmp
         /\ Turns(x.d, y.d, Fold[t], Add(CellOf(x.d, Fold[t]), "partitions",
                                         PartsOnFile(t, x.tmp.new, x.tmp.epochs, n)))
<1>1. y.tmp = x.tmp /\ y.d = Insert(x.d, "partitions", NewPartitions(t, x.tmp.new, x.tmp.epochs), n)
  BY DoesTree
<1> QED BY <1>1, TurnsParts

\* INSERT INTO the table, DELETE from it and from tree_state.partitions.
VersionOf(d, m) == (CHOOSE r \in d["tables"] : r.m = m).by

LEMMA RunsAddRows ==
  ASSUME NEW t, NEW n, NEW P, NEW x, NEW y, DOMAIN x.d = Relation, Runs(Tree("insert_rows", t), n, P, x, y)
  PROVE  /\ y.tmp = x.tmp
         /\ Turns(x.d, y.d, Fold[t], Add(CellOf(x.d, Fold[t]), "rows",
                                         RowsOf(Fold[t], VersionOf(x.d, Fold[t]), x.tmp.new, x.tmp.arb, n)))
<1> DEFINE m == Fold[t]
<1> DEFINE v == VersionOf(x.d, m)
<1> DEFINE rows == TableRows(m, v, x.tmp.new, x.tmp.arb)
<1> DEFINE X == RowsOf(m, v, x.tmp.new, x.tmp.arb, n)
<1>1. y.tmp = x.tmp /\ y.d = AppendRows(x.d, m, x.tmp.new, x.tmp.arb, n)
  BY DoesTree
<1>2. y.d = Insert(x.d, "rows", rows, n)
  BY <1>1 DEF AppendRows, VersionOf
<1>3. (\A q : q \in X <=> \E z \in rows : q = Stamp(z, n)) /\ \A q \in X : Owner("rows", q) = m
  BY StampedRows
<1> HIDE DEF X, rows, m
<1>4. Turns(x.d, Insert(x.d, "rows", rows, n), m, Add(CellOf(x.d, m), "rows", X))
  BY <1>3, RelationsAreCells, TurnsInsert
<1> QED BY <1>1, <1>2, <1>4 DEF X, m

LEMMA RunsCutRows ==
  ASSUME NEW t, NEW n, NEW P, NEW x, NEW y, DOMAIN x.d = Relation, Runs(Tree("delete_rows", t), n, P, x, y)
  PROVE  /\ y.tmp = x.tmp
         /\ Turns(x.d, y.d, Fold[t], Cut(CellOf(x.d, Fold[t]), "rows", RowsDoomed(x.d, x.tmp, Fold[t])))
<1> DEFINE m == Fold[t]
<1> DEFINE X == RowsDoomed(x.d, x.tmp, m)
<1>1. y.tmp = x.tmp /\ y.d = Without(x.d, "rows", X)
  BY DoesTree
<1>2. \A q \in X : Owner("rows", q) = m
  BY DEF Owner, RowsDoomed, Stored
<1> HIDE DEF X, m
<1>3. Turns(x.d, Without(x.d, "rows", X), m, Cut(CellOf(x.d, m), "rows", X))
  BY <1>2, RelationsAreCells, TurnsWithout
<1> QED BY <1>1, <1>3 DEF X, m

LEMMA RunsCutParts ==
  ASSUME NEW t, NEW n, NEW P, NEW x, NEW y, DOMAIN x.d = Relation, Runs(Tree("delete_partitions", t), n, P, x, y)
  PROVE  /\ y.tmp = x.tmp
         /\ Turns(x.d, y.d, Fold[t], Cut(CellOf(x.d, Fold[t]), "partitions", PartsDoomed(x.d, x.tmp, t)))
<1> DEFINE m == Fold[t]
<1> DEFINE X == PartsDoomed(x.d, x.tmp, t)
<1>1. y.tmp = x.tmp /\ y.d = Without(x.d, "partitions", X)
  BY DoesTree
<1>2. \A q \in X : Owner("partitions", q) = m
  BY SelectTree DEF Owner, PartsDoomed
<1> HIDE DEF X, m
<1>3. Turns(x.d, Without(x.d, "partitions", X), m, Cut(CellOf(x.d, m), "partitions", X))
  BY <1>2, RelationsAreCells, TurnsWithout
<1> QED BY <1>1, <1>3 DEF X, m

\* The two statements of a check.
Asserts(t, art, defect, rel) == <<[op |-> "assert", t |-> t, art |-> art, defect |-> defect, rel |-> rel]>>
Refreshes(t, rel) == <<[op |-> "p13_ok", t |-> t, rel |-> rel]>>

\* What is said of a claim, of the partitions W that are read.
Says(W, defect) == IF \E p \in W : defect \in p.part.bad THEN "violated" ELSE "ok"

\* A verdict is a row of its tree: what was claimed, and what is said of it.
\* A verdict on the claim art of t joins those on file.
Asserted(d, e, t, art, status) ==
  \E w : /\ w.t = t /\ w.art = art /\ w.status = status
         /\ Turns(d, e, Fold[t], Add(CellOf(d, Fold[t]), "assertions", {w}))

LEMMA RunsAssert ==
  ASSUME NEW t, NEW art, NEW defect, NEW rel, NEW n, NEW P, NEW x, NEW y, DOMAIN x.d = Relation,
         Runs(Asserts(t, art, defect, rel), n, P, x, y)
  PROVE  Asserted(x.d, y.d, t, art, Says(Read(x.d, rel), defect))
<1> DEFINE st == [op |-> "assert", t |-> t, art |-> art, defect |-> defect, rel |-> rel]
<1> DEFINE v == Verdict(x.d, st)
<1> DEFINE w == Stamp(v, n)
<1> DEFINE m == Fold[t]
<1> DEFINE rows == VerdictsOn(x.d, t, art, defect, rel)
<1> DEFINE X == {w}
<1>1. y.d = Insert(x.d, "assertions", rows, n)
  BY DoesAssert DEF Asserts
<1>2. /\ v.t = t /\ v.art = art /\ v.status = Says(Read(x.d, rel), defect)
      /\ {"t", "art", "status"} \subseteq DOMAIN v
  BY DEF Verdict, Says
<1>8. rows = {v}
  BY DEF VerdictsOn
<1> HIDE DEF v, rows
<1>3. w.t = t /\ w.art = art /\ w.status = Says(Read(x.d, rel), defect)
  <2>1. \A f \in DOMAIN v \ {"by"} : Stamp(v, n)[f] = v[f]
    BY DEF Stamp
  <2> QED BY <1>2, <2>1
<1>4. Owner("assertions", w) = m
  BY <1>3 DEF Owner
<1>5. \A q : q \in X <=> \E z \in rows : q = Stamp(z, n)
  BY <1>8
<1> HIDE DEF w, m
<1>6. \A q \in X : Owner("assertions", q) = m
  BY <1>4
<1> HIDE DEF X, rows
<1>7. Turns(x.d, Insert(x.d, "assertions", rows, n), m, Add(CellOf(x.d, m), "assertions", X))
  BY <1>5, <1>6, RelationsAreCells, TurnsInsert
<1>9. Turns(x.d, y.d, m, Add(CellOf(x.d, m), "assertions", {w}))
  BY <1>1, <1>7 DEF X
<1> QED BY <1>3, <1>9 DEF m, Asserted

\* A row of tree_state.partitions: its fields, and an epoch that is a number.
OnFile(p) == {"t", "root", "n", "epoch", "ok"} \subseteq DOMAIN p /\ p.epoch \in Nat

\* All but the verdict, and who gave it, is the same.
SamePart(z, p) == z.t = p.t /\ z.root = p.root /\ z.n = p.n /\ z.epoch = p.epoch /\ DOMAIN z = DOMAIN p

\* Its verdict is that of its ROOT's rows among those read.
Seen(z, W) == z.ok <=> \A p \in W : p.root = z.root => "p13" \notin p.part.bad

\* The refreshed verdicts keep the rest of their rows.
LEMMA RunsRefresh ==
  ASSUME NEW t, NEW rel, NEW n, NEW P, NEW x, NEW y, DOMAIN x.d = Relation,
         \A q \in Cell(x.d, "partitions", Fold[t]) : OnFile(q),
         Runs(Refreshes(t, rel), n, P, x, y)
  PROVE  \E X :
           /\ Turns(x.d, y.d, Fold[t], Put(CellOf(x.d, Fold[t]), "partitions", X))
           /\ \A z \in X : \E q \in Cell(x.d, "partitions", Fold[t]) :
                SamePart(z, q)
           /\ \A q \in Cell(x.d, "partitions", Fold[t]) : \E z \in X :
                SamePart(z, q)
           /\ (\A p, q \in Cell(x.d, "partitions", Fold[t]) : p.root = q.root => p = q) =>
                \A p, q \in X : p.root = q.root => p = q
           /\ \A z \in X : z.t = t /\ z.root \in Roots(Read(x.d, rel)) => Seen(z, Read(x.d, rel))
<1> DEFINE d == x.d
<1> DEFINE m == Fold[t]
<1> DEFINE read == Read(d, rel)
<1> DEFINE judged(q) == q.t = t /\ q.root \in Roots(read)
<1> DEFINE holds(q) == \A p \in read : p.root = q.root => "p13" \notin p.part.bad
<1> DEFINE g(q) == IF judged(q) THEN [q EXCEPT !.ok = holds(q), !.by = n] ELSE q
<1> DEFINE X == {g(q) : q \in d["partitions"]}
<1> DEFINE Z == {g(q) : q \in Cell(d, "partitions", m)}
<1>1. y.d = [d EXCEPT !["partitions"] = X] /\ DOMAIN d = Relation
  <2>1. y.d = RefreshOk(d, t, rel, n)
    BY DoesP13Ok DEF Refreshes
  <2>2. RefreshOk(d, t, rel, n) = [d EXCEPT !["partitions"] = X]
    BY RelationsAreCells DEF RefreshOk, Cells
  <2> QED BY <2>1, <2>2
<1>2. ASSUME NEW q, OnFile(q)
      PROVE  SamePart(g(q), q)
  <2> HIDE DEF judged, holds
  <2> QED BY <1>2 DEF OnFile, SamePart
<1>3. \A q : Fold[q.t] # m => g(q) = q
  OBVIOUS
<1>10. ASSUME NEW q, OnFile(q), judged(q)
       PROVE  Seen(g(q), read)
  <2>1. g(q) = [q EXCEPT !.ok = holds(q), !.by = n]
    BY <1>10
  <2> HIDE DEF holds, g
  <2>2. g(q).ok = holds(q) /\ g(q).root = q.root
    BY <1>10, <2>1 DEF OnFile
  <2>3. g(q).ok <=> holds(q)
    BY <2>2
  <2> HIDE DEF read
  <2> QED BY <2>2, <2>3 DEF Seen, holds
<1> HIDE DEF g, m, d
<1>4. \A q \in Cell(d, "partitions", m) : Owner("partitions", g(q)) = m
  BY <1>2 DEF Cell, Owner, SamePart, m, d
<1>5. \A q : q \in Cell(d, "partitions", m) <=> q \in d["partitions"] /\ Fold[q.t] = m
  BY DEF Cell, Owner
<1>6. /\ \A q : Owner("partitions", q) # m => (q \in X <=> q \in d["partitions"])
      /\ \A q : q \in Z <=> q \in X /\ Owner("partitions", q) = m
  BY <1>3, <1>4, <1>5 DEF Owner
<1>7. /\ \A z \in Z : \E q \in Cell(d, "partitions", m) :
           SamePart(z, q)
      /\ \A q \in Cell(d, "partitions", m) : \E z \in Z :
           SamePart(z, q)
  BY <1>2 DEF m, d
<1>8. (\A p, q \in Cell(d, "partitions", m) : p.root = q.root => p = q) => \A p, q \in Z : p.root = q.root => p = q
  BY <1>2 DEF SamePart, m, d
<1>11. \A z \in Z : z.t = t /\ z.root \in Roots(read) => Seen(z, read)
  <2> SUFFICES ASSUME NEW q \in Cell(d, "partitions", m), g(q).t = t, g(q).root \in Roots(read)
               PROVE  Seen(g(q), read)
    OBVIOUS
  <2>1. OnFile(q)
    BY DEF m, d
  <2>2. q.t = t /\ q.root \in Roots(read)
    BY <1>2, <2>1 DEF SamePart
  <2> HIDE DEF read
  <2> QED BY <1>10, <2>1, <2>2
<1> HIDE DEF X, Z
<1>9. Turns(d, [d EXCEPT !["partitions"] = X], m, Put(CellOf(d, m), "partitions", Z))
  BY <1>1, <1>6, RelationsAreCells, TurnsSet
<1> QED BY <1>1, <1>7, <1>8, <1>9, <1>11 DEF m, d, read

-----------------------------------------------------------------------------
(* A tidy cell: at most one tree, and whatever it keeps is its own and     *)
(* agrees with it.                                                         *)

SlotsIn(C) == {r.s : r \in C["slots"]}
PredsIn(C) == {r.p : r \in C["predicates"]}
Clean(parts, defects) == \A p \in parts : p.part.bad \cap defects = {}

\* The rows of a cell carry their fields, and its tree's name.
TreeKept == {"slots", "predicates", "compiled", "partitions", "assertions"}
Shaped(C, q) ==
  /\ \A rel \in TreeKept : \A r \in C[rel] : r.t = q.t
  /\ \A r \in C["compiled"] : r = TextOnFile(r.t, r.art, r.text, r.by)
  /\ \A r \in C["partitions"] : OnFile(r)
  /\ \A r \in C["rows"] : {"m", "v", "root", "part", "arb"} \subseteq DOMAIN r

\* One row per slot, in its block, the key a walk from the parents needs, and the
\* semantic flag the slots call for.
SlotsTidy(C, q) ==
  /\ \A x \in C["slots"] : x.s \in Slot /\ (x.b = "S" <=> x.s \in SSlot)
  /\ \A x, y \in C["slots"] : x.s = y.s => x = y
  /\ ~LevelBasis(SlotsIn(C)) => HasKey(SlotsIn(C))
  /\ q.sem = Declares(SlotsIn(C), PredsIn(C))

\* The macro and the recorded artifacts come from the slots.
TextsTidy(C, q) ==
  LET slots == SlotsIn(C)
      text  == ServedBy(q.storage, q.t, slots, q.source)
  IN  /\ ~Concrete(q) => C["macros"] = {}
      /\ Concrete(q) =>
           /\ q.source # NULL
           /\ C["macros"] # {} /\ \A r \in C["macros"] : r.text = text
           /\ \E r \in C["compiled"] : r.art = "projection"
           /\ \E r \in C["compiled"] : r.art = "attribute_columns"
           /\ \A r \in C["compiled"] :
                \/ r.art = "projection" /\ r.text = Projection(slots, q.source)
                \/ r.art = "attribute_columns" /\ r.text = text

\* One table, one stored partition per ROOT and one row on file for each.
RowsTidy(C, q) ==
  /\ ~Stores(q) => C["tables"] = {} /\ C["rows"] = {} /\ C["partitions"] = {}
  /\ Stores(q) =>
       /\ \E b : C["tables"] = TablesOnFile(Fold[q.t], b) /\ \A r \in C["rows"] : r.v = b
       /\ OnePerRoot(C["rows"]) /\ OnePerRoot(C["partitions"])
       /\ \A p \in C["partitions"] : \E r \in C["rows"] : r.root = p.root /\ r.part.n = p.n
       /\ \A r \in C["rows"] : \E p \in C["partitions"] : r.root = p.root /\ r.part.n = p.n

\* Sessions that keep to trees of their own: no two of them work on trees of one
\* generated name, and only a session that is alone edits stored tables by hand.
Lone  == \A s, r \in Session : s = r
Apart ==
  \/ Lone
  \/ /\ Damage = {}
     /\ \A s, r \in Session : \A c \in Calls[s], e \in Calls[r] : Fold[c.t] = Fold[e.t] => s = r

\* No tree declares a UNIQUE KEY on the level basis, nor could inherit one.
KeysOnParents ==
  \A s \in Session : \A c \in Calls[s] : c.verb = "tree_ddl_create" =>
    c.spec.like = NULL /\ (HasKey(c.spec.slots) => ~LevelBasis(c.spec.slots))

\* What is stored is what the declaration lets in, while nobody edits it by hand,
\* and in an order of its own, while no other session moves the setting.
RowsSound(C) ==
  /\ Damage = {} => Clean(C["rows"], Enforced(SlotsIn(C)))
  /\ Damage = {} /\ KeysOnParents /\ HasKey(SlotsIn(C)) =>
       ~LevelBasis(SlotsIn(C)) /\ Clean(C["rows"], {"key"})
  /\ Lone => \A r \in C["rows"] : ~r.arb

\* No verdict is kept on what the tree does not claim.
Claimed(q, slots) == {c.art : c \in Checked(q, slots)}
VerdictsTidy(C, q) == \A r \in C["assertions"] : r.art \in Claimed(q, SlotsIn(C))

TidyTree(C, q) ==
  Shaped(C, q) /\ SlotsTidy(C, q) /\ TextsTidy(C, q) /\ RowsTidy(C, q) /\ RowsSound(C) /\ VerdictsTidy(C, q)

NoCell == [rel \in Cells |-> {}]
Tidy(C) ==
  \/ C = NoCell
  \/ \E q : C["trees"] = {q} /\ TidyTree(C, q)

-----------------------------------------------------------------------------
(* The checks.                                                             *)

LEMMA StatementLists ==
  \A t, src, slots, defects, rel, where, op, ordersrc, text, sem, rows, new :
    /\ IsList(CheckSource(defects, src)) /\ IsList(CheckNew(defects)) /\ IsList(FrozenGuard(ordersrc))
    /\ IsList(SetSemantic(t, sem)) /\ IsList(InsertInto(rel, rows)) /\ IsList(DeleteFrom(rel, where))
    /\ IsList(Update(rel, where, new)) /\ IsList(Macro(t, text)) /\ IsList(Tree(op, t))
    /\ IsList(TreeSource(op, t, src)) /\ IsList(Project(op, t, src, ordersrc))
BY OneList, NoList DEF CheckSource, CheckNew, FrozenGuard, When, SetSemantic, InsertInto, DeleteFrom, Update, Macro,
     Tree, TreeSource, Project

LEMMA RunsCheck ==
  ASSUME NEW defects, NEW src, src # NULL, NEW n, NEW P, NEW x, NEW y, Runs(CheckSource(defects, src), n, P, x, y)
  PROVE  y.d = x.d /\ y.tmp = x.tmp /\ Clean(Contents(x.d, src), defects)
BY DoesCheck DEF CheckSource, Clean

LEMMA RunsCheckSource ==
  ASSUME NEW c, NEW defects, NEW src, src # NULL, NEW n, NEW P, NEW x, NEW y,
         Runs(When(c, CheckSource(defects, src)), n, P, x, y)
  PROVE  y.d = x.d /\ y.tmp = x.tmp /\ (c => Clean(Contents(x.d, src), defects))
<1>1. CASE c
  <2>1. Runs(<<[op |-> "check", defects |-> defects, src |-> src]>>, n, P, x, y)
    BY <1>1 DEF When, CheckSource
  <2> QED BY <2>1, DoesCheck DEF Clean
<1>2. CASE ~c
  <2>1. y = x
    BY <1>2, RunsNothing DEF When
  <2> QED BY <1>2, <2>1
<1> QED BY <1>1, <1>2

LEMMA RunsCheckNew ==
  ASSUME NEW c, NEW defects, NEW n, NEW P, NEW x, NEW y, Runs(When(c, CheckNew(defects)), n, P, x, y)
  PROVE  y.d = x.d /\ y.tmp = x.tmp /\ (c => Clean(x.tmp.new, defects))
<1>1. CASE c
  <2>1. Runs(<<[op |-> "check", defects |-> defects, src |-> NULL]>>, n, P, x, y)
    BY <1>1 DEF When, CheckNew
  <2> QED BY <2>1, DoesCheck DEF Clean
<1>2. CASE ~c
  <2>1. y = x
    BY <1>2, RunsNothing DEF When
  <2> QED BY <1>2, <2>1
<1> QED BY <1>1, <1>2

LEMMA RunsSourceChecks ==
  ASSUME NEW slots, NEW src, src # NULL, NEW key, NEW n, NEW P, NEW x, NEW y,
         Runs(SourceChecks(slots, src, key), n, P, x, y)
  PROVE  /\ y.d = x.d /\ y.tmp = x.tmp
         /\ "ORDER" \in slots => Clean(Contents(x.d, src), {"order"})
         /\ key => Clean(Contents(x.d, src), {"key"})
<1> DEFINE o == "ORDER" \in slots
<1> DEFINE a == When(o, CheckSource({"order"}, src))
<1> DEFINE b == When(key, CheckSource({"key"}, src))
<1>1. IsList(a) /\ IsList(b) /\ SourceChecks(slots, src, key) = a \o b
  BY StatementLists, WhenList DEF SourceChecks
<1> HIDE DEF a, b
<1>2. PICK z : Runs(a, n, P, x, z) /\ Runs(b, n, P, z, y)
  BY <1>1, RunsBoth
<1>3. z.d = x.d /\ z.tmp = x.tmp /\ (o => Clean(Contents(x.d, src), {"order"}))
  <2> HIDE DEF o
  <2> QED BY <1>2, RunsCheckSource DEF a
<1>4. y.d = z.d /\ y.tmp = z.tmp /\ (key => Clean(Contents(z.d, src), {"key"}))
  BY <1>2, RunsCheckSource DEF b
<1> QED BY <1>3, <1>4

LEMMA SourceChecksList ==
  ASSUME NEW slots, NEW src, NEW key
  PROVE  IsList(SourceChecks(slots, src, key))
BY StatementLists, WhenList, ListsJoin DEF SourceChecks

\* What create checks of a source, but for the overrides.
LEMMA RunsCreateChecks ==
  ASSUME NEW slots, NEW src, src # NULL, NEW key, NEW walk, NEW n, NEW P, NEW x, NEW y,
         Runs(SourceChecks(slots, src, key) \o When(walk, CheckSource({"reach"}, src))
              \o CheckSource({"shadow"}, src) \o CheckSource(P13Arms, src), n, P, x, y)
  PROVE  /\ y.d = x.d /\ y.tmp = x.tmp
         /\ "ORDER" \in slots => Clean(Contents(x.d, src), {"order"})
         /\ key => Clean(Contents(x.d, src), {"key"})
         /\ walk => Clean(Contents(x.d, src), {"reach"})
         /\ Clean(Contents(x.d, src), {"shadow"}) /\ Clean(Contents(x.d, src), P13Arms)
<1> DEFINE a == SourceChecks(slots, src, key)
<1> DEFINE b == When(walk, CheckSource({"reach"}, src))
<1> DEFINE c == CheckSource({"shadow"}, src)
<1> DEFINE e == CheckSource(P13Arms, src)
<1>1. IsList(a) /\ IsList(b) /\ IsList(c) /\ IsList(e) /\ Runs(a \o b \o c \o e, n, P, x, y)
  BY StatementLists, WhenList, SourceChecksList
<1> HIDE DEF a, b, c, e
<1>2. IsList(a \o b) /\ IsList(a \o b \o c)
  BY <1>1, ListsJoin
<1>3. PICK z3 : Runs(a \o b \o c, n, P, x, z3) /\ Runs(e, n, P, z3, y)
  BY <1>1, <1>2, RunsBoth
<1>4. PICK z2 : Runs(a \o b, n, P, x, z2) /\ Runs(c, n, P, z2, z3)
  BY <1>1, <1>2, <1>3, RunsBoth
<1>5. PICK z1 : Runs(a, n, P, x, z1) /\ Runs(b, n, P, z1, z2)
  BY <1>1, <1>4, RunsBoth
<1>6. /\ z1.d = x.d /\ z1.tmp = x.tmp
      /\ "ORDER" \in slots => Clean(Contents(x.d, src), {"order"})
      /\ key => Clean(Contents(x.d, src), {"key"})
  BY <1>5, RunsSourceChecks DEF a
<1>7. z2.d = z1.d /\ z2.tmp = z1.tmp /\ (walk => Clean(Contents(z1.d, src), {"reach"}))
  BY <1>5, RunsCheckSource DEF b
<1>8. z3.d = z2.d /\ z3.tmp = z2.tmp /\ Clean(Contents(z2.d, src), {"shadow"})
  BY <1>4, RunsCheck DEF c
<1>9. y.d = z3.d /\ y.tmp = z3.tmp /\ Clean(Contents(z3.d, src), P13Arms)
  BY <1>3, RunsCheck DEF e
<1> QED BY <1>6, <1>7, <1>8, <1>9

-----------------------------------------------------------------------------
(* tree_compile_create, run to its end.                                    *)

LEMMA ContentsStay ==
  ASSUME NEW d, NEW e, e["source"] = d["source"], NEW src
  PROVE  Contents(e, src) = Contents(d, src)
BY DEF Contents, Select

\* The rows a table's name finds are its cell's, when all are of its version.
LEMMA StoredIsCell ==
  ASSUME NEW d, NEW m, NEW b, Cell(d, "tables", m) = TablesOnFile(m, b), \A r \in Cell(d, "rows", m) : r.v = b
  PROVE  Stored(d, m) = Cell(d, "rows", m) /\ HasTable(d, m) /\ VersionOf(d, m) = b
<1> DEFINE w == [m |-> m, by |-> b]
<1>0. Cell(d, "tables", m) = {w}
  BY DEF TablesOnFile
<1>1. w \in d["tables"] /\ w.m = m /\ w.by = b /\ \A r \in d["tables"] : r.m = m => r = w
  BY <1>0 DEF Cell, Owner
<1>2. ASSUME NEW r \in d["rows"], r.m = m PROVE [m |-> m, by |-> r.v] \in d["tables"]
  <2>1. r.v = b
    BY <1>2 DEF Cell, Owner
  <2> QED BY <1>1, <2>1
<1> HIDE DEF w
<1>3. (CHOOSE r \in d["tables"] : r.m = m) = w
  BY <1>1
<1> QED BY <1>1, <1>2, <1>3 DEF Stored, Cell, Owner, HasTable, VersionOf

LEMMA CreateLists ==
  ASSUME NEW t, NEW abstract, NEW src, NEW storage, NEW slots, NEW preds, NEW sem, NEW c
  PROVE  /\ IsList(Register(t, abstract, src, storage, OrderSource(slots), sem))
         /\ IsList(CreateChecks(slots, src)) /\ IsList(Records(t, src))
         /\ IsList(CreateList(t, abstract, src, storage, slots, preds, sem))
<1>1. IsList(CreateChecks(slots, src))
  BY StatementLists, WhenList, SourceChecksList, ListsJoin DEF CreateChecks
<1>2. IsList(Register(t, abstract, src, storage, OrderSource(slots), sem))
  BY OneList DEF Register
<1>3. \A text : IsList(Records(t, text))
  BY StatementLists, ListsJoin DEF Records
<1>4. IsList(CreateList(t, abstract, src, storage, slots, preds, sem))
  BY <1>1, <1>2, <1>3, StatementLists, WhenList, ListsJoin DEF CreateList
<1> QED BY <1>1, <1>2, <1>3, <1>4

\* What is read of a source when create lets it in.
Vetted(d, slots, src) ==
  LET parts == Contents(d, src) IN
  /\ "ORDER" \in slots => Clean(parts, {"order"})
  /\ HasKey(slots) => Clean(parts, {"key"})
  /\ ~LevelBasis(slots) => Clean(parts, {"reach"})
  /\ Clean(parts, {"shadow"}) /\ Clean(parts, P13Arms)

LEMMA RunsVetted ==
  ASSUME NEW c, NEW slots, NEW src, c => src # NULL, NEW n, NEW P, NEW x, NEW y,
         Runs(When(c, CreateChecks(slots, src)), n, P, x, y)
  PROVE  y.d = x.d /\ y.tmp = x.tmp /\ (c => Vetted(x.d, slots, src))
<1>1. CASE c
  <2> DEFINE key == "UNIQUE KEY" \in slots
  <2> DEFINE walk == ~LevelBasis(slots)
  <2>1. Runs(SourceChecks(slots, src, key) \o When(walk, CheckSource({"reach"}, src))
             \o CheckSource({"shadow"}, src) \o CheckSource(P13Arms, src), n, P, x, y)
    BY <1>1 DEF When, CreateChecks
  <2> HIDE DEF key, walk
  <2>2. /\ y.d = x.d /\ y.tmp = x.tmp
        /\ "ORDER" \in slots => Clean(Contents(x.d, src), {"order"})
        /\ key => Clean(Contents(x.d, src), {"key"})
        /\ walk => Clean(Contents(x.d, src), {"reach"})
        /\ Clean(Contents(x.d, src), {"shadow"}) /\ Clean(Contents(x.d, src), P13Arms)
    BY <1>1, <2>1, RunsCreateChecks
  <2>3. key <=> HasKey(slots)
    BY DEF HasKey, key
  <2> QED BY <2>2, <2>3 DEF Vetted, walk
<1>2. CASE ~c
  BY <1>2, RunsNothing DEF When
<1> QED BY <1>1, <1>2

\* The declared derivations are compared when there are any.
LEMMA RunsOverrides ==
  ASSUME NEW c, NEW slots, NEW src, c => src # NULL, NEW over, over <=> c /\ OverrideSlots(slots) # {},
         NEW n, NEW P, NEW x, NEW y,
         Runs(When(over, CheckSource(OverrideSlots(slots), src)), n, P, x, y)
  PROVE  y.d = x.d /\ y.tmp = x.tmp /\ (c => Clean(Contents(x.d, src), OverrideSlots(slots)))
<1> DEFINE defects == OverrideSlots(slots)
<1>1. CASE over
  <2>1. Runs(CheckSource(defects, src), n, P, x, y)
    BY <1>1 DEF When
  <2> HIDE DEF defects
  <2>2. y.d = x.d /\ y.tmp = x.tmp /\ Clean(Contents(x.d, src), defects)
    BY <1>1, <2>1, RunsCheck
  <2> QED BY <2>2 DEF defects
<1>2. CASE ~over
  <2>1. y = x
    BY <1>2, RunsNothing DEF When
  <2>2. c => defects = {}
    BY <1>2
  <2> QED BY <2>1, <2>2 DEF Clean
<1> QED BY <1>1, <1>2

\* The compiled projection and the attribute columns.
Recorded(C, t, text, n) ==
  Add(Add(C, "compiled", {TextOnFile(t, "projection", text, n)}), "compiled",
      TextsOnFile(t, "attribute_columns", C["macros"], n))

LEMMA RunsRecords ==
  ASSUME NEW t, NEW text, NEW n, NEW P, NEW x, NEW y, DOMAIN x.d = Relation, Runs(Records(t, text), n, P, x, y)
  PROVE  y.tmp = x.tmp /\ Turns(x.d, y.d, Fold[t], Recorded(CellOf(x.d, Fold[t]), t, text, n))
<1> DEFINE a == InsertInto("compiled", {[t |-> t, art |-> "projection", text |-> text]})
<1> DEFINE b == Tree("attribute_columns", t)
<1> DEFINE m == Fold[t]
<1>1. IsList(a) /\ IsList(b) /\ Runs(a \o b, n, P, x, y)
  BY StatementLists DEF Records
<1> HIDE DEF a, b
<1>2. PICK z : Runs(a, n, P, x, z) /\ Runs(b, n, P, z, y)
  BY <1>1, RunsBoth
<1>3. z.tmp = x.tmp /\ Turns(x.d, z.d, m, Add(CellOf(x.d, m), "compiled", {TextOnFile(t, "projection", text, n)}))
  BY <1>2, RunsProjection DEF a
<1>4. DOMAIN z.d = Relation
  BY <1>3 DEF Turns, Within
<1>5. y.tmp = z.tmp /\ Turns(z.d, y.d, m, Add(CellOf(z.d, m), "compiled",
        TextsOnFile(t, "attribute_columns", Cell(z.d, "macros", m), n)))
  BY <1>2, <1>4, RunsColumns DEF b
<1>6. Cell(z.d, "macros", m) = CellOf(x.d, m)["macros"]
  <2> DEFINE C == CellOf(x.d, m)
  <2> DEFINE D == CellOf(z.d, m)
  <2> DEFINE X == {TextOnFile(t, "projection", text, n)}
  <2>1. DOMAIN C = Cells /\ D = Add(C, "compiled", X) /\ Cell(z.d, "macros", m) = D["macros"]
    BY <1>3, CellIn, RelationsAreCells DEF Turns
  <2> HIDE DEF C, D, X
  <2>2. D["macros"] = C["macros"]
    BY <2>1, RelationsAreCells DEF Add
  <2> QED BY <2>1, <2>2 DEF C
<1>7. Turns(x.d, y.d, m, Recorded(CellOf(x.d, m), t, text, n))
  <2> DEFINE D == CellOf(z.d, m)
  <2> DEFINE X == TextsOnFile(t, "attribute_columns", Cell(z.d, "macros", m), n)
  <2>1. Turns(x.d, z.d, m, D)
    BY <1>3 DEF Turns
  <2>2. Turns(z.d, y.d, m, Add(D, "compiled", X))
    BY <1>5
  <2>3. D = Add(CellOf(x.d, m), "compiled", {TextOnFile(t, "projection", text, n)})
    BY <1>3 DEF Turns
  <2> HIDE DEF D, m
  <2>4. Turns(x.d, y.d, m, Add(D, "compiled", X))
    BY <2>1, <2>2, TurnsBoth
  <2> QED BY <1>6, <2>3, <2>4 DEF Recorded, m
<1> QED BY <1>3, <1>5, <1>7

\* What create leaves in a cell that was empty.
Created(d, D, t, abstract, src, storage, slots, preds, sem, n) ==
  LET m == Fold[t]
      stored == ~abstract /\ storage = "materialized"
      macros == MacrosOnFile(m, ServedBy(storage, t, slots, src), n)
  IN  /\ D["trees"] = TreesOnFile(t, abstract, src, storage, OrderSource(slots), sem, n)
      /\ D["slots"] = SlotsOnFile(t, slots, slots, n)
      /\ D["predicates"] = PredsOnFile(t, preds, n)
      /\ D["assertions"] = {}
      /\ D["macros"] = IF abstract THEN {} ELSE macros
      /\ D["compiled"] = IF abstract THEN {} ELSE {TextOnFile(t, "projection", Projection(slots, src), n)}
                                              \cup TextsOnFile(t, "attribute_columns", macros, n)
      /\ D["tables"] = IF stored THEN TablesOnFile(m, n) ELSE {}
      /\ D["partitions"] = IF stored THEN PartsOnFile(t, D["rows"], {}, n) ELSE {}
      /\ ~abstract => Vetted(d, slots, src)
      /\ stored => Clean(Contents(d, src), OverrideSlots(slots))

LEMMA CreateRuns ==
  ASSUME NEW t, NEW abstract, NEW src, NEW storage, NEW slots, NEW preds, NEW sem, NEW n, NEW P, NEW x, NEW y,
         DOMAIN x.d = Relation, ~abstract => src # NULL, CellOf(x.d, Fold[t]) = NoCell,
         Runs(CreateList(t, abstract, src, storage, slots, preds, sem), n, P, x, y)
  PROVE  LET D == CellOf(y.d, Fold[t]) IN
         /\ Turns(x.d, y.d, Fold[t], D)
         /\ Created(x.d, D, t, abstract, src, storage, slots, preds, sem, n)
         /\ ~abstract /\ storage = "materialized" =>
              \E p \in P : D["rows"] = RowsOf(Fold[t], n, Contents(x.d, src), Loose(p, OrderSource(slots)), n)
         /\ ~(~abstract /\ storage = "materialized") => D["rows"] = {}
<1> DEFINE m == Fold[t]
<1> DEFINE concrete == ~abstract
<1> DEFINE stored == concrete /\ storage = "materialized"
<1> DEFINE over == stored /\ OverrideSlots(slots) # {}
<1> DEFINE some == preds # {}
<1> DEFINE text == ServedBy(storage, t, slots, src)
<1> DEFINE proj == Projection(slots, src)
<1> DEFINE ordersrc == OrderSource(slots)
<1> DEFINE l1 == Register(t, abstract, src, storage, ordersrc, sem)
<1> DEFINE l2 == InsertInto("slots", SlotRows(t, slots, slots))
<1> DEFINE l3 == When(some, InsertInto("predicates", PredRows(t, preds)))
<1> DEFINE l4 == When(concrete, CreateChecks(slots, src))
<1> DEFINE l5 == When(over, CheckSource(OverrideSlots(slots), src))
<1> DEFINE l6 == When(stored, Project("create_table", t, src, ordersrc))
<1> DEFINE l7 == When(concrete, Macro(t, text))
<1> DEFINE l8 == When(stored, Tree("count_partitions", t))
<1> DEFINE l9 == When(concrete, Records(t, proj))
<1>1. Runs(l1 \o l2 \o l3 \o l4 \o l5 \o l6 \o l7 \o l8 \o l9, n, P, x, y)
  BY DEF CreateList
<1>2. IsList(l1) /\ IsList(l2) /\ IsList(l3) /\ IsList(l4) /\ IsList(l5) /\ IsList(l6) /\ IsList(l7) /\ IsList(l8)
      /\ IsList(l9)
  BY CreateLists, StatementLists, WhenList
<1> HIDE DEF l1, l2, l3, l4, l5, l6, l7, l8, l9
<1>3. /\ IsList(l1 \o l2) /\ IsList(l1 \o l2 \o l3) /\ IsList(l1 \o l2 \o l3 \o l4) /\ IsList(l1 \o l2 \o l3 \o l4 \o l5)
      /\ IsList(l1 \o l2 \o l3 \o l4 \o l5 \o l6) /\ IsList(l1 \o l2 \o l3 \o l4 \o l5 \o l6 \o l7)
      /\ IsList(l1 \o l2 \o l3 \o l4 \o l5 \o l6 \o l7 \o l8)
  BY <1>2, ListsJoin
<1>4. PICK z8 : Runs(l1 \o l2 \o l3 \o l4 \o l5 \o l6 \o l7 \o l8, n, P, x, z8) /\ Runs(l9, n, P, z8, y)
  BY <1>1, <1>2, <1>3, RunsBoth
<1>5. PICK z7 : Runs(l1 \o l2 \o l3 \o l4 \o l5 \o l6 \o l7, n, P, x, z7) /\ Runs(l8, n, P, z7, z8)
  BY <1>2, <1>3, <1>4, RunsBoth
<1>6. PICK z6 : Runs(l1 \o l2 \o l3 \o l4 \o l5 \o l6, n, P, x, z6) /\ Runs(l7, n, P, z6, z7)
  BY <1>2, <1>3, <1>5, RunsBoth
<1>7. PICK z5 : Runs(l1 \o l2 \o l3 \o l4 \o l5, n, P, x, z5) /\ Runs(l6, n, P, z5, z6)
  BY <1>2, <1>3, <1>6, RunsBoth
<1>8. PICK z4 : Runs(l1 \o l2 \o l3 \o l4, n, P, x, z4) /\ Runs(l5, n, P, z4, z5)
  BY <1>2, <1>3, <1>7, RunsBoth
<1>9. PICK z3 : Runs(l1 \o l2 \o l3, n, P, x, z3) /\ Runs(l4, n, P, z3, z4)
  BY <1>2, <1>3, <1>8, RunsBoth
<1>10. PICK z2 : Runs(l1 \o l2, n, P, x, z2) /\ Runs(l3, n, P, z2, z3)
  BY <1>2, <1>3, <1>9, RunsBoth
<1>11. PICK z1 : Runs(l1, n, P, x, z1) /\ Runs(l2, n, P, z1, z2)
  BY <1>2, <1>3, <1>10, RunsBoth
<1> DEFINE C(z) == CellOf(z.d, m)
<1> DEFINE TR == TreesOnFile(t, abstract, src, storage, ordersrc, sem, n)
<1> DEFINE SL == SlotsOnFile(t, slots, slots, n)
<1> DEFINE PR == PredsOnFile(t, preds, n)
<1> DEFINE MA == MacrosOnFile(m, text, n)
<1> DEFINE TA == TablesOnFile(m, n)
<1>12. Turns(x.d, z1.d, m, Add(C(x), "trees", TR))
  BY <1>11, RunsRegister DEF l1
<1>13. DOMAIN z1.d = Relation /\ C(z1) = Add(C(x), "trees", TR)
  BY <1>12, TurnsDomain
<1>14. Turns(z1.d, z2.d, m, Add(C(z1), "slots", SL))
  BY <1>11, <1>13, RunsSlots DEF l2
<1>15. DOMAIN z2.d = Relation /\ C(z2) = Add(C(z1), "slots", SL)
  BY <1>14, TurnsDomain
<1>16. Turns(z2.d, z3.d, m, Add(C(z2), "predicates", PR))
  <2>1. Runs(When(some, InsertInto("predicates", PredRows(t, preds))), n, P, z2, z3) /\ (some <=> preds # {})
    BY <1>10 DEF l3
  <2> HIDE DEF some
  <2> QED BY <1>15, <2>1, RunsPreds
<1>17. DOMAIN z3.d = Relation /\ C(z3) = Add(C(z2), "predicates", PR)
  BY <1>16, TurnsDomain
<1>18. z4.d = z3.d /\ (concrete => Vetted(z3.d, slots, src))
  <2>1. Runs(When(concrete, CreateChecks(slots, src)), n, P, z3, z4) /\ (concrete => src # NULL)
    BY <1>9 DEF l4
  <2> HIDE DEF concrete
  <2> QED BY <2>1, RunsVetted
<1>19. z5.d = z4.d /\ (stored => Clean(Contents(z4.d, src), OverrideSlots(slots)))
  <2>1. /\ Runs(When(over, CheckSource(OverrideSlots(slots), src)), n, P, z4, z5) /\ (stored => src # NULL)
        /\ over <=> stored /\ OverrideSlots(slots) # {}
    BY <1>8 DEF l5
  <2> HIDE DEF over, stored
  <2> QED BY <2>1, RunsOverrides
<1>20. Within(x.d, z5.d, m)
  BY <1>12, <1>14, <1>16, <1>18, <1>19, WithinBoth DEF Turns
<1>21. DOMAIN z5.d = Relation /\ Contents(z5.d, src) = Contents(x.d, src) /\ Contents(z3.d, src) = Contents(x.d, src)
       /\ Contents(z4.d, src) = Contents(x.d, src)
  BY <1>18, <1>19, <1>20, ContentsStay DEF Within
<1>22. concrete => Vetted(x.d, slots, src)
  BY <1>18, <1>21 DEF Vetted
<1> DEFINE R(p) == RowsOf(m, n, Contents(x.d, src), Loose(p, ordersrc), n)
<1>23. /\ stored => \E p \in P : Turns(z5.d, z6.d, m, NewTable(C(z5), TA, R(p)))
       /\ ~stored => z6 = z5
  <2>1. CASE stored
    <3>1. Runs(Project("create_table", t, src, ordersrc), n, P, z5, z6)
      BY <1>7, <2>1 DEF When, l6
    <3> HIDE DEF ordersrc
    <3>2. \E p \in P : Turns(z5.d, z6.d, m,
            NewTable(C(z5), TA, RowsOf(m, n, Contents(z5.d, src), Loose(p, ordersrc), n)))
      BY <1>21, <3>1, RunsTable
    <3> QED BY <1>21, <2>1, <3>2
  <2>2. CASE ~stored
    BY <1>7, <2>2, RunsNothing DEF When, l6
  <2> QED BY <2>1, <2>2
<1>24. DOMAIN z6.d = Relation /\ Within(x.d, z6.d, m)
  BY <1>20, <1>21, <1>23, WithinBoth DEF Within, Turns
<1>25. /\ concrete => Turns(z6.d, z7.d, m, Put(C(z6), "macros", MA))
       /\ ~concrete => z7 = z6
  <2>1. CASE concrete
    <3>1. Runs(Macro(t, text), n, P, z6, z7)
      BY <1>6, <2>1 DEF When, l7
    <3> HIDE DEF text
    <3> QED BY <1>24, <2>1, <3>1, RunsMacro
  <2>2. CASE ~concrete
    BY <1>6, <2>2, RunsNothing DEF When, l7
  <2> QED BY <2>1, <2>2
<1>26. DOMAIN z7.d = Relation /\ Within(x.d, z7.d, m)
  BY <1>24, <1>25, WithinBoth DEF Within, Turns
<1>27. /\ stored => Turns(z7.d, z8.d, m, Add(C(z7), "partitions", PartsOnFile(t, Stored(z7.d, m), {}, n)))
       /\ ~stored => z8 = z7
  <2>1. CASE stored
    <3>1. Runs(Tree("count_partitions", t), n, P, z7, z8)
      BY <1>5, <2>1 DEF When, l8
    <3> QED BY <1>26, <2>1, <3>1, RunsCounted
  <2>2. CASE ~stored
    BY <1>5, <2>2, RunsNothing DEF When, l8
  <2> QED BY <2>1, <2>2
<1>28. DOMAIN z8.d = Relation /\ Within(x.d, z8.d, m)
  BY <1>26, <1>27, WithinBoth DEF Within, Turns
<1>29. /\ concrete => Turns(z8.d, y.d, m, Recorded(C(z8), t, proj, n))
       /\ ~concrete => y = z8
  <2>1. CASE concrete
    <3>1. Runs(Records(t, proj), n, P, z8, y)
      BY <1>4, <2>1 DEF When, l9
    <3> HIDE DEF proj
    <3> QED BY <1>28, <2>1, <3>1, RunsRecords
  <2>2. CASE ~concrete
    BY <1>4, <2>2, RunsNothing DEF When, l9
  <2> QED BY <2>1, <2>2
<1>30. Within(x.d, y.d, m)
  BY <1>28, <1>29, WithinBoth DEF Turns
<1>31. /\ DOMAIN C(z5) = Cells /\ C(z5)["trees"] = TR /\ C(z5)["slots"] = SL /\ C(z5)["predicates"] = PR
       /\ \A rel \in Cells \ {"trees", "slots", "predicates"} : C(z5)[rel] = {}
  <2>1. C(z5) = C(z3) /\ C(x) = NoCell
    BY <1>18, <1>19
  <2> HIDE DEF C, TR, SL, PR
  <2>2. /\ DOMAIN C(z1) = Cells /\ C(z1)["trees"] = TR
        /\ \A rel \in Cells \ {"trees"} : C(z1)[rel] = {}
    BY <1>13, <2>1, RelationsAreCells DEF Add, NoCell
  <2>3. /\ DOMAIN C(z2) = Cells /\ C(z2)["trees"] = TR /\ C(z2)["slots"] = SL
        /\ \A rel \in Cells \ {"trees", "slots"} : C(z2)[rel] = {}
    BY <1>15, <2>2, RelationsAreCells DEF Add
  <2>4. /\ DOMAIN C(z3) = Cells /\ C(z3)["trees"] = TR /\ C(z3)["slots"] = SL /\ C(z3)["predicates"] = PR
        /\ \A rel \in Cells \ {"trees", "slots", "predicates"} : C(z3)[rel] = {}
    BY <1>17, <2>3, RelationsAreCells DEF Add
  <2> QED BY <2>1, <2>4
<1>32. PICK RO : /\ stored => \E p \in P : RO = R(p)
                 /\ C(z6) = IF stored THEN NewTable(C(z5), TA, RO) ELSE C(z5)
  <2>1. CASE stored
    BY <1>23, <2>1 DEF Turns
  <2>2. CASE ~stored
    BY <1>23, <2>2
  <2> QED BY <2>1, <2>2
<1>33. C(z7) = IF concrete THEN Put(C(z6), "macros", MA) ELSE C(z6)
  BY <1>25 DEF Turns
<1>34. /\ DOMAIN C(z7) = Cells
       /\ C(z7)["macros"] = IF concrete THEN MA ELSE {}
       /\ C(z7)["tables"] = IF stored THEN TA ELSE {}
       /\ C(z7)["rows"] = IF stored THEN RO ELSE {}
       /\ \A rel \in Cells \ {"tables", "rows", "macros"} : C(z7)[rel] = C(z5)[rel]
  <2> HIDE DEF C, MA, TA
  <2>1. /\ DOMAIN C(z6) = Cells /\ C(z6)["macros"] = {}
        /\ C(z6)["tables"] = IF stored THEN TA ELSE {}
        /\ C(z6)["rows"] = IF stored THEN RO ELSE {}
        /\ \A rel \in Cells \ {"tables", "rows"} : C(z6)[rel] = C(z5)[rel]
    BY <1>31, <1>32, RelationsAreCells DEF NewTable, Put
  <2> QED BY <1>33, <2>1, RelationsAreCells DEF Put
<1>35. stored => Stored(z7.d, m) = RO
  <2> SUFFICES ASSUME stored PROVE Stored(z7.d, m) = RO
    OBVIOUS
  <2>1. Cell(z7.d, "tables", m) = TA /\ Cell(z7.d, "rows", m) = RO
    BY <1>34, CellIn, RelationsAreCells
  <2>2. \A r \in RO : r.v = n
    BY <1>32 DEF RowsOf
  <2> HIDE DEF m, C
  <2>3. \A r \in Cell(z7.d, "rows", m) : r.v = n
    BY <2>1, <2>2
  <2> QED BY <2>1, <2>3, StoredIsCell DEF TA
<1>36. /\ DOMAIN C(z8) = Cells /\ \A rel \in Cells \ {"partitions"} : C(z8)[rel] = C(z7)[rel]
       /\ C(z8)["partitions"] = IF stored THEN PartsOnFile(t, RO, {}, n) ELSE {}
  <2> DEFINE PA == PartsOnFile(t, RO, {}, n)
  <2>1. C(z8) = IF stored THEN Add(C(z7), "partitions", PA) ELSE C(z7)
    BY <1>27, <1>35 DEF Turns
  <2> HIDE DEF C, PA
  <2>2. /\ DOMAIN C(z8) = Cells /\ \A rel \in Cells \ {"partitions"} : C(z8)[rel] = C(z7)[rel]
        /\ C(z8)["partitions"] = IF stored THEN PA ELSE {}
    BY <1>31, <1>34, <2>1, RelationsAreCells DEF Add
  <2> QED BY <2>2 DEF PA
<1>37. /\ \A rel \in Cells \ {"compiled"} : C(y)[rel] = C(z8)[rel]
       /\ C(y)["compiled"] = IF concrete THEN {TextOnFile(t, "projection", proj, n)}
                                              \cup TextsOnFile(t, "attribute_columns", MA, n) ELSE {}
  <2> DEFINE u == {TextOnFile(t, "projection", proj, n)}
  <2> DEFINE v == TextsOnFile(t, "attribute_columns", MA, n)
  <2>1. concrete => C(z8)["macros"] = MA
    BY <1>34, <1>36, RelationsAreCells
  <2>2. C(y) = IF concrete THEN Add(Add(C(z8), "compiled", u), "compiled", v) ELSE C(z8)
    BY <1>29, <2>1 DEF Recorded, Turns
  <2>3. C(z8)["compiled"] = {}
    BY <1>31, <1>34, <1>36, RelationsAreCells
  <2> HIDE DEF u, v, C
  <2>4. /\ \A rel \in Cells \ {"compiled"} : C(y)[rel] = C(z8)[rel]
        /\ C(y)["compiled"] = IF concrete THEN u \cup v ELSE {}
    BY <1>36, <2>2, <2>3, RelationsAreCells DEF Add
  <2> QED BY <2>4 DEF u, v
<1>38. /\ C(y)["trees"] = TR /\ C(y)["slots"] = SL /\ C(y)["predicates"] = PR /\ C(y)["assertions"] = {}
       /\ C(y)["macros"] = IF concrete THEN MA ELSE {}
       /\ C(y)["tables"] = IF stored THEN TA ELSE {}
       /\ C(y)["rows"] = IF stored THEN RO ELSE {}
       /\ C(y)["partitions"] = IF stored THEN PartsOnFile(t, C(y)["rows"], {}, n) ELSE {}
  <2> HIDE DEF C, TR, SL, PR, MA, TA
  <2> QED BY <1>31, <1>34, <1>36, <1>37, RelationsAreCells
<1>39. Created(x.d, C(y), t, abstract, src, storage, slots, preds, sem, n)
  BY <1>19, <1>21, <1>22, <1>37, <1>38 DEF Created
<1>40. Turns(x.d, y.d, m, C(y))
  BY <1>30 DEF Turns
<1> QED BY <1>32, <1>38, <1>39, <1>40

-----------------------------------------------------------------------------
(* What the filed rows say, and what a tidy cell says of the database.     *)

LEMMA SlotsFiled ==
  ASSUME NEW t, NEW slots, NEW which, NEW n
  PROVE  LET F == SlotsOnFile(t, slots, which, n) IN
         /\ \A r \in F : r.t = t /\ r.s \in which /\ (r.b = "S" <=> r.s \in SSlot)
         /\ \A s \in which : \E r \in F : r.s = s
         /\ \A q, r \in F : q.s = r.s => q = r
<1> DEFINE g(s) == [t |-> t, b |-> Block(slots, s), s |-> s, by |-> n]
<1> DEFINE F == SlotsOnFile(t, slots, which, n)
<1>1. \A s : g(s).t = t /\ g(s).s = s /\ (g(s).b = "S" <=> s \in SSlot)
  BY DEF Block
<1>2. F = {g(s) : s \in which}
  BY DEF SlotsOnFile
<1> HIDE DEF g, F
<1> QED BY <1>1, <1>2 DEF F

LEMMA PredsFiled ==
  ASSUME NEW t, NEW preds, NEW n
  PROVE  LET F == PredsOnFile(t, preds, n) IN
         /\ \A r \in F : r.t = t /\ r.p \in preds
         /\ \A p \in preds : \E r \in F : r.p = p
<1> DEFINE g(p) == [t |-> t, p |-> p, by |-> n]
<1> DEFINE F == PredsOnFile(t, preds, n)
<1>1. \A p : g(p).t = t /\ g(p).p = p
  OBVIOUS
<1>2. F = {g(p) : p \in preds}
  BY DEF PredsOnFile
<1> HIDE DEF g, F
<1> QED BY <1>1, <1>2 DEF F

LEMMA PartsFiled ==
  ASSUME NEW t, NEW parts, NEW epochs, \A e \in epochs : e.epoch \in Nat, NEW n
  PROVE  LET F == PartsOnFile(t, parts, epochs, n) IN
         /\ \A q \in F : /\ q.t = t /\ OnFile(q)
                         /\ \E p \in parts : q.root = p.root /\ p.part.n = q.n
         /\ \A p \in parts : \E q \in F : q.root = p.root /\ p.part.n = q.n
         /\ OnePerRoot(parts) => OnePerRoot(F)
<1> DEFINE g(p) == Stamp(NewPart(t, p.root, p.part.n, NextEpoch(epochs, p.root)), n)
<1> DEFINE F == PartsOnFile(t, parts, epochs, n)
<1>0. \A root : NextEpoch(epochs, root) \in Nat
  BY DEF NextEpoch, Roots
<1>1. \A p : g(p).t = t /\ g(p).root = p.root /\ g(p).n = p.part.n /\ OnFile(g(p))
  BY <1>0, StampedPart DEF OnFile
<1>2. F = {g(p) : p \in parts}
  BY DEF PartsOnFile
<1> HIDE DEF g, F
<1> QED BY <1>1, <1>2 DEF OnePerRoot, F

LEMMA RowsFiled ==
  ASSUME NEW m, NEW v, NEW parts, NEW arb, NEW n
  PROVE  LET F == RowsOf(m, v, parts, arb, n) IN
         /\ \A r \in F : /\ r.m = m /\ r.v = v /\ r.arb = arb /\ {"m", "v", "root", "part", "arb"} \subseteq DOMAIN r
                         /\ \E p \in parts : r.root = p.root /\ r.part = p.part
         /\ \A p \in parts : \E r \in F : r.root = p.root /\ r.part = p.part
         /\ OnePerRoot(parts) => OnePerRoot(F)
         /\ \A defects : Clean(parts, defects) => Clean(F, defects)
<1> DEFINE g(p) == [m |-> m, v |-> v, root |-> p.root, part |-> p.part, arb |-> arb, by |-> n]
<1> DEFINE F == RowsOf(m, v, parts, arb, n)
<1>1. \A p : /\ g(p).m = m /\ g(p).v = v /\ g(p).arb = arb /\ g(p).root = p.root /\ g(p).part = p.part
             /\ {"m", "v", "root", "part", "arb"} \subseteq DOMAIN g(p)
  OBVIOUS
<1>2. F = {g(p) : p \in parts}
  BY DEF RowsOf
<1> HIDE DEF g, F
<1>4. OnePerRoot(parts) => OnePerRoot(F)
  BY <1>1, <1>2 DEF OnePerRoot
<1>5. \A defects : Clean(parts, defects) => Clean(F, defects)
  BY <1>1, <1>2 DEF Clean
<1> QED BY <1>1, <1>2, <1>4, <1>5 DEF F

LEMMA VettedEnforced ==
  ASSUME NEW d, NEW slots, NEW src, Vetted(d, slots, src), Clean(Contents(d, src), OverrideSlots(slots))
  PROVE  Clean(Contents(d, src), Enforced(slots))
BY DEF Vetted, Clean, Enforced

\* The registered tree of a tidy cell, and what the catalog says of it.
LEMMA TidyReads ==
  ASSUME NEW d, NEW t, Tidy(CellOf(d, Fold[t])), Registered(d, t)
  PROVE  LET q == TreeRow(d, t)  C == CellOf(d, Fold[t]) IN
         /\ q.t = t /\ C["trees"] = {q} /\ TidyTree(C, q)
         /\ SlotsOf(d, t) = SlotsIn(C) /\ PredsOf(d, t) = PredsIn(C)
<1> DEFINE q == TreeRow(d, t)
<1> DEFINE m == Fold[t]
<1> DEFINE C == CellOf(d, m)
<1>1. q \in d["trees"] /\ q.t = t
  BY DEF TreeRow, Registered
<1>2. C["trees"] = Cell(d, "trees", m) /\ C["slots"] = Cell(d, "slots", m) /\ C["predicates"] = Cell(d, "predicates", m)
  BY CellIn, RelationsAreCells
<1>3. q \in C["trees"]
  BY <1>1, <1>2 DEF Cell, Owner
<1>4. NoCell["trees"] = {}
  BY RelationsAreCells DEF NoCell
<1> HIDE DEF C, q, m
<1>5. C # NoCell
  BY <1>3, <1>4
<1>6. PICK r : C["trees"] = {r} /\ TidyTree(C, r)
  BY <1>5 DEF Tidy, C, m
<1>7. C["trees"] = {q} /\ TidyTree(C, q)
  BY <1>3, <1>6
<1>8. \A rel \in TreeKept : \A z \in C[rel] : z.t = t
  BY <1>1, <1>7 DEF TidyTree, Shaped
<1>9. \A z : z \in C["slots"] <=> z \in d["slots"] /\ z.t = t
  BY <1>2, <1>8 DEF Cell, Owner, TreeKept, m
<1>10. \A z : z \in C["predicates"] <=> z \in d["predicates"] /\ z.t = t
  BY <1>2, <1>8 DEF Cell, Owner, TreeKept, m
<1>11. SlotsOf(d, t) = SlotsIn(C)
  <2>1. \A z : z \in Select(d, "slots", [t |-> t]) <=> z \in C["slots"]
    BY <1>9, SelectTree
  <2> QED BY <2>1 DEF SlotsOf, SlotsIn
<1>12. PredsOf(d, t) = PredsIn(C)
  <2>1. \A z : z \in Select(d, "predicates", [t |-> t]) <=> z \in C["predicates"]
    BY <1>10, SelectTree
  <2> QED BY <2>1 DEF PredsOf, PredsIn
<1> QED BY <1>1, <1>7, <1>11, <1>12 DEF C, q, m

\* A name no registered tree folds to has an empty cell.
LEMMA TidyEmpty ==
  ASSUME NEW d, NEW t, Tidy(CellOf(d, Fold[t])), ~Registered(d, t), ~Collides(d, t)
  PROVE  CellOf(d, Fold[t]) = NoCell
<1> DEFINE m == Fold[t]
<1> DEFINE C == CellOf(d, m)
<1>1. C["trees"] = Cell(d, "trees", m)
  BY CellIn, RelationsAreCells
<1>2. \A q : q \notin C["trees"]
  BY <1>1 DEF Cell, Owner, Registered, Collides
<1> HIDE DEF C, m
<1> QED BY <1>2 DEF Tidy, C, m

LEMMA CreatedTidy ==
  ASSUME NEW d, NEW D, NEW t, NEW abstract, NEW src, NEW storage, NEW slots, NEW preds, NEW sem, NEW n, NEW arb,
         Created(d, D, t, abstract, src, storage, slots, preds, sem, n),
         ~abstract /\ storage = "materialized" => D["rows"] = RowsOf(Fold[t], n, Contents(d, src), arb, n),
         ~(~abstract /\ storage = "materialized") => D["rows"] = {},
         slots \subseteq Slot, ~abstract => src # NULL, sem = Declares(slots, preds), OnePerRoot(Contents(d, src)),
         ~LevelBasis(slots) => HasKey(slots), KeysOnParents /\ HasKey(slots) => ~LevelBasis(slots),
         Lone /\ ~abstract /\ storage = "materialized" => ~arb
  PROVE  Tidy(D)
<1> DEFINE m == Fold[t]
<1> DEFINE parts == Contents(d, src)
<1> DEFINE os == OrderSource(slots)
<1> DEFINE q == [t |-> t, abstract |-> abstract, source |-> src, storage |-> storage,
                 ordersrc |-> os, sem |-> sem, by |-> n]
<1> DEFINE text == ServedBy(storage, t, slots, src)
<1> DEFINE proj == Projection(slots, src)
<1> DEFINE MA == MacrosOnFile(m, text, n)
<1>1. D["trees"] = {q} /\ q.t = t /\ q.abstract = abstract /\ q.source = src /\ q.storage = storage /\ q.sem = sem
  BY DEF Created, TreesOnFile
<1>2. Concrete(q) <=> ~abstract
  BY DEF Concrete
<1>3. Stores(q) <=> ~abstract /\ storage = "materialized"
  BY DEF Stores
<1>21. D["slots"] = SlotsOnFile(t, slots, slots, n) /\ D["predicates"] = PredsOnFile(t, preds, n)
  BY DEF Created
<1>22. D["assertions"] = {} /\ D["macros"] = IF abstract THEN {} ELSE MA
  BY DEF Created
<1>23. D["compiled"] = IF abstract THEN {} ELSE {TextOnFile(t, "projection", proj, n)}
                                              \cup TextsOnFile(t, "attribute_columns", MA, n)
  BY DEF Created
<1>24. Concrete(q) => Vetted(d, slots, src)
  BY <1>2 DEF Created
<1>25. Stores(q) => /\ D["tables"] = TablesOnFile(m, n) /\ D["partitions"] = PartsOnFile(t, D["rows"], {}, n)
                    /\ D["rows"] = RowsOf(m, n, parts, arb, n) /\ Clean(parts, OverrideSlots(slots))
  BY <1>3 DEF Created
<1>26. ~Stores(q) => D["tables"] = {} /\ D["partitions"] = {} /\ D["rows"] = {}
  BY <1>3 DEF Created
<1>5. \A r : r \in MA <=> r = [m |-> m, text |-> text, by |-> n]
  BY DEF MacrosOnFile
<1>6. \A r : r \in D["compiled"] <=>
        ~abstract /\ (r = TextOnFile(t, "projection", proj, n) \/ r = TextOnFile(t, "attribute_columns", text, n))
  <2>1. \A r : r \in TextsOnFile(t, "attribute_columns", MA, n) <=> r = TextOnFile(t, "attribute_columns", text, n)
    <3> DEFINE w == [m |-> m, text |-> text, by |-> n]
    <3>1. \A r : r \in MA <=> r = w
      BY <1>5
    <3> HIDE DEF MA, text
    <3>2. w.text = text
      OBVIOUS
    <3> HIDE DEF w
    <3> QED BY <3>1, <3>2 DEF TextsOnFile
  <2> HIDE DEF MA, text, proj
  <2> QED BY <1>23, <2>1
<1> HIDE DEF q
<1>7. \A art, u : LET r == TextOnFile(t, art, u, n) IN
        r.t = t /\ r.art = art /\ r.text = u /\ r = TextOnFile(r.t, r.art, r.text, r.by)
  BY DEF TextOnFile
<1>8. SlotsIn(D) = slots /\ PredsIn(D) = preds
  <2>1. SlotsIn(D) = slots
    BY <1>21, SlotsFiled DEF SlotsIn
  <2>2. PredsIn(D) = preds
    BY <1>21, PredsFiled DEF PredsIn
  <2> QED BY <2>1, <2>2
<1> HIDE DEF MA, text, proj, parts, m, os
<1>9. Shaped(D, q)
  <2>1. \A r \in D["slots"] : r.t = q.t
    BY <1>1, <1>21, SlotsFiled
  <2>2. \A r \in D["predicates"] : r.t = q.t
    BY <1>1, <1>21, PredsFiled
  <2>3. \A r \in D["compiled"] : r.t = q.t /\ r = TextOnFile(r.t, r.art, r.text, r.by)
    BY <1>1, <1>6, <1>7
  <2> DEFINE E == {}
  <2>0. \A e \in E : e.epoch \in Nat
    OBVIOUS
  <2> HIDE DEF E
  <2>4. \A r \in PartsOnFile(t, D["rows"], E, n) : r.t = t /\ OnFile(r)
    BY <2>0, PartsFiled
  <2>5. \A r \in D["partitions"] : r.t = q.t /\ OnFile(r)
    BY <1>1, <1>25, <1>26, <2>4 DEF E
  <2>6. \A r \in D["rows"] : {"m", "v", "root", "part", "arb"} \subseteq DOMAIN r
    BY <1>25, <1>26, RowsFiled
  <2>7. \A r \in D["assertions"] : r.t = q.t
    BY <1>22
  <2> QED BY <2>1, <2>2, <2>3, <2>5, <2>6, <2>7 DEF Shaped, TreeKept
<1>10. SlotsTidy(D, q)
  BY <1>1, <1>8, <1>21, SlotsFiled DEF SlotsTidy
<1>11. TextsTidy(D, q)
  <2>1. ~Concrete(q) => D["macros"] = {}
    BY <1>2, <1>22
  <2>2. Concrete(q) => q.source # NULL /\ D["macros"] # {} /\ \A r \in D["macros"] : r.text = text
    <3> DEFINE w == [m |-> m, text |-> text, by |-> n]
    <3>1. w.text = text
      OBVIOUS
    <3>2. \A r : r \in MA <=> r = w
      BY <1>5
    <3> HIDE DEF w
    <3> QED BY <1>1, <1>2, <1>22, <3>1, <3>2
  <2>3. Concrete(q) => /\ \E r \in D["compiled"] : r.art = "projection"
                       /\ \E r \in D["compiled"] : r.art = "attribute_columns"
                       /\ \A r \in D["compiled"] : \/ r.art = "projection" /\ r.text = proj
                                                   \/ r.art = "attribute_columns" /\ r.text = text
    BY <1>2, <1>6, <1>7
  <2>4. text = ServedBy(q.storage, q.t, SlotsIn(D), q.source) /\ proj = Projection(SlotsIn(D), q.source)
    BY <1>1, <1>8 DEF text, proj
  <2> QED BY <2>1, <2>2, <2>3, <2>4 DEF TextsTidy
<1>12. RowsTidy(D, q)
  <2>1. ~Stores(q) => D["tables"] = {} /\ D["rows"] = {} /\ D["partitions"] = {}
    BY <1>26
  <2> SUFFICES ASSUME Stores(q)
               PROVE /\ \E b : D["tables"] = TablesOnFile(Fold[q.t], b) /\ \A r \in D["rows"] : r.v = b
                     /\ OnePerRoot(D["rows"]) /\ OnePerRoot(D["partitions"])
                     /\ \A p \in D["partitions"] : \E r \in D["rows"] : r.root = p.root /\ r.part.n = p.n
                     /\ \A r \in D["rows"] : \E p \in D["partitions"] : r.root = p.root /\ r.part.n = p.n
    BY <2>1 DEF RowsTidy
  <2>2. D["tables"] = TablesOnFile(Fold[q.t], n) /\ \A r \in D["rows"] : r.v = n
    BY <1>1, <1>25, RowsFiled DEF m
  <2>3. OnePerRoot(D["rows"])
    BY <1>25, RowsFiled DEF parts
  <2> DEFINE E == {}
  <2> DEFINE RO == D["rows"]
  <2>4. D["partitions"] = PartsOnFile(t, RO, E, n)
    BY <1>25
  <2>0. \A e \in E : e.epoch \in Nat
    OBVIOUS
  <2> HIDE DEF E, RO
  <2> DEFINE F == PartsOnFile(t, RO, E, n)
  <2>6. /\ \A p \in F : /\ p.t = t /\ OnFile(p)
                        /\ \E r \in RO : p.root = r.root /\ r.part.n = p.n
        /\ \A r \in RO : \E p \in F : p.root = r.root /\ r.part.n = p.n
        /\ OnePerRoot(RO) => OnePerRoot(F)
    BY <2>0, PartsFiled, Zenon
  <2>5. /\ \A p \in F : \E r \in RO : p.root = r.root /\ r.part.n = p.n
        /\ \A r \in RO : \E p \in F : p.root = r.root /\ r.part.n = p.n
        /\ OnePerRoot(RO) => OnePerRoot(F)
    BY <2>6
  <2> QED BY <2>2, <2>3, <2>4, <2>5 DEF RO
<1>13. RowsSound(D)
  <2>1. CASE Stores(q)
    <3>1. Clean(D["rows"], Enforced(slots))
      <4>1. Clean(parts, Enforced(slots))
        BY <1>24, <1>25, <2>1, VettedEnforced DEF parts, Stores, Concrete
      <4> DEFINE defects == Enforced(slots)
      <4> HIDE DEF defects
      <4>2. Clean(parts, defects) => Clean(RowsOf(m, n, parts, arb, n), defects)
        BY RowsFiled
      <4> QED BY <1>25, <2>1, <4>1, <4>2 DEF defects
    <3>2. HasKey(slots) => Clean(D["rows"], {"key"})
      <4> DEFINE defects == {"key"}
      <4>1. HasKey(slots) => Clean(parts, defects)
        BY <1>2, <1>24, <2>1 DEF Stores, Concrete, Vetted, parts
      <4> HIDE DEF defects
      <4>2. Clean(parts, defects) => Clean(RowsOf(m, n, parts, arb, n), defects)
        BY RowsFiled
      <4> QED BY <1>25, <2>1, <4>1, <4>2 DEF defects
    <3>3. \A r \in D["rows"] : r.arb = arb
      BY <1>25, <2>1, RowsFiled
    <3> QED BY <1>3, <1>8, <2>1, <3>1, <3>2, <3>3 DEF RowsSound
  <2>2. CASE ~Stores(q)
    BY <1>8, <1>26, <2>2 DEF RowsSound, Clean
  <2> QED BY <2>1, <2>2
<1>14. VerdictsTidy(D, q)
  BY <1>22 DEF VerdictsTidy
<1> QED BY <1>1, <1>9, <1>10, <1>11, <1>12, <1>13, <1>14 DEF Tidy, TidyTree

LEMMA DeclaresMore ==
  ASSUME NEW a, NEW b, NEW p, NEW q, a \subseteq b, p \subseteq q, Declares(a, p)
  PROVE  Declares(b, q)
BY DEF Declares

\* A source's rows of one ROOT are one partition, in every source.
SourcesTidy(d) == \A src : OnePerRoot(Contents(d, src))

\* What create declares is what its semantic flag says, the flag of a tree it is
\* LIKE included.
LEMMA CreateDeclares ==
  ASSUME NEW d, \A m : Tidy(CellOf(d, m)), NEW p, NEW t, NEW spec, spec.slots \subseteq Slot,
         ~CompileCreate(d, p, t, spec).refused
  PROVE  LET slots == CreateSlots(d, spec)  preds == CreatePreds(d, spec) IN
         /\ slots \subseteq Slot
         /\ CreateLike(d, spec) => Declares(slots, preds)
         /\ CreateLike(d, spec) \in BOOLEAN
         /\ spec.like = NULL => (HasKey(slots) <=> HasKey(spec.slots)) /\ (LevelBasis(slots) <=> LevelBasis(spec.slots))
<1> DEFINE slots == CreateSlots(d, spec)
<1> DEFINE preds == CreatePreds(d, spec)
<1>1. "ATTR" \in Slot
  BY DEF Slot, SSlot
<1>2. CASE spec.like = NULL
  <2>1. slots = spec.slots \cup {"ATTR"} /\ ~CreateLike(d, spec) /\ CreateLike(d, spec) \in BOOLEAN
    BY <1>2 DEF CreateSlots, CreateLike
  <2> HIDE DEF slots, preds
  <2>2. slots \subseteq Slot
    BY <1>1, <2>1
  <2>3. LevelBasis(slots) <=> LevelBasis(spec.slots)
    BY <2>1 DEF LevelBasis
  <2>4. HasKey(slots) <=> HasKey(spec.slots)
    BY <2>1, Zenon DEF HasKey
  <2> QED BY <2>1, <2>2, <2>3, <2>4 DEF slots, preds
<1>3. CASE spec.like # NULL
  <2> DEFINE like == spec.like
  <2> DEFINE S == SlotsOf(d, like)
  <2> DEFINE Q == PredsOf(d, like)
  <2>1. slots = spec.slots \cup S \cup {"ATTR"} /\ preds = Expand(slots, spec.preds \cup Q)
    BY <1>3 DEF CreateSlots, CreatePreds
  <2>2. CreateLike(d, spec) = IF Registered(d, like) THEN TreeRow(d, like).sem ELSE FALSE
    BY <1>3 DEF CreateLike
  <2>3. S # {}
    BY <1>3 DEF CompileCreate, Refused
  <2> HIDE DEF slots, preds, like
  <2>4. Registered(d, like)
    <3> SUFFICES ASSUME ~Registered(d, like) PROVE FALSE
      OBVIOUS
    <3>1. PICK r \in d["slots"] : r.t = like
      BY <2>3, SelectTree DEF SlotsOf
    <3> DEFINE C == CellOf(d, Fold[like])
    <3>2. C["slots"] = Cell(d, "slots", Fold[like]) /\ C["trees"] = Cell(d, "trees", Fold[like]) /\ Tidy(C)
      BY CellIn, RelationsAreCells
    <3>3. r \in C["slots"]
      BY <3>1, <3>2 DEF Cell, Owner
    <3>4. NoCell["slots"] = {}
      BY RelationsAreCells DEF NoCell
    <3> HIDE DEF C
    <3>5. PICK q : C["trees"] = {q} /\ TidyTree(C, q)
      BY <3>2, <3>3, <3>4 DEF Tidy
    <3>6. q.t = like /\ q \in d["trees"]
      BY <3>1, <3>2, <3>3, <3>5 DEF TidyTree, Shaped, TreeKept, Cell
    <3> QED BY <3>6 DEF Registered
  <2> DEFINE q == TreeRow(d, like)
  <2>5. LET C == CellOf(d, Fold[like]) IN TidyTree(C, q) /\ S = SlotsIn(C) /\ Q = PredsIn(C)
    BY <2>4, TidyReads
  <2>6. q.sem = Declares(S, Q) /\ S \subseteq Slot
    BY <2>5 DEF TidyTree, SlotsTidy, SlotsIn
  <2> HIDE DEF S, Q, q
  <2>7. slots \subseteq Slot /\ S \subseteq slots
    BY <1>1, <2>1, <2>6
  <2>8. Q \subseteq preds
    BY <2>1 DEF Expand
  <2>9. CreateLike(d, spec) = q.sem
    BY <2>2, <2>4 DEF q
  <2>10. CreateLike(d, spec) = Declares(S, Q)
    BY <2>6, <2>9
  <2>11. Declares(S, Q) \in BOOLEAN
    BY DEF Declares
  <2> QED BY <1>3, <2>7, <2>8, <2>10, <2>11, DeclaresMore DEF slots, preds
<1> QED BY <1>2, <1>3

\* Create leaves a tidy cell.
LEMMA CreateTidies ==
  ASSUME NEW d0, \A m : Tidy(CellOf(d0, m)), NEW p0, NEW t, NEW spec, spec.slots \subseteq Slot,
         KeysOnParents => spec.like = NULL /\ (HasKey(spec.slots) => ~LevelBasis(spec.slots)),
         ~CompileCreate(d0, p0, t, spec).refused,
         NEW n, NEW P, Lone => \A p \in P : p = p0, NEW x, NEW y, DOMAIN x.d = Relation, SourcesTidy(x.d),
         CellOf(x.d, Fold[t]) = CellOf(d0, Fold[t]),
         Runs(CompileCreate(d0, p0, t, spec).list, n, P, x, y)
  PROVE  /\ Within(x.d, y.d, Fold[t]) /\ Tidy(CellOf(y.d, Fold[t]))
         /\ CellOf(x.d, Fold[t]) = NoCell
<1> DEFINE slots == CreateSlots(d0, spec)
<1> DEFINE preds == CreatePreds(d0, spec)
<1> DEFINE sem == Declares(slots, preds) \/ CreateLike(d0, spec)
<1> DEFINE m == Fold[t]
<1>1. /\ CompileCreate(d0, p0, t, spec).list =
           CreateList(t, spec.abstract, spec.source, spec.storage, slots, preds, sem)
      /\ ~LevelBasis(slots) => HasKey(slots)
      /\ ~Registered(d0, t) /\ ~Collides(d0, t) /\ (~spec.abstract => spec.source # NULL)
      /\ ~spec.abstract /\ OrderSource(slots) = "frozen" => p0
  BY CreateIs
<1>2. CellOf(x.d, m) = NoCell
  BY <1>1, TidyEmpty
<1>3. /\ slots \subseteq Slot
      /\ CreateLike(d0, spec) => Declares(slots, preds)
      /\ CreateLike(d0, spec) \in BOOLEAN
      /\ spec.like = NULL => (HasKey(slots) <=> HasKey(spec.slots)) /\ (LevelBasis(slots) <=> LevelBasis(spec.slots))
  BY CreateDeclares
<1>4. sem = Declares(slots, preds)
  <2> Declares(slots, preds) \in BOOLEAN
    BY DEF Declares
  <2> QED BY <1>3
<1> DEFINE abstract == spec.abstract
<1> DEFINE src == spec.source
<1> DEFINE storage == spec.storage
<1>5. Runs(CreateList(t, abstract, src, storage, slots, preds, sem), n, P, x, y)
  BY <1>1
<1> HIDE DEF slots, preds, sem, abstract, src, storage
<1> DEFINE D == CellOf(y.d, m)
<1>6. /\ Turns(x.d, y.d, m, D)
      /\ Created(x.d, D, t, abstract, src, storage, slots, preds, sem, n)
      /\ ~abstract /\ storage = "materialized" =>
           \E p \in P : D["rows"] = RowsOf(m, n, Contents(x.d, src), Loose(p, OrderSource(slots)), n)
      /\ ~(~abstract /\ storage = "materialized") => D["rows"] = {}
  BY <1>1, <1>2, <1>5, CreateRuns DEF abstract, src
<1>7. PICK arb : ~abstract /\ storage = "materialized" =>
        D["rows"] = RowsOf(m, n, Contents(x.d, src), arb, n) /\ \E p \in P : arb = Loose(p, OrderSource(slots))
  BY <1>6
<1>8. Lone /\ ~abstract /\ storage = "materialized" => ~arb
  BY <1>1, <1>7 DEF Loose, abstract
<1>9. OnePerRoot(Contents(x.d, src))
  BY DEF SourcesTidy
<1>10. KeysOnParents /\ HasKey(slots) => ~LevelBasis(slots)
  BY <1>3
<1>11. Tidy(D)
  BY <1>1, <1>3, <1>4, <1>6, <1>7, <1>8, <1>9, <1>10, CreatedTidy DEF abstract, src
<1> QED BY <1>2, <1>6, <1>11 DEF Turns

-----------------------------------------------------------------------------
(* tree_compile_drop, run to its end.                                      *)

LEMMA RunsIt ==
  ASSUME NEW st, NEW n, NEW P, NEW x, NEW y, NEW p \in P, Does(x, st, n, p, y)
  PROVE  Runs(<<st>>, n, P, x, y)
<1> DEFINE f == [i \in 0 .. 1 |-> IF i = 0 THEN x ELSE y]
<1>1. f[0] = x /\ f[1] = y
  OBVIOUS
<1>2. Len(<<st>>) = 1 /\ <<st>>[1] = st /\ 1 .. 1 = {1} /\ 1 - 1 = 0
  BY OneList
<1> HIDE DEF f
<1>3. \A i \in 1 .. 1 : \E q \in P : Does(f[i - 1], <<st>>[i], n, q, f[i])
  BY <1>1, <1>2
<1> QED BY <1>1, <1>2, <1>3 DEF Runs

\* DELETE FROM rel of every row of t, and what is left of the cell.
Deletes(rel, t) == DeleteFrom(rel, [t |-> t])
Less(C, rel, t) == Cut(C, rel, ThoseOf(C[rel], t))

LEMMA RunsDeletes ==
  ASSUME NEW t, NEW n, NEW P, NEW x, NEW y, DOMAIN x.d = Relation,
         NEW rel \in {"trees", "slots", "predicates", "compiled", "partitions", "assertions"},
         Runs(Deletes(rel, t), n, P, x, y)
  PROVE  /\ y.tmp = x.tmp /\ DOMAIN y.d = Relation /\ Within(x.d, y.d, Fold[t])
         /\ CellOf(y.d, Fold[t]) = Less(CellOf(x.d, Fold[t]), rel, t)
<1>1. rel \in Cells
  BY DEF Cells, Relation
<1>2. Cell(x.d, rel, Fold[t]) = CellOf(x.d, Fold[t])[rel]
  BY <1>1, CellIn
<1>3. y.tmp = x.tmp /\ Turns(x.d, y.d, Fold[t], Cut(CellOf(x.d, Fold[t]), rel, ThoseOf(Cell(x.d, rel, Fold[t]), t)))
  BY RunsNoRows DEF Deletes
<1> QED BY <1>2, <1>3, TurnsDomain DEF Less, Turns

LEMMA DropLists ==
  ASSUME NEW t
  PROVE  LET l == DeleteFromEach(DroppedFrom, [t |-> t]) IN
         /\ IsList(l) /\ Len(l) = 6
         /\ \A i \in 1 .. 6 : <<l[i]>> = DeleteFrom(DroppedFrom[i], [t |-> t])
<1> DEFINE st(i) == [op |-> "delete", rel |-> DroppedFrom[i], where |-> [t |-> t]]
<1> DEFINE l == DeleteFromEach(DroppedFrom, [t |-> t])
<1>1. DOMAIN DroppedFrom = 1 .. 6
  BY DEF DroppedFrom
<1>2. l = [i \in 1 .. 6 |-> st(i)]
  BY <1>1 DEF DeleteFromEach
<1>3. \A i \in 1 .. 6 : <<st(i)>> = DeleteFrom(DroppedFrom[i], [t |-> t])
  BY DEF DeleteFrom
<1> HIDE DEF st, l
<1>4. l \in Seq({st(i) : i \in 1 .. 6}) /\ Len(l) = 6
  BY <1>2
<1>5. IsList(l)
  BY <1>4, ListOf
<1> QED BY <1>2, <1>3, <1>4, <1>5 DEF l

\* Drop leaves an empty cell.
LEMMA DropTidies ==
  ASSUME NEW d0, \A m : Tidy(CellOf(d0, m)), NEW t, ~CompileDrop(d0, t).refused,
         NEW n, NEW P, NEW x, NEW y, DOMAIN x.d = Relation, CellOf(x.d, Fold[t]) = CellOf(d0, Fold[t]),
         Runs(CompileDrop(d0, t).list, n, P, x, y)
  PROVE  /\ Within(x.d, y.d, Fold[t]) /\ Tidy(CellOf(y.d, Fold[t]))
         /\ CellOf(y.d, Fold[t]) = NoCell
<1> DEFINE m == Fold[t]
<1> DEFINE where == [t |-> t]
<1> DEFINE l == DeleteFromEach(DroppedFrom, where)
<1> DEFINE mac == Tree("drop_macro", t)
<1> DEFINE tab == Tree("drop_table", t)
<1>1. Registered(d0, t) /\ Runs(l \o mac \o tab, n, P, x, y)
  BY DEF CompileDrop, Refused, Compiled
<1>2. IsList(l) /\ IsList(mac) /\ IsList(tab) /\ Len(l) = 6
  BY DropLists, StatementLists
<1> HIDE DEF l, mac, tab
<1>3. IsList(l \o mac)
  BY <1>2, ListsJoin
<1>4. PICK z7 : Runs(l \o mac, n, P, x, z7) /\ Runs(tab, n, P, z7, y)
  BY <1>1, <1>2, <1>3, RunsBoth
<1>5. PICK z6 : Runs(l, n, P, x, z6) /\ Runs(mac, n, P, z6, z7)
  BY <1>2, <1>4, RunsBoth
<1>6. PICK f : f[0] = x /\ f[6] = z6 /\ \A i \in 1 .. 6 : \E p \in P : Does(f[i - 1], l[i], n, p, f[i])
  BY <1>2, <1>5 DEF Runs
<1>7. ASSUME NEW i \in 1 .. 6 PROVE Runs(Deletes(DroppedFrom[i], t), n, P, f[i - 1], f[i])
  <2>1. PICK p \in P : Does(f[i - 1], l[i], n, p, f[i])
    BY <1>6
  <2>2. Runs(<<l[i]>>, n, P, f[i - 1], f[i])
    BY <2>1, RunsIt
  <2>3. <<l[i]>> = Deletes(DroppedFrom[i], t)
    BY DropLists DEF l, Deletes
  <2> QED BY <2>2, <2>3
<1>8. /\ DroppedFrom[1] = "trees" /\ DroppedFrom[2] = "slots" /\ DroppedFrom[3] = "predicates"
      /\ DroppedFrom[4] = "compiled" /\ DroppedFrom[5] = "partitions" /\ DroppedFrom[6] = "assertions"
      /\ 1 - 1 = 0 /\ 2 - 1 = 1 /\ 3 - 1 = 2 /\ 4 - 1 = 3 /\ 5 - 1 = 4 /\ 6 - 1 = 5
      /\ 1 \in 1 .. 6 /\ 2 \in 1 .. 6 /\ 3 \in 1 .. 6 /\ 4 \in 1 .. 6 /\ 5 \in 1 .. 6 /\ 6 \in 1 .. 6
  BY DEF DroppedFrom
<1>9. /\ Runs(Deletes("trees", t), n, P, f[0], f[1]) /\ Runs(Deletes("slots", t), n, P, f[1], f[2])
      /\ Runs(Deletes("predicates", t), n, P, f[2], f[3])
      /\ Runs(Deletes("compiled", t), n, P, f[3], f[4])
      /\ Runs(Deletes("partitions", t), n, P, f[4], f[5])
      /\ Runs(Deletes("assertions", t), n, P, f[5], f[6])
  BY <1>7, <1>8
<1> DEFINE C(z) == CellOf(z.d, m)
<1> DEFINE G(z, w, rel) == DOMAIN w.d = Relation /\ Within(z.d, w.d, m) /\ C(w) = Less(C(z), rel, t)
<1>10. G(x, f[1], "trees")
  BY <1>6, <1>9, RunsDeletes
<1>11. G(f[1], f[2], "slots")
  BY <1>9, <1>10, RunsDeletes
<1>12. G(f[2], f[3], "predicates")
  BY <1>9, <1>11, RunsDeletes
<1>13. G(f[3], f[4], "compiled")
  BY <1>9, <1>12, RunsDeletes
<1>14. G(f[4], f[5], "partitions")
  BY <1>9, <1>13, RunsDeletes
<1>15. G(f[5], z6, "assertions")
  BY <1>6, <1>9, <1>14, RunsDeletes
<1>17. Turns(z6.d, z7.d, m, Put(C(z6), "macros", {})) /\ DOMAIN z7.d = Relation
  BY <1>5, <1>15, RunsDropMacro, TurnsDomain DEF mac
<1>18. Turns(z7.d, y.d, m, NoTable(C(z7)))
  BY <1>4, <1>17, RunsDropTable DEF tab
<1>19. Within(x.d, y.d, m)
  BY <1>10, <1>11, <1>12, <1>13, <1>14, <1>15, <1>17, <1>18, WithinBoth DEF Turns
<1> DEFINE q == TreeRow(d0, t)
<1>20. q.t = t /\ C(x)["trees"] = {q} /\ DOMAIN C(x) = Cells /\ \A rel \in TreeKept : \A r \in C(x)[rel] : r.t = t
  BY <1>1, TidyReads, CellIn DEF TidyTree, Shaped
<1> HIDE DEF C, q, m
<1>22. /\ DOMAIN C(f[1]) = Cells /\ C(f[1])["trees"] = {}
       /\ \A rel \in Cells \ {"trees"} : C(f[1])[rel] = C(x)[rel]
  BY <1>10, <1>20, RelationsAreCells DEF Less, Cut, ThoseOf
<1>23. /\ DOMAIN C(f[2]) = Cells /\ C(f[2])["trees"] = {} /\ C(f[2])["slots"] = {}
       /\ \A rel \in Cells \ {"trees", "slots"} : C(f[2])[rel] = C(x)[rel]
  BY <1>11, <1>20, <1>22, RelationsAreCells DEF Less, Cut, ThoseOf, TreeKept
<1>24. /\ DOMAIN C(f[3]) = Cells /\ C(f[3])["trees"] = {} /\ C(f[3])["slots"] = {} /\ C(f[3])["predicates"] = {}
       /\ \A rel \in Cells \ {"trees", "slots", "predicates"} : C(f[3])[rel] = C(x)[rel]
  BY <1>12, <1>20, <1>23, RelationsAreCells DEF Less, Cut, ThoseOf, TreeKept
<1>25. /\ DOMAIN C(f[4]) = Cells /\ C(f[4])["trees"] = {} /\ C(f[4])["slots"] = {} /\ C(f[4])["predicates"] = {}
       /\ C(f[4])["compiled"] = {}
       /\ \A rel \in Cells \ {"trees", "slots", "predicates", "compiled"} : C(f[4])[rel] = C(x)[rel]
  BY <1>13, <1>20, <1>24, RelationsAreCells DEF Less, Cut, ThoseOf, TreeKept
<1>26. /\ DOMAIN C(f[5]) = Cells /\ C(f[5])["partitions"] = {} /\ C(f[5])["assertions"] = C(x)["assertions"]
       /\ \A rel \in {"trees", "slots", "predicates", "compiled"} : C(f[5])[rel] = {}
  BY <1>14, <1>20, <1>25, RelationsAreCells DEF Less, Cut, ThoseOf, TreeKept
<1>27. DOMAIN C(z6) = Cells /\ \A rel \in TreeKept \cup {"trees"} : C(z6)[rel] = {}
  BY <1>15, <1>20, <1>26, RelationsAreCells DEF Less, Cut, ThoseOf, TreeKept
<1>28. DOMAIN C(z7) = Cells /\ \A rel \in TreeKept \cup {"trees", "macros"} : C(z7)[rel] = {}
  <2>1. C(z7) = Put(C(z6), "macros", {})
    BY <1>17, TurnsDomain DEF C
  <2> QED BY <1>27, <2>1, RelationsAreCells DEF Put, TreeKept
<1>29. C(y) = NoCell
  <2>1. C(y) = NoTable(C(z7))
    BY <1>18, TurnsDomain DEF C
  <2>2. DOMAIN C(y) = Cells /\ \A rel \in TreeKept \cup {"trees", "macros", "tables", "rows"} : C(y)[rel] = {}
    BY <1>28, <2>1, RelationsAreCells DEF NoTable, Put, TreeKept
  <2>3. Cells = TreeKept \cup {"trees", "macros", "tables", "rows"}
    BY DEF Cells, Relation, TreeKept
  <2>4. C(y) = [rel \in Cells |-> C(y)[rel]]
    BY DEF C, CellOf
  <2> QED BY <2>2, <2>3, <2>4 DEF NoCell
<1> QED BY <1>19, <1>29 DEF Tidy, C, m

-----------------------------------------------------------------------------
(* The DML compilers' lists, run to their ends.                            *)

\* A tree a DML verb may be applied to, in a tidy database.
LEMMA ContextTidy ==
  ASSUME NEW d, NEW t, Tidy(CellOf(d, Fold[t])), NEW verb, HasContext(d, t, verb)
  PROVE  LET q == TreeRow(d, t)  C == CellOf(d, Fold[t]) IN
         /\ q.t = t /\ C["trees"] = {q} /\ TidyTree(C, q) /\ SlotsOf(d, t) = SlotsIn(C)
         /\ Concrete(q) /\ (verb # "tree_check" => Stores(q))
BY TidyReads DEF HasContext, Concrete, Stores

\* Other rows and other partitions, as tidy as those before them.
LEMMA RowsTurnTidy ==
  ASSUME NEW C, NEW D, NEW q, C["trees"] = {q}, TidyTree(C, q), Stores(q),
         \A rel \in Cells \ {"rows", "partitions"} : D[rel] = C[rel],
         \A r \in D["rows"] : {"m", "v", "root", "part", "arb"} \subseteq DOMAIN r,
         \E b : C["tables"] = TablesOnFile(Fold[q.t], b) /\ \A r \in D["rows"] : r.v = b,
         \A p \in D["partitions"] : p.t = q.t /\ OnFile(p),
         OnePerRoot(D["rows"]), OnePerRoot(D["partitions"]),
         \A p \in D["partitions"] : \E r \in D["rows"] : r.root = p.root /\ r.part.n = p.n,
         \A r \in D["rows"] : \E p \in D["partitions"] : r.root = p.root /\ r.part.n = p.n,
         RowsSound(D)
  PROVE  Tidy(D)
<1>1. /\ D["trees"] = {q} /\ D["slots"] = C["slots"] /\ D["predicates"] = C["predicates"]
      /\ D["compiled"] = C["compiled"] /\ D["assertions"] = C["assertions"]
      /\ D["tables"] = C["tables"] /\ D["macros"] = C["macros"]
  BY RelationsAreCells
<1>2. Shaped(D, q)
  BY <1>1 DEF TidyTree, Shaped, TreeKept
<1>3. SlotsIn(D) = SlotsIn(C) /\ PredsIn(D) = PredsIn(C)
  BY <1>1 DEF SlotsIn, PredsIn
<1>4. SlotsTidy(D, q)
  BY <1>1, <1>3 DEF TidyTree, SlotsTidy
<1>5. TextsTidy(D, q)
  BY <1>1, <1>3 DEF TidyTree, TextsTidy
<1>6. RowsTidy(D, q)
  BY <1>1 DEF RowsTidy
<1>7. VerdictsTidy(D, q)
  BY <1>1, <1>3 DEF TidyTree, VerdictsTidy
<1> QED BY <1>1, <1>2, <1>4, <1>5, <1>6, <1>7 DEF Tidy, TidyTree

LEMMA ReachKeyIs ==
  ASSUME NEW slots
  PROVE  ReachKey(slots) <=> ~LevelBasis(slots) /\ HasKey(slots)
BY Zenon DEF ReachKey, HasKey

\* The temporary tables once the source is staged.
Ready(parts, arb, epochs) == [new |-> parts, arb |-> arb, epochs |-> epochs, gone |-> {}]

LEMMA RunsStage ==
  ASSUME NEW t, NEW src, NEW ordersrc, NEW n, NEW P, NEW x, NEW y, x.tmp = NoTemp,
         Runs(Project("stage", t, src, ordersrc), n, P, x, y)
  PROVE  y.d = x.d /\ \E p \in P : y.tmp = Ready(Contents(x.d, src), Loose(p, ordersrc), {})
<1> DEFINE st == [op |-> "stage", t |-> t, src |-> src, frozen |-> ordersrc = "frozen"]
<1>1. PICK p \in P : Does(x, st, n, p, y)
  BY RunsOne DEF Project
<1>2. y.tmp = [x.tmp EXCEPT !.new = Contents(x.d, st.src), !.arb = ~p /\ st.frozen]
  BY <1>1 DEF Does, Staged
<1>3. y.d = x.d
  BY <1>1 DEF Does, Effect
<1> DEFINE arb == Loose(p, ordersrc)
<1> DEFINE parts == Contents(x.d, src)
<1>4. y.tmp = [NoTemp EXCEPT !.new = parts, !.arb = arb]
  BY <1>2 DEF Loose
<1> HIDE DEF arb, parts
<1>5. y.tmp = Ready(parts, arb, {})
  BY <1>4 DEF NoTemp, Ready
<1> QED BY <1>3, <1>5 DEF arb, parts

\* What insert and replace run first.
Staging(t, slots, src, key, ordersrc) ==
  FrozenGuard(ordersrc) \o SourceChecks(slots, src, key) \o Project("stage", t, src, ordersrc)
  \o When(key, CheckNew({"reach"})) \o CheckNew({"shadow"})

LEMMA RunsCheckStaged ==
  ASSUME NEW defects, NEW n, NEW P, NEW x, NEW y, Runs(CheckNew(defects), n, P, x, y)
  PROVE  y.d = x.d /\ y.tmp = x.tmp /\ Clean(x.tmp.new, defects)
BY DoesCheck DEF CheckNew, Clean

LEMMA StagingList ==
  ASSUME NEW t, NEW slots, NEW src, NEW key, NEW ordersrc
  PROVE  IsList(Staging(t, slots, src, key, ordersrc)) /\ IsList(NewPartitionChecks(slots))
<1>1. IsList(Staging(t, slots, src, key, ordersrc))
  BY StatementLists, WhenList, SourceChecksList, ListsJoin DEF Staging
<1>2. IsList(NewPartitionChecks(slots))
  BY StatementLists, WhenList, ListsJoin DEF NewPartitionChecks
<1> QED BY <1>1, <1>2

LEMMA RunsStaging ==
  ASSUME NEW t, NEW slots, NEW src, src # NULL, NEW key, NEW ordersrc, NEW n, NEW P, NEW x, NEW y, x.tmp = NoTemp,
         Runs(Staging(t, slots, src, key, ordersrc), n, P, x, y)
  PROVE  LET parts == Contents(x.d, src) IN
         /\ y.d = x.d /\ \E p \in P : y.tmp = Ready(parts, Loose(p, ordersrc), {})
         /\ ordersrc = "frozen" => \E p \in P : p
         /\ "ORDER" \in slots => Clean(parts, {"order"})
         /\ key => Clean(parts, {"key"}) /\ Clean(parts, {"reach"})
         /\ Clean(parts, {"shadow"})
<1> DEFINE parts == Contents(x.d, src)
<1> DEFINE a == FrozenGuard(ordersrc)
<1> DEFINE b == SourceChecks(slots, src, key)
<1> DEFINE c == Project("stage", t, src, ordersrc)
<1> DEFINE e == When(key, CheckNew({"reach"}))
<1> DEFINE g == CheckNew({"shadow"})
<1>1. IsList(a) /\ IsList(b) /\ IsList(c) /\ IsList(e) /\ IsList(g) /\ Runs(a \o b \o c \o e \o g, n, P, x, y)
  BY StatementLists, WhenList, SourceChecksList DEF Staging
<1> HIDE DEF a, b, c, e, g
<1>2. IsList(a \o b) /\ IsList(a \o b \o c) /\ IsList(a \o b \o c \o e)
  BY <1>1, ListsJoin
<1>3. PICK z4 : Runs(a \o b \o c \o e, n, P, x, z4) /\ Runs(g, n, P, z4, y)
  BY <1>1, <1>2, RunsBoth
<1>4. PICK z3 : Runs(a \o b \o c, n, P, x, z3) /\ Runs(e, n, P, z3, z4)
  BY <1>1, <1>2, <1>3, RunsBoth
<1>5. PICK z2 : Runs(a \o b, n, P, x, z2) /\ Runs(c, n, P, z2, z3)
  BY <1>1, <1>2, <1>4, RunsBoth
<1>6. PICK z1 : Runs(a, n, P, x, z1) /\ Runs(b, n, P, z1, z2)
  BY <1>1, <1>5, RunsBoth
<1>7. z1.d = x.d /\ z1.tmp = x.tmp /\ (ordersrc = "frozen" => \E p \in P : p)
  BY <1>6, DoesFrozenGuard DEF a
<1>8. /\ z2.d = z1.d /\ z2.tmp = z1.tmp
      /\ "ORDER" \in slots => Clean(Contents(z1.d, src), {"order"})
      /\ key => Clean(Contents(z1.d, src), {"key"})
  BY <1>6, RunsSourceChecks DEF b
<1>9. z3.d = x.d /\ \E p \in P : z3.tmp = Ready(parts, Loose(p, ordersrc), {})
  <2>1. z3.d = z2.d /\ \E p \in P : z3.tmp = Ready(Contents(z2.d, src), Loose(p, ordersrc), {})
    BY <1>5, <1>7, <1>8, RunsStage DEF c
  <2> QED BY <1>7, <1>8, <2>1
<1>10. PICK arb : z3.tmp = Ready(parts, arb, {}) /\ \E p \in P : arb = Loose(p, ordersrc)
  BY <1>9
<1>11. z3.tmp.new = parts
  BY <1>10 DEF Ready
<1>12. z4.d = z3.d /\ z4.tmp = z3.tmp /\ (key => Clean(z3.tmp.new, {"reach"}))
  BY <1>4, RunsCheckNew DEF e
<1>13. y.d = z4.d /\ y.tmp = z4.tmp /\ Clean(z4.tmp.new, {"shadow"})
  BY <1>3, RunsCheckStaged DEF g
<1> QED BY <1>7, <1>8, <1>9, <1>11, <1>12, <1>13

LEMMA RunsNewChecks ==
  ASSUME NEW slots, NEW n, NEW P, NEW x, NEW y, Runs(NewPartitionChecks(slots), n, P, x, y)
  PROVE  y.d = x.d /\ y.tmp = x.tmp /\ Clean(x.tmp.new, P13Arms) /\ Clean(x.tmp.new, OverrideSlots(slots))
<1> DEFINE a == CheckNew(P13Arms)
<1> DEFINE defects == OverrideSlots(slots)
<1> DEFINE some == defects # {}
<1> DEFINE b == When(some, CheckNew(defects))
<1>1. IsList(a) /\ IsList(b) /\ Runs(a \o b, n, P, x, y)
  BY StatementLists, WhenList DEF NewPartitionChecks
<1> HIDE DEF a, b
<1>2. PICK z : Runs(a, n, P, x, z) /\ Runs(b, n, P, z, y)
  BY <1>1, RunsBoth
<1>3. z.d = x.d /\ z.tmp = x.tmp /\ Clean(x.tmp.new, P13Arms)
  BY <1>2, RunsCheckStaged DEF a
<1>4. y.d = z.d /\ y.tmp = z.tmp /\ (some => Clean(z.tmp.new, defects))
  <2> HIDE DEF some, defects
  <2> QED BY <1>2, RunsCheckNew DEF b
<1>5. ~some => Clean(x.tmp.new, defects)
  BY DEF Clean
<1> QED BY <1>3, <1>4, <1>5

\* What the ingest checks say of the staged partitions: no less than the
\* declaration promises of the stored ones.
LEMMA IngestEnforced ==
  ASSUME NEW parts, NEW slots, ~LevelBasis(slots) => HasKey(slots), "ORDER" \in slots => Clean(parts, {"order"}),
         ReachKey(slots) => Clean(parts, {"key"}) /\ Clean(parts, {"reach"}),
         Clean(parts, {"shadow"}), Clean(parts, P13Arms), Clean(parts, OverrideSlots(slots))
  PROVE  Clean(parts, Enforced(slots)) /\ (~LevelBasis(slots) => Clean(parts, {"key"}))
<1>1. ~LevelBasis(slots) => Clean(parts, {"key"}) /\ Clean(parts, {"reach"})
  BY ReachKeyIs
<1>2. Clean(parts, Enforced(slots))
  BY <1>1 DEF Clean, Enforced
<1> QED BY <1>1, <1>2

\* Partitions of other roots, added to a tidy cell's rows and to its partitions.
Grown(C, q, b, parts, arb, epochs, n) ==
  Add(Add(C, "rows", RowsOf(Fold[q.t], b, parts, arb, n)), "partitions", PartsOnFile(q.t, parts, epochs, n))

LEMMA AddedTidy ==
  ASSUME NEW C, NEW q, NEW parts, NEW arb, NEW epochs, \A e \in epochs : e.epoch \in Nat, NEW b, NEW n,
         DOMAIN C = Cells,
         C["trees"] = {q}, TidyTree(C, q), Stores(q), C["tables"] = TablesOnFile(Fold[q.t], b),
         \A r \in C["rows"] : r.v = b,
         OnePerRoot(parts), \A p \in parts, r \in C["rows"] : p.root # r.root,
         Clean(parts, Enforced(SlotsIn(C))), ~LevelBasis(SlotsIn(C)) => Clean(parts, {"key"}), Lone => ~arb
  PROVE  Tidy(Grown(C, q, b, parts, arb, epochs, n))
<1> DEFINE R == C["rows"]
<1> DEFINE Q == C["partitions"]
<1> DEFINE D == Grown(C, q, b, parts, arb, epochs, n)
<1> DEFINE X == RowsOf(Fold[q.t], b, parts, arb, n)
<1> DEFINE Y == PartsOnFile(q.t, parts, epochs, n)
<1> DEFINE m == Fold[q.t]
<1>0. /\ D["rows"] = R \cup X /\ D["partitions"] = Q \cup Y
      /\ \A rel \in Cells \ {"rows", "partitions"} : D[rel] = C[rel]
  <2> HIDE DEF X, Y
  <2> QED BY RelationsAreCells DEF Add, Grown, X, Y
<1>00. /\ \A p \in Q : \E r \in R : r.root = p.root /\ r.part.n = p.n
       /\ \A r \in R : \E p \in Q : r.root = p.root /\ r.part.n = p.n
  BY DEF TidyTree, RowsTidy
<1> HIDE DEF D
<1>1. /\ \A r \in X : /\ r.v = b /\ r.arb = arb /\ {"m", "v", "root", "part", "arb"} \subseteq DOMAIN r
                      /\ \E p \in parts : r.root = p.root /\ r.part = p.part
      /\ \A p \in parts : \E r \in X : r.root = p.root /\ r.part = p.part
      /\ OnePerRoot(X)
  BY RowsFiled
<1>2. \A defects : Clean(parts, defects) => Clean(X, defects)
  BY RowsFiled
<1>3. /\ \A p \in Y : /\ p.t = q.t /\ OnFile(p)
                      /\ \E z \in parts : p.root = z.root /\ z.part.n = p.n
      /\ \A z \in parts : \E p \in Y : p.root = z.root /\ z.part.n = p.n
      /\ OnePerRoot(Y)
  BY PartsFiled
<1> HIDE DEF X, Y, R, Q
<1>4. /\ \A r \in R : {"m", "v", "root", "part", "arb"} \subseteq DOMAIN r
      /\ \A p \in Q : p.t = q.t /\ OnFile(p)
  BY DEF TidyTree, Shaped, TreeKept, R, Q
<1>5. OnePerRoot(R) /\ OnePerRoot(Q)
  BY DEF TidyTree, RowsTidy, OnePerRoot, R, Q
<1>6. \A r \in D["rows"] : r.v = b /\ {"m", "v", "root", "part", "arb"} \subseteq DOMAIN r
  BY <1>0, <1>1, <1>4 DEF R
<1>7. \A p \in D["partitions"] : p.t = q.t /\ OnFile(p)
  BY <1>0, <1>3, <1>4
<1>8. OnePerRoot(D["rows"])
  <2>1. \A x \in R, y \in X : x.root # y.root
    BY <1>1 DEF R
  <2> QED BY <1>0, <1>1, <1>5, <2>1 DEF OnePerRoot
<1>9. OnePerRoot(D["partitions"])
  <2>1. \A x \in Q, y \in Y : x.root # y.root
    <3>1. \A x \in Q : \E r \in R : r.root = x.root
      BY <1>00
    <3>2. \A y \in Y : \E p \in parts : p.root = y.root
      BY <1>3
    <3>3. \A p \in parts, r \in R : p.root # r.root
      BY DEF R
    <3> QED BY <3>1, <3>2, <3>3
  <2> QED BY <1>0, <1>3, <1>5, <2>1 DEF OnePerRoot
<1>10. \A p \in D["partitions"] : \E r \in D["rows"] : r.root = p.root /\ r.part.n = p.n
  <2>1. \A p \in Y : \E r \in X : r.root = p.root /\ r.part.n = p.n
    <3> SUFFICES ASSUME NEW p \in Y PROVE \E r \in X : r.root = p.root /\ r.part.n = p.n
      OBVIOUS
    <3>1. PICK z \in parts : p.root = z.root /\ z.part.n = p.n
      BY <1>3
    <3>2. PICK r \in X : r.root = z.root /\ r.part = z.part
      BY <1>1
    <3> QED BY <3>1, <3>2
  <2> QED BY <1>0, <1>00, <2>1
<1>11. \A r \in D["rows"] : \E p \in D["partitions"] : r.root = p.root /\ r.part.n = p.n
  <2>1. \A r \in X : \E p \in Y : r.root = p.root /\ r.part.n = p.n
    <3> SUFFICES ASSUME NEW r \in X PROVE \E p \in Y : r.root = p.root /\ r.part.n = p.n
      OBVIOUS
    <3>1. PICK z \in parts : r.root = z.root /\ r.part = z.part
      BY <1>1
    <3>2. PICK p \in Y : p.root = z.root /\ z.part.n = p.n
      BY <1>3
    <3> QED BY <3>1, <3>2
  <2> QED BY <1>0, <1>00, <2>1
<1>12. RowsSound(D)
  <2>0. D["slots"] = C["slots"]
    BY <1>0, RelationsAreCells
  <2>1. SlotsIn(D) = SlotsIn(C) /\ RowsSound(C)
    BY <2>0 DEF SlotsIn, TidyTree
  <2> DEFINE E == Enforced(SlotsIn(C))
  <2> DEFINE K == {"key"}
  <2>2. Clean(X, E) /\ (~LevelBasis(SlotsIn(C)) => Clean(X, K))
    BY <1>2
  <2>3. /\ Damage = {} => Clean(R, E)
        /\ Damage = {} /\ KeysOnParents /\ HasKey(SlotsIn(C)) => ~LevelBasis(SlotsIn(C)) /\ Clean(R, K)
        /\ Lone => \A r \in R : ~r.arb
    BY <2>1 DEF RowsSound, R
  <2> HIDE DEF E, K
  <2>4. Clean(R, E) => Clean(D["rows"], E)
    BY <1>0, <2>2 DEF Clean
  <2>5. Clean(R, K) /\ ~LevelBasis(SlotsIn(C)) => Clean(D["rows"], K)
    BY <1>0, <2>2 DEF Clean
  <2>6. Lone => \A r \in D["rows"] : ~r.arb
    BY <1>0, <1>1, <2>3
  <2>7. /\ Damage = {} => Clean(D["rows"], E)
        /\ Damage = {} /\ KeysOnParents /\ HasKey(SlotsIn(C)) => ~LevelBasis(SlotsIn(C)) /\ Clean(D["rows"], K)
    BY <2>3, <2>4, <2>5
  <2> QED BY <2>1, <2>6, <2>7 DEF RowsSound, E, K
<1>13. \E z : C["tables"] = TablesOnFile(Fold[q.t], z) /\ \A r \in D["rows"] : r.v = z
  BY <1>6
<1>14. \A r \in D["rows"] : {"m", "v", "root", "part", "arb"} \subseteq DOMAIN r
  BY <1>6
<1> QED BY <1>0, <1>7, <1>8, <1>9, <1>10, <1>11, <1>12, <1>13, <1>14, RowsTurnTidy, Zenon DEF D

\* The table of a tidy cell: one version, and all its rows are of it.
LEMMA TidyTable ==
  ASSUME NEW d, NEW m, NEW q, TidyTree(CellOf(d, m), q), Stores(q), Fold[q.t] = m
  PROVE  LET C == CellOf(d, m) IN
         \E b : /\ C["tables"] = TablesOnFile(m, b) /\ \A r \in C["rows"] : r.v = b
                /\ Stored(d, m) = C["rows"] /\ VersionOf(d, m) = b
<1> DEFINE C == CellOf(d, m)
<1>1. PICK b : C["tables"] = TablesOnFile(m, b) /\ \A r \in C["rows"] : r.v = b
  BY DEF TidyTree, RowsTidy
<1>2. C["tables"] = Cell(d, "tables", m) /\ C["rows"] = Cell(d, "rows", m)
  BY CellIn, RelationsAreCells
<1>3. Cell(d, "tables", m) = TablesOnFile(m, b) /\ \A r \in Cell(d, "rows", m) : r.v = b
  BY <1>1, <1>2
<1>4. Stored(d, m) = Cell(d, "rows", m) /\ VersionOf(d, m) = b
  BY <1>3, StoredIsCell, Zenon
<1> QED BY <1>1, <1>2, <1>4

LEMMA TidyVersion ==
  ASSUME NEW d, NEW m, NEW q, TidyTree(CellOf(d, m), q), Stores(q), Fold[q.t] = m
  PROVE  LET C == CellOf(d, m) IN
         \E v : C["tables"] = TablesOnFile(m, v) /\ (\A r \in C["rows"] : r.v = v) /\ VersionOf(d, m) = v
<1> DEFINE C == CellOf(d, m)
<1>1. PICK b : C["tables"] = TablesOnFile(m, b) /\ \A r \in C["rows"] : r.v = b
  BY DEF TidyTree, RowsTidy
<1>2. C["tables"] = Cell(d, "tables", m) /\ C["rows"] = Cell(d, "rows", m)
  BY CellIn, RelationsAreCells
<1>3. Cell(d, "tables", m) = TablesOnFile(m, b) /\ \A r \in Cell(d, "rows", m) : r.v = b
  BY <1>1, <1>2
<1>4. VersionOf(d, m) = b
  BY <1>3, StoredIsCell, Zenon
<1> QED BY <1>1, <1>4

\* The partitions on file of a tidy cell's tree are the cell's.
LEMMA TidyParts ==
  ASSUME NEW d, NEW t, NEW C, C = CellOf(d, Fold[t]), NEW q, TidyTree(C, q), q.t = t
  PROVE  Select(d, "partitions", [t |-> t]) = C["partitions"]
<1>1. C["partitions"] = Cell(d, "partitions", Fold[t])
  BY CellIn, RelationsAreCells
<1>2. \A p \in C["partitions"] : p.t = t
  BY DEF TidyTree, Shaped, TreeKept
<1>3. \A p : p \in Select(d, "partitions", [t |-> t]) <=> p \in d["partitions"] /\ p.t = t
  BY SelectTree
<1>4. \A p : p \in C["partitions"] <=> p \in d["partitions"] /\ p.t = t
  BY <1>1, <1>2 DEF Cell, Owner
<1> QED BY <1>3, <1>4

\* What insert and replace end with: the staged partitions, added.
LEMMA RunsAdding ==
  ASSUME NEW t, NEW n, NEW P, NEW x, NEW y, DOMAIN x.d = Relation,
         Runs(Tree("insert_rows", t) \o Tree("insert_partitions", t) \o Tree("drop_staged", t), n, P, x, y)
  PROVE  LET m == Fold[t] IN
         Turns(x.d, y.d, m, Add(Add(CellOf(x.d, m), "rows",
                                    RowsOf(m, VersionOf(x.d, m), x.tmp.new, x.tmp.arb, n)),
                                "partitions", PartsOnFile(t, x.tmp.new, x.tmp.epochs, n)))
<1> DEFINE m == Fold[t]
<1> DEFINE a == Tree("insert_rows", t)
<1> DEFINE b == Tree("insert_partitions", t)
<1> DEFINE c == Tree("drop_staged", t)
<1>1. IsList(a) /\ IsList(b) /\ IsList(c) /\ Runs(a \o b \o c, n, P, x, y)
  BY StatementLists
<1> HIDE DEF a, b, c
<1>2. IsList(a \o b)
  BY <1>1, ListsJoin
<1>3. PICK z2 : Runs(a \o b, n, P, x, z2) /\ Runs(c, n, P, z2, y)
  BY <1>1, <1>2, RunsBoth
<1>4. PICK z1 : Runs(a, n, P, x, z1) /\ Runs(b, n, P, z1, z2)
  BY <1>1, <1>3, RunsBoth
<1> DEFINE X == RowsOf(m, VersionOf(x.d, m), x.tmp.new, x.tmp.arb, n)
<1> DEFINE Y == PartsOnFile(t, x.tmp.new, x.tmp.epochs, n)
<1>5. z1.tmp = x.tmp /\ Turns(x.d, z1.d, m, Add(CellOf(x.d, m), "rows", X))
  BY <1>4, RunsAddRows DEF a
<1>6. DOMAIN z1.d = Relation /\ CellOf(z1.d, m) = Add(CellOf(x.d, m), "rows", X)
  BY <1>5, TurnsDomain
<1>7. Turns(z1.d, z2.d, m, Add(CellOf(z1.d, m), "partitions", PartsOnFile(t, z1.tmp.new, z1.tmp.epochs, n)))
  BY <1>4, <1>6, RunsAddParts DEF b
<1>8. y.d = z2.d
  BY <1>3, DoesDropStaged DEF c
<1> HIDE DEF X, Y, m
<1>9. Turns(z1.d, z2.d, m, Add(Add(CellOf(x.d, m), "rows", X), "partitions", Y))
  BY <1>5, <1>6, <1>7 DEF Y
<1>10. Turns(x.d, z2.d, m, Add(Add(CellOf(x.d, m), "rows", X), "partitions", Y))
  BY <1>5, <1>9, TurnsBoth
<1> QED BY <1>8, <1>10 DEF X, Y, m

\* The rows of the roots that stay.
Keeping(rows, roots) == {r \in rows : r.root \notin roots}
Kept(C, roots) == Put(Put(C, "rows", Keeping(C["rows"], roots)), "partitions", Keeping(C["partitions"], roots))

\* A cell's tidiness is about its one tree.
LEMMA TidyAgain ==
  ASSUME NEW C, NEW q, C["trees"] = {q}, Tidy(C), DOMAIN C = Cells
  PROVE  TidyTree(C, q)
<1>1. C # NoCell
  BY RelationsAreCells DEF NoCell
<1>2. PICK r : C["trees"] = {r} /\ TidyTree(C, r)
  BY <1>1 DEF Tidy
<1> QED BY <1>2

LEMMA KeptTidy ==
  ASSUME NEW C, NEW q, NEW roots, C["trees"] = {q}, TidyTree(C, q), Stores(q), DOMAIN C = Cells
  PROVE  LET D == Kept(C, roots) IN
         /\ D["trees"] = {q} /\ TidyTree(D, q) /\ Tidy(D) /\ SlotsIn(D) = SlotsIn(C)
         /\ D["partitions"] = Keeping(C["partitions"], roots)
<1> DEFINE D == Kept(C, roots)
<1> DEFINE R == Keeping(C["rows"], roots)
<1> DEFINE Q == Keeping(C["partitions"], roots)
<1>1. /\ D["rows"] = R /\ D["partitions"] = Q /\ DOMAIN D = Cells
      /\ \A rel \in Cells \ {"rows", "partitions"} : D[rel] = C[rel]
  <2> HIDE DEF R, Q
  <2> QED BY RelationsAreCells DEF Kept, Put, R, Q
<1>2. /\ \A r : r \in R <=> r \in C["rows"] /\ r.root \notin roots
      /\ \A p : p \in Q <=> p \in C["partitions"] /\ p.root \notin roots
  BY DEF Keeping
<1> HIDE DEF D, R, Q
<1>3. D["trees"] = {q} /\ D["slots"] = C["slots"] /\ SlotsIn(D) = SlotsIn(C)
  BY <1>1, RelationsAreCells DEF SlotsIn
<1>4. \A r \in R : {"m", "v", "root", "part", "arb"} \subseteq DOMAIN r
  BY <1>2 DEF TidyTree, Shaped
<1>5. \E b : C["tables"] = TablesOnFile(Fold[q.t], b) /\ \A r \in R : r.v = b
  BY <1>2 DEF TidyTree, RowsTidy
<1>6. \A p \in Q : p.t = q.t /\ OnFile(p)
  BY <1>2 DEF TidyTree, Shaped, TreeKept
<1>7. OnePerRoot(R) /\ OnePerRoot(Q)
  BY <1>2 DEF TidyTree, RowsTidy, OnePerRoot
<1>8. \A p \in Q : \E r \in R : r.root = p.root /\ r.part.n = p.n
  BY <1>2 DEF TidyTree, RowsTidy
<1>9. \A r \in R : \E p \in Q : r.root = p.root /\ r.part.n = p.n
  BY <1>2 DEF TidyTree, RowsTidy
<1>10. RowsSound(D)
  <2>1. \A defects : Clean(C["rows"], defects) => Clean(R, defects)
    BY <1>2 DEF Clean
  <2>2. RowsSound(C)
    BY DEF TidyTree
  <2>3. Damage = {} => Clean(R, Enforced(SlotsIn(C)))
    BY <2>1, <2>2 DEF RowsSound
  <2>4. Damage = {} /\ KeysOnParents /\ HasKey(SlotsIn(C)) => ~LevelBasis(SlotsIn(C)) /\ Clean(R, {"key"})
    BY <2>1, <2>2 DEF RowsSound
  <2>5. Lone => \A r \in R : ~r.arb
    BY <1>2, <2>2 DEF RowsSound
  <2> QED BY <1>1, <1>3, <2>3, <2>4, <2>5 DEF RowsSound
<1>11. Tidy(D)
  BY <1>1, <1>4, <1>5, <1>6, <1>7, <1>8, <1>9, <1>10, RowsTurnTidy
<1> QED BY <1>1, <1>3, <1>11, TidyAgain DEF D, Q

\* What replace and delete remove: the rows and the partitions of the doomed roots.
LEMMA RunsCutting ==
  ASSUME NEW t, NEW n, NEW P, NEW x, NEW y, DOMAIN x.d = Relation, NEW q,
         CellOf(x.d, Fold[t])["trees"] = {q}, TidyTree(CellOf(x.d, Fold[t]), q), q.t = t, Stores(q),
         Runs(Tree("delete_rows", t) \o Tree("delete_partitions", t), n, P, x, y)
  PROVE  y.tmp = x.tmp /\ Turns(x.d, y.d, Fold[t], Kept(CellOf(x.d, Fold[t]), Doomed(x.tmp)))
<1> DEFINE m == Fold[t]
<1> DEFINE C == CellOf(x.d, m)
<1> DEFINE roots == Doomed(x.tmp)
<1> DEFINE R == Keeping(C["rows"], roots)
<1> DEFINE Q == Keeping(C["partitions"], roots)
<1> DEFINE a == Tree("delete_rows", t)
<1> DEFINE b == Tree("delete_partitions", t)
<1>1. IsList(a) /\ IsList(b) /\ Runs(a \o b, n, P, x, y)
  BY StatementLists
<1> HIDE DEF a, b
<1>2. PICK z : Runs(a, n, P, x, z) /\ Runs(b, n, P, z, y)
  BY <1>1, RunsBoth
<1>3. z.tmp = x.tmp /\ Turns(x.d, z.d, m, Cut(C, "rows", RowsDoomed(x.d, x.tmp, m)))
  BY <1>2, RunsCutRows DEF a
<1>4. DOMAIN z.d = Relation
  BY <1>3, TurnsDomain
<1>5. y.tmp = z.tmp /\ Turns(z.d, y.d, m, Cut(CellOf(z.d, m), "partitions", PartsDoomed(z.d, z.tmp, t)))
  BY <1>2, <1>4, RunsCutParts DEF b
<1>6. Stored(x.d, m) = C["rows"]
  <2>1. Fold[q.t] = m /\ TidyTree(CellOf(x.d, m), q)
    OBVIOUS
  <2> HIDE DEF m
  <2> QED BY <2>1, TidyTable
<1>7. PartsDoomed(z.d, z.tmp, t) = {p \in CellOf(z.d, m)["partitions"] : p.root \in roots}
  <2>1. CellOf(z.d, m) = Cut(C, "rows", RowsDoomed(x.d, x.tmp, m)) /\ DOMAIN C = Cells
    BY <1>3, CellIn DEF Turns
  <2> DEFINE Z == CellOf(z.d, m)
  <2>2. Z["partitions"] = C["partitions"] /\ Z["partitions"] = Cell(z.d, "partitions", m)
    <3>1. Z["partitions"] = Cell(z.d, "partitions", m)
      BY CellIn, RelationsAreCells
    <3> HIDE DEF C, m
    <3>2. CellOf(z.d, m)["partitions"] = C["partitions"]
      BY <2>1, RelationsAreCells DEF Cut
    <3> QED BY <3>1, <3>2
  <2>3. \A p \in C["partitions"] : p.t = t
    BY DEF TidyTree, Shaped, TreeKept
  <2>4. \A p : p \in Select(z.d, "partitions", [t |-> t]) <=> p \in z.d["partitions"] /\ p.t = t
    BY SelectTree
  <2>5. \A p : p \in Z["partitions"] <=> p \in z.d["partitions"] /\ p.t = t
    <3>1. \A p : p \in Cell(z.d, "partitions", m) <=> p \in z.d["partitions"] /\ Fold[p.t] = m
      BY DEF Cell, Owner
    <3> QED BY <2>2, <2>3, <3>1
  <2> HIDE DEF Z
  <2>6. Doomed(z.tmp) = roots
    BY <1>3
  <2> HIDE DEF roots
  <2> QED BY <2>4, <2>5, <2>6 DEF PartsDoomed, Z
<1>8. RowsDoomed(x.d, x.tmp, m) = {r \in C["rows"] : r.root \in roots}
  BY <1>6 DEF RowsDoomed
<1> DEFINE G == {r \in C["rows"] : r.root \in roots}
<1> DEFINE H == {p \in CellOf(z.d, m)["partitions"] : p.root \in roots}
<1>9. DOMAIN C = Cells
  BY CellIn
<1>10. R = C["rows"] \ G
  BY DEF Keeping
<1>11. CellOf(z.d, m)["partitions"] = C["partitions"] /\ Q = C["partitions"] \ H
  <2>1. CellOf(z.d, m) = Cut(C, "rows", G)
    BY <1>3, <1>8 DEF Turns
  <2> HIDE DEF C, G
  <2>2. CellOf(z.d, m)["partitions"] = C["partitions"]
    BY <1>9, <2>1, RelationsAreCells DEF Cut
  <2> QED BY <2>2 DEF Keeping
<1>12. Cut(Cut(C, "rows", G), "partitions", H) = Kept(C, roots)
  <2> HIDE DEF C, G, H, R, Q, roots
  <2>1. /\ Cut(Cut(C, "rows", G), "partitions", H) = [C EXCEPT !["rows"] = @ \ G, !["partitions"] = @ \ H]
    BY <1>9, RelationsAreCells DEF Cut
  <2>2. Kept(C, roots) = [C EXCEPT !["rows"] = R, !["partitions"] = Q]
    BY <1>9, RelationsAreCells DEF Kept, Put, R, Q
  <2> QED BY <1>9, <1>10, <1>11, <2>1, <2>2, RelationsAreCells
<1>13. Turns(z.d, y.d, m, Cut(Cut(C, "rows", G), "partitions", H))
  BY <1>3, <1>5, <1>7, <1>8 DEF Turns
<1> HIDE DEF C, G, H, R, Q, roots, m
<1>14. Turns(x.d, y.d, m, Kept(C, roots))
  BY <1>3, <1>12, <1>13, TurnsBoth
<1> QED BY <1>3, <1>5, <1>14 DEF C, roots, m

\* What a table's rows hold, and the epochs on file of some partitions.
Pairs(rows)   == {[root |-> r.root, part |-> r.part] : r \in rows}
Epochs(parts) == {[root |-> p.root, epoch |-> p.epoch] : p \in parts}

LEMMA PairsJoin ==
  ASSUME NEW A, NEW B
  PROVE  Pairs(A \cup B) = Pairs(A) \cup Pairs(B)
BY DEF Pairs

LEMMA PairsKept ==
  ASSUME NEW A, NEW roots
  PROVE  Pairs(Keeping(A, roots)) = Keeping(Pairs(A), roots)
<1> DEFINE g(r) == [root |-> r.root, part |-> r.part]
<1>1. \A r : g(r).root = r.root
  OBVIOUS
<1>2. \A X : Pairs(X) = {g(r) : r \in X}
  BY DEF Pairs
<1> HIDE DEF g
<1> QED BY <1>1, <1>2 DEF Keeping

LEMMA PairsFiled ==
  ASSUME NEW m, NEW v, NEW parts, NEW arb, NEW n
  PROVE  Pairs(RowsOf(m, v, parts, arb, n)) = Pairs(parts)
<1> DEFINE F == RowsOf(m, v, parts, arb, n)
<1>1. /\ \A r \in F : \E p \in parts : r.root = p.root /\ r.part = p.part
      /\ \A p \in parts : \E r \in F : r.root = p.root /\ r.part = p.part
  BY RowsFiled
<1> HIDE DEF F
<1> QED BY <1>1 DEF Pairs, F

LEMMA PairsOfContents ==
  ASSUME NEW d, NEW src
  PROVE  Pairs(Contents(d, src)) = Contents(d, src)
<1> DEFINE g(r) == [root |-> r.root, part |-> r.part]
<1>1. \A r : g(r).root = r.root /\ g(r).part = r.part
  OBVIOUS
<1>2. \A r : g(g(r)) = g(r)
  OBVIOUS
<1>3. Pairs(Contents(d, src)) = {g(p) : p \in Contents(d, src)} /\ Contents(d, src) = {g(r) : r \in Select(d, "source", [src |-> src])}
  BY DEF Pairs, Contents
<1> HIDE DEF g
<1> QED BY <1>2, <1>3

\* What the verbs that ingest make of a cell: C before, D after.
Grew(C, D, t, parts, epochs, n) ==
  /\ Pairs(D["rows"]) = Pairs(C["rows"]) \cup Pairs(parts)
  /\ D["partitions"] = C["partitions"] \cup PartsOnFile(t, parts, epochs, n)
Inserting(C, D, t, parts, n) ==
  /\ Grew(C, D, t, parts, {}, n)
  /\ \A p \in C["partitions"] : p.root \notin Roots(parts)
Replacing(C, D, t, parts, n) ==
  /\ Pairs(D["rows"]) = Keeping(Pairs(C["rows"]), Roots(parts)) \cup Pairs(parts)
  /\ D["partitions"] = Keeping(C["partitions"], Roots(parts))
                       \cup PartsOnFile(t, parts, Epochs({p \in C["partitions"] : p.root \in Roots(parts)}), n)
Deleting(C, D, keys) ==
  /\ Pairs(D["rows"]) = Keeping(Pairs(C["rows"]), keys)
  /\ D["partitions"] \subseteq C["partitions"]

\* Partitions of roots the tree does not hold, staged and vetted, then added.
LEMMA AddingTidies ==
  ASSUME NEW t, NEW n, NEW P, NEW x, NEW y, DOMAIN x.d = Relation, NEW q,
         CellOf(x.d, Fold[t])["trees"] = {q}, TidyTree(CellOf(x.d, Fold[t]), q), q.t = t, Stores(q),
         NEW parts, NEW arb, x.tmp.new = parts, x.tmp.arb = arb, OnePerRoot(parts),
         \A e \in x.tmp.epochs : e.epoch \in Nat,
         \A p \in CellOf(x.d, Fold[t])["partitions"] : p.root \notin Roots(parts),
         Clean(parts, Enforced(SlotsIn(CellOf(x.d, Fold[t])))),
         ~LevelBasis(SlotsIn(CellOf(x.d, Fold[t]))) => Clean(parts, {"key"}), Lone => ~arb,
         Runs(Tree("insert_rows", t) \o Tree("insert_partitions", t) \o Tree("drop_staged", t), n, P, x, y)
  PROVE  /\ Within(x.d, y.d, Fold[t]) /\ Tidy(CellOf(y.d, Fold[t]))
         /\ Grew(CellOf(x.d, Fold[t]), CellOf(y.d, Fold[t]), t, parts, x.tmp.epochs, n)
<1> DEFINE m == Fold[t]
<1> DEFINE C == CellOf(x.d, m)
<1> DEFINE E == x.tmp.epochs
<1>1. \E v : C["tables"] = TablesOnFile(m, v) /\ (\A r \in C["rows"] : r.v = v) /\ VersionOf(x.d, m) = v
  <2>1. Fold[q.t] = m /\ TidyTree(CellOf(x.d, m), q) /\ Stores(q)
    OBVIOUS
  <2> HIDE DEF m
  <2> QED BY <2>1, TidyVersion
<1>2. PICK v : C["tables"] = TablesOnFile(m, v) /\ (\A r \in C["rows"] : r.v = v) /\ VersionOf(x.d, m) = v
  BY <1>1
<1>3. Turns(x.d, y.d, m, Grown(C, q, v, parts, arb, E, n)) /\ DOMAIN C = Cells
  BY <1>2, RunsAdding, CellIn DEF Grown
<1>4. \A r \in C["rows"] : \E p \in C["partitions"] : r.root = p.root /\ r.part.n = p.n
  BY DEF TidyTree, RowsTidy
<1>5. \A p \in parts, r \in C["rows"] : p.root # r.root
  BY <1>4 DEF Roots
<1>6. /\ C["trees"] = {q} /\ TidyTree(C, q) /\ m = Fold[q.t]
      /\ Clean(parts, Enforced(SlotsIn(C))) /\ (~LevelBasis(SlotsIn(C)) => Clean(parts, {"key"}))
      /\ \A e \in E : e.epoch \in Nat
  OBVIOUS
<1> HIDE DEF C, E, m
<1>7. Tidy(Grown(C, q, v, parts, arb, E, n))
  BY <1>2, <1>3, <1>5, <1>6, AddedTidy
<1> DEFINE X == RowsOf(m, v, parts, arb, n)
<1> DEFINE Y == PartsOnFile(t, parts, E, n)
<1> DEFINE D == Grown(C, q, v, parts, arb, E, n)
<1>8. D["rows"] = C["rows"] \cup X /\ D["partitions"] = C["partitions"] \cup Y
  <2>1. D = Add(Add(C, "rows", X), "partitions", Y)
    BY <1>6 DEF Grown
  <2> HIDE DEF X, Y, D
  <2> QED BY <1>3, <2>1, RelationsAreCells DEF Add
<1>9. Pairs(X) = Pairs(parts)
  BY PairsFiled
<1> HIDE DEF X, Y
<1>10. Pairs(C["rows"] \cup X) = Pairs(C["rows"]) \cup Pairs(parts)
  BY <1>9, PairsJoin
<1>11. Grew(C, D, t, parts, E, n)
  BY <1>8, <1>10 DEF Grew, Y
<1>12. CellOf(y.d, m) = D /\ Within(x.d, y.d, m) /\ Tidy(D)
  BY <1>3, <1>7 DEF Turns
<1> HIDE DEF D
<1> QED BY <1>11, <1>12 DEF m, C, E

\* Insert leaves a tidy cell.
LEMMA InsertTidies ==
  ASSUME NEW d0, NEW t, Tidy(CellOf(d0, Fold[t])), NEW src, src # NULL, ~CompileInsert(d0, t, src).refused,
         NEW n, NEW P, Lone => \A p, r \in P : p = r, NEW x, NEW y, DOMAIN x.d = Relation, x.tmp = NoTemp,
         OnePerRoot(Contents(x.d, src)), CellOf(x.d, Fold[t]) = CellOf(d0, Fold[t]),
         Runs(CompileInsert(d0, t, src).list, n, P, x, y)
  PROVE  /\ Within(x.d, y.d, Fold[t]) /\ Tidy(CellOf(y.d, Fold[t]))
         /\ Inserting(CellOf(x.d, Fold[t]), CellOf(y.d, Fold[t]), t, Contents(x.d, src), n)
<1> DEFINE m == Fold[t]
<1> DEFINE slots == SlotsOf(d0, t)
<1> DEFINE key == ReachKey(slots)
<1> DEFINE q == TreeRow(d0, t)
<1> DEFINE os == q.ordersrc
<1> DEFINE a == Staging(t, slots, src, key, os)
<1> DEFINE b == Tree("present_check", t)
<1> DEFINE c == NewPartitionChecks(slots)
<1> DEFINE e1 == Tree("insert_rows", t)
<1> DEFINE e2 == Tree("insert_partitions", t)
<1> DEFINE e3 == Tree("drop_staged", t)
<1>1. HasContext(d0, t, "tree_insert") /\ Runs(a \o b \o c \o e1 \o e2 \o e3, n, P, x, y)
  BY DEF CompileInsert, Staging, Refused, Compiled
<1>2. IsList(a) /\ IsList(b) /\ IsList(c) /\ IsList(e1) /\ IsList(e2) /\ IsList(e3)
  BY StatementLists, StagingList
<1> DEFINE C == CellOf(x.d, m)
<1>3. q.t = t /\ C["trees"] = {q} /\ TidyTree(C, q) /\ slots = SlotsIn(C) /\ Stores(q)
  BY <1>1, ContextTidy
<1> HIDE DEF a, b, c, e1, e2, e3
<1> DEFINE abc == a \o b \o c
<1>4. IsList(a \o b) /\ IsList(abc)
  BY <1>2, ListsJoin
<1>5. PICK z3 : Runs(abc, n, P, x, z3) /\ Runs(e1 \o e2 \o e3, n, P, z3, y)
  <2> HIDE DEF abc, q, slots, key, os, C
  <2> QED BY <1>1, <1>2, <1>4, RunsFirst DEF abc
<1>6. PICK z2 : Runs(a \o b, n, P, x, z2) /\ Runs(c, n, P, z2, z3)
  BY <1>2, <1>4, <1>5, RunsBoth
<1>7. PICK z1 : Runs(a, n, P, x, z1) /\ Runs(b, n, P, z1, z2)
  BY <1>2, <1>6, RunsBoth
<1> DEFINE parts == Contents(x.d, src)
<1>8. /\ z1.d = x.d /\ \E p \in P : z1.tmp = Ready(parts, Loose(p, os), {})
      /\ os = "frozen" => \E p \in P : p
      /\ "ORDER" \in slots => Clean(parts, {"order"})
      /\ key => Clean(parts, {"key"}) /\ Clean(parts, {"reach"})
      /\ Clean(parts, {"shadow"})
  <2> HIDE DEF key, slots, os, C
  <2> QED BY <1>7, RunsStaging DEF a
<1>9. z2.d = z1.d /\ z2.tmp = z1.tmp /\ ~AlreadyPresent(z1.d, z1.tmp, t)
  BY <1>7, DoesTree DEF b
<1>10. z3.d = z2.d /\ z3.tmp = z2.tmp /\ Clean(z2.tmp.new, P13Arms) /\ Clean(z2.tmp.new, OverrideSlots(slots))
  BY <1>6, RunsNewChecks DEF c
<1>11. PICK arb : z1.tmp = Ready(parts, arb, {}) /\ (Lone => ~arb)
  <2>1. PICK p \in P : z1.tmp = Ready(parts, Loose(p, os), {})
    BY <1>8
  <2>2. Lone => ~Loose(p, os)
    BY <1>8 DEF Loose
  <2> QED BY <2>1, <2>2
<1> HIDE DEF key, slots, os, q, parts, C
<1>12. z3.tmp.new = parts /\ z3.tmp.arb = arb /\ z3.tmp.epochs = {} /\ z3.d = x.d /\ z1.tmp.new = parts
  BY <1>8, <1>9, <1>10, <1>11 DEF Ready
<1>13. \A p \in C["partitions"] : p.root \notin Roots(parts)
  <2>1. Select(x.d, "partitions", [t |-> t]) = C["partitions"]
    BY <1>3, TidyParts DEF C
  <2> QED BY <1>8, <1>9, <1>12, <2>1 DEF AlreadyPresent
<1>14. Clean(parts, Enforced(slots)) /\ (~LevelBasis(slots) => Clean(parts, {"key"}))
  <2>1. ~LevelBasis(slots) => HasKey(slots)
    BY <1>3 DEF TidyTree, SlotsTidy
  <2>2. Clean(parts, P13Arms) /\ Clean(parts, OverrideSlots(slots))
    BY <1>9, <1>10, <1>12
  <2> QED BY <1>8, <2>1, <2>2, IngestEnforced DEF key
<1>15. OnePerRoot(parts)
  BY DEF parts
<1> DEFINE no == {}
<1>16. z3.tmp.epochs = no /\ \A e \in no : e.epoch \in Nat
  BY <1>12
<1> HIDE DEF no
<1>17. Within(z3.d, y.d, m) /\ Tidy(CellOf(y.d, m)) /\ Grew(CellOf(z3.d, m), CellOf(y.d, m), t, parts, no, n)
  BY <1>3, <1>5, <1>11, <1>12, <1>13, <1>14, <1>15, <1>16, AddingTidies DEF C, e1, e2, e3
<1>18. Inserting(C, CellOf(y.d, m), t, parts, n)
  BY <1>12, <1>13, <1>17 DEF Inserting, C, no
<1> QED BY <1>12, <1>17, <1>18 DEF C, parts

\* The epochs a replace stages: those of the partitions its source brings again.
Again(parts, new) == {p \in parts : p.root \in Roots(new)}

LEMMA RunsStageEpochs ==
  ASSUME NEW t, NEW n, NEW P, NEW x, NEW y, NEW C, NEW q, C = CellOf(x.d, Fold[t]), TidyTree(C, q), q.t = t,
         NEW parts, NEW arb, x.tmp = Ready(parts, arb, {}), Runs(Tree("stage_epochs", t), n, P, x, y)
  PROVE  /\ y.d = x.d
         /\ y.tmp = Ready(parts, arb, Epochs(Again(C["partitions"], parts)))
         /\ Doomed(y.tmp) = Roots(Again(C["partitions"], parts))
<1> DEFINE S == {z \in C["partitions"] : z.root \in Roots(parts)}
<1> DEFINE E == {[root |-> r.root, epoch |-> r.epoch] : r \in S}
<1>0. E = Epochs(S)
  BY DEF Epochs
<1>1. Select(x.d, "partitions", [t |-> t]) = C["partitions"] /\ x.tmp.new = parts
  <2>1. x.tmp.new = parts
    BY DEF Ready
  <2> QED BY <2>1, TidyParts
<1>2. y.d = x.d /\ y.tmp = [x.tmp EXCEPT !.epochs = E]
  BY <1>1, DoesStageEpochs
<1>3. Roots(E) = Roots(S) /\ S = Again(C["partitions"], parts)
  <2>1. \A e \in E : \E r \in S : e.root = r.root
    OBVIOUS
  <2>2. \A r \in S : \E e \in E : e.root = r.root
    <3> TAKE r \in S
    <3>1. [root |-> r.root, epoch |-> r.epoch] \in E
      OBVIOUS
    <3> QED BY <3>1
  <2>3. S = Again(C["partitions"], parts)
    BY DEF Again
  <2> HIDE DEF E, S
  <2> QED BY <2>1, <2>2, <2>3 DEF Roots
<1> HIDE DEF E, S
<1>4. y.tmp = Ready(parts, arb, E)
  BY <1>2 DEF Ready
<1>5. Doomed(y.tmp) = Roots(E)
  BY <1>4 DEF Ready, Doomed
<1> QED BY <1>0, <1>2, <1>3, <1>4, <1>5

\* Replace leaves a tidy cell.
LEMMA ReplaceTidies ==
  ASSUME NEW d0, NEW t, Tidy(CellOf(d0, Fold[t])), NEW src, src # NULL, ~CompileReplace(d0, t, src).refused,
         NEW n, NEW P, Lone => \A p, r \in P : p = r, NEW x, NEW y, DOMAIN x.d = Relation, x.tmp = NoTemp,
         OnePerRoot(Contents(x.d, src)), CellOf(x.d, Fold[t]) = CellOf(d0, Fold[t]),
         Runs(CompileReplace(d0, t, src).list, n, P, x, y)
  PROVE  /\ Within(x.d, y.d, Fold[t]) /\ Tidy(CellOf(y.d, Fold[t]))
         /\ Replacing(CellOf(x.d, Fold[t]), CellOf(y.d, Fold[t]), t, Contents(x.d, src), n)
<1> DEFINE m == Fold[t]
<1> DEFINE slots == SlotsOf(d0, t)
<1> DEFINE key == ReachKey(slots)
<1> DEFINE q == TreeRow(d0, t)
<1> DEFINE os == q.ordersrc
<1> DEFINE a == Staging(t, slots, src, key, os)
<1> DEFINE b == NewPartitionChecks(slots)
<1> DEFINE c == Tree("stage_epochs", t)
<1> DEFINE g1 == Tree("delete_rows", t)
<1> DEFINE g2 == Tree("delete_partitions", t)
<1> DEFINE e1 == Tree("insert_rows", t)
<1> DEFINE e2 == Tree("insert_partitions", t)
<1> DEFINE e3 == Tree("drop_staged", t)
<1>1. HasContext(d0, t, "tree_replace") /\ Runs(a \o b \o c \o g1 \o g2 \o e1 \o e2 \o e3, n, P, x, y)
  BY DEF CompileReplace, Staging, Refused, Compiled
<1>2. /\ IsList(a) /\ IsList(b) /\ IsList(c) /\ IsList(g1) /\ IsList(g2)
      /\ IsList(e1) /\ IsList(e2) /\ IsList(e3)
  BY StatementLists, StagingList
<1> DEFINE C == CellOf(x.d, m)
<1>3. q.t = t /\ C["trees"] = {q} /\ TidyTree(C, q) /\ slots = SlotsIn(C) /\ Stores(q)
  BY <1>1, ContextTidy
<1> HIDE DEF a, b, c, g1, g2, e1, e2, e3
<1> DEFINE abc == a \o b \o c
<1> DEFINE cut == abc \o g1 \o g2
<1>4. IsList(a \o b) /\ IsList(abc) /\ IsList(cut)
  BY <1>2, ListsJoin
<1>5. PICK z4 : Runs(cut, n, P, x, z4) /\ Runs(e1 \o e2 \o e3, n, P, z4, y)
  <2> HIDE DEF abc, cut, q, slots, key, os, C
  <2> QED BY <1>1, <1>2, <1>4, RunsFirst DEF abc, cut
<1>6. PICK z3 : Runs(abc, n, P, x, z3) /\ Runs(g1 \o g2, n, P, z3, z4)
  <2>1. IsList(g1 \o g2)
    BY <1>2, ListsJoin
  <2> HIDE DEF abc, q, slots, key, os, C
  <2>2. abc \o g1 \o g2 = abc \o (g1 \o g2)
    <3>1. IsList(abc) /\ IsList(g1) /\ IsList(g2)
      BY <1>2, <1>4
    <3> QED BY <3>1, ListsAssociate
  <2>3. Runs(abc \o (g1 \o g2), n, P, x, z4)
    BY <1>5, <2>2
  <2> QED BY <1>4, <2>1, <2>3, RunsBoth
<1>7. PICK z2 : Runs(a \o b, n, P, x, z2) /\ Runs(c, n, P, z2, z3)
  BY <1>2, <1>4, <1>6, RunsBoth
<1>8. PICK z1 : Runs(a, n, P, x, z1) /\ Runs(b, n, P, z1, z2)
  BY <1>2, <1>7, RunsBoth
<1> DEFINE parts == Contents(x.d, src)
<1>9. /\ z1.d = x.d /\ \E p \in P : z1.tmp = Ready(parts, Loose(p, os), {})
      /\ os = "frozen" => \E p \in P : p
      /\ "ORDER" \in slots => Clean(parts, {"order"})
      /\ key => Clean(parts, {"key"}) /\ Clean(parts, {"reach"})
      /\ Clean(parts, {"shadow"})
  <2> HIDE DEF key, slots, os, C
  <2> QED BY <1>8, RunsStaging DEF a
<1>10. z2.d = z1.d /\ z2.tmp = z1.tmp /\ Clean(z1.tmp.new, P13Arms) /\ Clean(z1.tmp.new, OverrideSlots(slots))
  BY <1>8, RunsNewChecks DEF b
<1>11. PICK arb : z1.tmp = Ready(parts, arb, {}) /\ (Lone => ~arb)
  <2>1. PICK p \in P : z1.tmp = Ready(parts, Loose(p, os), {})
    BY <1>9
  <2>2. Lone => ~Loose(p, os)
    BY <1>9 DEF Loose
  <2> QED BY <2>1, <2>2
<1> HIDE DEF key, slots, os, q, parts
<1>12. z1.tmp.new = parts /\ z2.tmp = Ready(parts, arb, {}) /\ z2.d = x.d
  BY <1>9, <1>10, <1>11 DEF Ready
<1> DEFINE again == Again(C["partitions"], parts)
<1> DEFINE roots == Roots(again)
<1> DEFINE epochs == Epochs(again)
<1>13. z3.d = x.d /\ z3.tmp = Ready(parts, arb, epochs) /\ Doomed(z3.tmp) = roots
  <2>1. C = CellOf(z2.d, Fold[t])
    BY <1>12
  <2> HIDE DEF C
  <2> QED BY <1>3, <1>7, <1>12, <2>1, RunsStageEpochs DEF c
<1>14. z4.tmp = z3.tmp /\ Turns(x.d, z4.d, m, Kept(C, roots))
  BY <1>3, <1>6, <1>13, RunsCutting DEF g1, g2
<1> DEFINE D == CellOf(z4.d, m)
<1>15. DOMAIN C = Cells /\ DOMAIN z4.d = Relation /\ D = Kept(C, roots) /\ Within(x.d, z4.d, m)
  BY <1>14, CellIn, TurnsDomain DEF Turns
<1>21. /\ \A e \in epochs : e.epoch \in Nat
       /\ Keeping(C["rows"], roots) = Keeping(C["rows"], Roots(parts))
       /\ Keeping(C["partitions"], roots) = Keeping(C["partitions"], Roots(parts))
  <2> DEFINE Q == C["partitions"]
  <2> DEFINE R == C["rows"]
  <2>1. (\A p \in Q : OnFile(p)) /\ \A r \in R : \E p \in Q : r.root = p.root
    BY <1>3 DEF TidyTree, Shaped, RowsTidy
  <2> HIDE DEF Q, R
  <2>2. \A p : p \in again <=> p \in Q /\ p.root \in Roots(parts)
    BY DEF Again, Q
  <2> HIDE DEF again
  <2>3. \A e \in epochs : \E p \in again : e.epoch = p.epoch
    BY DEF Epochs
  <2>4. \A e \in epochs : e.epoch \in Nat
    BY <2>1, <2>2, <2>3 DEF OnFile
  <2>5. \A root : root \in roots <=> \E p \in Q : p.root = root /\ root \in Roots(parts)
    <3>1. \A root : root \in roots <=> \E p \in again : p.root = root
      BY DEF Roots
    <3> QED BY <2>2, <3>1
  <2> HIDE DEF roots
  <2>6. Keeping(R, roots) = Keeping(R, Roots(parts)) /\ Keeping(Q, roots) = Keeping(Q, Roots(parts))
    BY <2>1, <2>5 DEF Keeping
  <2> QED BY <2>4, <2>6 DEF Q, R
<1>22. D["rows"] = Keeping(C["rows"], roots)
  <2> HIDE DEF D, C
  <2> QED BY <1>15, RelationsAreCells DEF Kept, Put
<1> HIDE DEF C, roots, epochs, again
<1>16. D["trees"] = {q} /\ TidyTree(D, q) /\ SlotsIn(D) = slots /\ D["partitions"] = Keeping(C["partitions"], roots)
  <2>1. /\ Kept(C, roots)["trees"] = {q} /\ TidyTree(Kept(C, roots), q) /\ SlotsIn(Kept(C, roots)) = SlotsIn(C)
        /\ Kept(C, roots)["partitions"] = Keeping(C["partitions"], roots)
    BY <1>3, <1>15, KeptTidy
  <2> HIDE DEF D
  <2> QED BY <1>3, <1>15, <2>1
<1>17. \A p \in D["partitions"] : p.root \notin Roots(parts)
  BY <1>16, <1>21 DEF Keeping
<1>18. Clean(parts, Enforced(slots)) /\ (~LevelBasis(slots) => Clean(parts, {"key"}))
  <2>1. ~LevelBasis(slots) => HasKey(slots)
    BY <1>3 DEF TidyTree, SlotsTidy
  <2>2. Clean(parts, P13Arms) /\ Clean(parts, OverrideSlots(slots))
    BY <1>10, <1>12
  <2> QED BY <1>9, <2>1, <2>2, IngestEnforced DEF key
<1>19. OnePerRoot(parts) /\ z4.tmp.new = parts /\ z4.tmp.arb = arb
  BY <1>13, <1>14 DEF parts, Ready
<1>23. z4.tmp.epochs = epochs
  BY <1>13, <1>14 DEF Ready
<1> DEFINE F == CellOf(y.d, m)
<1>20. Within(z4.d, y.d, m) /\ Tidy(F) /\ Grew(D, F, t, parts, epochs, n)
  BY <1>3, <1>5, <1>11, <1>15, <1>16, <1>17, <1>18, <1>19, <1>21, <1>23, AddingTidies DEF e1, e2, e3
<1> HIDE DEF D, F
<1>24. Pairs(D["rows"]) = Keeping(Pairs(C["rows"]), Roots(parts))
  BY <1>21, <1>22, PairsKept
<1>25. Replacing(C, F, t, parts, n)
  BY <1>16, <1>20, <1>21, <1>24 DEF Replacing, Grew, epochs, again, Again
<1>26. Within(x.d, y.d, m)
  BY <1>15, <1>20, WithinBoth
<1> QED BY <1>20, <1>25, <1>26 DEF F, C, parts

\* Delete leaves a tidy cell.
LEMMA DeleteTidies ==
  ASSUME NEW d0, NEW t, Tidy(CellOf(d0, Fold[t])), NEW keys, ~CompileDelete(d0, t, keys).refused,
         NEW n, NEW P, NEW x, NEW y, DOMAIN x.d = Relation, x.tmp = NoTemp,
         CellOf(x.d, Fold[t]) = CellOf(d0, Fold[t]), Runs(CompileDelete(d0, t, keys).list, n, P, x, y)
  PROVE  /\ Within(x.d, y.d, Fold[t]) /\ Tidy(CellOf(y.d, Fold[t]))
         /\ Deleting(CellOf(x.d, Fold[t]), CellOf(y.d, Fold[t]), keys)
<1> DEFINE m == Fold[t]
<1> DEFINE q == TreeRow(d0, t)
<1> DEFINE a == StageGone(t, keys)
<1> DEFINE g1 == Tree("delete_rows", t)
<1> DEFINE g2 == Tree("delete_partitions", t)
<1> DEFINE e == Tree("drop_staged", t)
<1>1. HasContext(d0, t, "tree_delete") /\ Runs(a \o g1 \o g2 \o e, n, P, x, y)
  BY DEF CompileDelete, Refused, Compiled, StageGone
<1>2. IsList(a) /\ IsList(g1) /\ IsList(g2) /\ IsList(e)
  BY StatementLists, OneList DEF StageGone
<1> DEFINE C == CellOf(x.d, m)
<1>3. q.t = t /\ C["trees"] = {q} /\ TidyTree(C, q) /\ Stores(q)
  BY <1>1, ContextTidy
<1> HIDE DEF a, g1, g2, e, q
<1>4. IsList(a \o g1 \o g2) /\ IsList(g1 \o g2) /\ a \o g1 \o g2 = a \o (g1 \o g2)
  <2> HIDE DEF C
  <2>1. IsList(a \o g1) /\ IsList(g1 \o g2)
    BY <1>2, ListsJoin
  <2>2. IsList(a \o g1 \o g2)
    BY <1>2, <2>1, ListsJoin
  <2>3. a \o g1 \o g2 = a \o (g1 \o g2)
    BY <1>2, ListsAssociate
  <2> QED BY <2>1, <2>2, <2>3
<1>5. PICK z2 : Runs(a \o g1 \o g2, n, P, x, z2) /\ Runs(e, n, P, z2, y)
  BY <1>1, <1>2, <1>4, RunsBoth
<1>6. PICK z1 : Runs(a, n, P, x, z1) /\ Runs(g1 \o g2, n, P, z1, z2)
  <2>1. Runs(a \o (g1 \o g2), n, P, x, z2)
    BY <1>4, <1>5
  <2> QED BY <1>2, <1>4, <2>1, RunsBoth
<1>7. z1.d = x.d /\ z1.tmp = [x.tmp EXCEPT !.gone = Roots(Stored(x.d, m)) \cap keys]
  <2>1. Runs(StageGone(t, keys), n, P, x, z1)
    BY <1>6 DEF a
  <2> HIDE DEF C, m
  <2> QED BY <2>1, DoesStageGone DEF m
<1> DEFINE roots == Doomed(z1.tmp)
<1>8. Turns(x.d, z2.d, m, Kept(C, roots))
  BY <1>3, <1>6, <1>7, RunsCutting DEF g1, g2
<1>9. y.d = z2.d
  BY <1>5, DoesDropStaged DEF e
<1>10. DOMAIN C = Cells
  BY CellIn
<1>12. roots = Roots(C["rows"]) \cap keys
  <2>1. Fold[q.t] = m /\ TidyTree(CellOf(x.d, m), q)
    BY <1>3
  <2> HIDE DEF m
  <2>2. Stored(x.d, m) = CellOf(x.d, m)["rows"]
    BY <1>3, <2>1, TidyTable, Zenon
  <2>3. Roots({}) = {}
    BY DEF Roots
  <2>4. Doomed(z1.tmp) = Roots(Stored(x.d, m)) \cap keys
    BY <1>7, <2>3 DEF NoTemp, Doomed
  <2> QED BY <2>2, <2>4
<1> HIDE DEF C, roots
<1>11. Tidy(Kept(C, roots))
  BY <1>3, <1>10, KeptTidy
<1> DEFINE D == Kept(C, roots)
<1>13. D["rows"] = Keeping(C["rows"], roots) /\ D["partitions"] = Keeping(C["partitions"], roots)
  BY <1>10, RelationsAreCells DEF Kept, Put
<1>14. Keeping(C["rows"], roots) = Keeping(C["rows"], keys)
  BY <1>12 DEF Keeping, Roots
<1>15. Pairs(D["rows"]) = Keeping(Pairs(C["rows"]), keys)
  BY <1>13, <1>14, PairsKept
<1>16. D["partitions"] \subseteq C["partitions"]
  BY <1>13 DEF Keeping
<1>17. CellOf(y.d, m) = D /\ Within(x.d, y.d, m)
  BY <1>8, <1>9 DEF Turns
<1> HIDE DEF D
<1>18. Deleting(C, D, keys)
  BY <1>15, <1>16 DEF Deleting
<1> QED BY <1>11, <1>17, <1>18 DEF C, D

-----------------------------------------------------------------------------
(* tree_check: verdicts on file, and p13_ok in the partitions.             *)

\* What a check of the tree q reads; the cell of q is tidy, declares slots, and W is
\* what a check of it reads.
Reads(d, q) == IF Stores(q) THEN Stored(d, Fold[q.t]) ELSE Contents(d, q.source)
Sees(d, q, slots, W) ==
  LET C == CellOf(d, Fold[q.t]) IN
  C["trees"] = {q} /\ TidyTree(C, q) /\ SlotsIn(C) = slots /\ Reads(d, q) = W

\* In D the claims A have the verdicts W calls for, one each, and the rest of C's
\* verdicts are as they were; the partitions are C's but for theirs.
Arts(A) == {a.art : a \in A}
Dated(C, D) == \A z \in D["partitions"] : \E p \in C["partitions"] : SamePart(z, p)
Told(C, D, A, W) ==
  /\ Dated(C, D)
  /\ \A r \in D["assertions"] : \/ r \in C["assertions"] /\ r.art \notin Arts(A)
                                \/ \E a \in A : r.art = a.art /\ r.status = Says(W, a.defect)
  /\ \A r \in C["assertions"] : r.art \notin Arts(A) => r \in D["assertions"]
  /\ \A a \in A : \E r \in D["assertions"] : r.art = a.art
  /\ \A r, z \in D["assertions"] : r.art = z.art /\ r.art \in Arts(A) => r = z

\* Every partition's verdict is that of its rows.
Fresh(C, W) == \A z \in C["partitions"] : Seen(z, W)

\* A list that gives the verdicts on A and, unless F is empty, those of the partitions.
Tells(l, q, slots, W, A, F) ==
  \A n, P, x, y :
    DOMAIN x.d = Relation /\ Sees(x.d, q, slots, W) /\ Runs(l, n, P, x, y) =>
      LET C == CellOf(x.d, Fold[q.t])  D == CellOf(y.d, Fold[q.t]) IN
      /\ Within(x.d, y.d, Fold[q.t]) /\ Sees(y.d, q, slots, W)
      /\ Told(C, D, A, W)
      /\ F # {} \/ Fresh(C, W) => Fresh(D, W)

LEMMA ToldBoth ==
  ASSUME NEW C, NEW E, NEW D, NEW A, NEW B, NEW W, Told(C, E, A, W), Told(E, D, B, W)
  PROVE  Told(C, D, A \cup B, W)
<1>1. \A u : u \in Arts(A \cup B) <=> u \in Arts(A) \/ u \in Arts(B)
  BY DEF Arts
<1>2. Dated(C, D)
  <2> SUFFICES ASSUME NEW z \in D["partitions"] PROVE \E p \in C["partitions"] : SamePart(z, p)
    BY DEF Dated
  <2>1. PICK e \in E["partitions"] : SamePart(z, e)
    BY DEF Told, Dated
  <2>2. PICK p \in C["partitions"] : SamePart(e, p)
    BY DEF Told, Dated
  <2> QED BY <2>1, <2>2 DEF SamePart
<1>3. ASSUME NEW r \in D["assertions"]
      PROVE  \/ r \in C["assertions"] /\ r.art \notin Arts(A \cup B)
             \/ \E a \in A \cup B : r.art = a.art /\ r.status = Says(W, a.defect)
  <2>1. \/ r \in E["assertions"] /\ r.art \notin Arts(B)
        \/ \E a \in B : r.art = a.art /\ r.status = Says(W, a.defect)
    BY DEF Told
  <2>2. r \in E["assertions"] => \/ r \in C["assertions"] /\ r.art \notin Arts(A)
                                 \/ \E a \in A : r.art = a.art /\ r.status = Says(W, a.defect)
    BY DEF Told
  <2> QED BY <1>1, <2>1, <2>2
<1>4. \A r \in C["assertions"] : r.art \notin Arts(A \cup B) => r \in D["assertions"]
  BY <1>1 DEF Told
<1>5. ASSUME NEW a \in A \cup B
      PROVE  \E r \in D["assertions"] : r.art = a.art
  <2>1. CASE a.art \in Arts(B)
    <3>1. PICK b \in B : a.art = b.art
      BY <2>1 DEF Arts
    <3>2. PICK r \in D["assertions"] : r.art = b.art
      BY DEF Told
    <3> QED BY <3>1, <3>2
  <2>2. CASE a.art \notin Arts(B)
    <3>1. a \in A
      BY <2>2 DEF Arts
    <3>2. PICK r \in E["assertions"] : r.art = a.art
      BY <3>1 DEF Told
    <3>3. r \in D["assertions"]
      BY <2>2, <3>2 DEF Told
    <3> QED BY <3>2, <3>3
  <2> QED BY <2>1, <2>2
<1>6. ASSUME NEW r \in D["assertions"], NEW z \in D["assertions"], r.art = z.art, r.art \in Arts(A \cup B)
      PROVE  r = z
  <2>1. CASE r.art \in Arts(B)
    BY <1>6, <2>1 DEF Told
  <2>2. CASE r.art \notin Arts(B)
    <3>1. \A k \in D["assertions"] : k.art \notin Arts(B) => k \in E["assertions"]
      <4> SUFFICES ASSUME NEW k \in D["assertions"], k.art \notin Arts(B) PROVE k \in E["assertions"]
        OBVIOUS
      <4>1. \A a \in B : k.art # a.art
        BY DEF Arts
      <4> QED BY <4>1 DEF Told
    <3>2. r \in E["assertions"] /\ z \in E["assertions"] /\ r.art \in Arts(A)
      BY <1>1, <1>6, <2>2, <3>1
    <3> QED BY <1>6, <3>2 DEF Told
  <2> QED BY <2>1, <2>2
<1> QED BY <1>2, <1>3, <1>4, <1>5, <1>6 DEF Told

LEMMA TellsBoth ==
  ASSUME NEW a, NEW b, IsList(a), IsList(b), NEW q, NEW slots, NEW W, NEW A, NEW B, NEW F, NEW G,
         Tells(a, q, slots, W, A, F), Tells(b, q, slots, W, B, G)
  PROVE  Tells(a \o b, q, slots, W, A \cup B, F \cup G)
<1> DEFINE m == Fold[q.t]
<1> SUFFICES ASSUME NEW n, NEW P, NEW x, NEW y, DOMAIN x.d = Relation, Sees(x.d, q, slots, W), Runs(a \o b, n, P, x, y)
             PROVE  /\ Within(x.d, y.d, m) /\ Sees(y.d, q, slots, W)
                    /\ Told(CellOf(x.d, m), CellOf(y.d, m), A \cup B, W)
                    /\ F \cup G # {} \/ Fresh(CellOf(x.d, m), W) => Fresh(CellOf(y.d, m), W)
  BY DEF Tells
<1>1. PICK z : Runs(a, n, P, x, z) /\ Runs(b, n, P, z, y)
  BY RunsBoth
<1>2. /\ Within(x.d, z.d, m) /\ Sees(z.d, q, slots, W) /\ Told(CellOf(x.d, m), CellOf(z.d, m), A, W)
      /\ F # {} \/ Fresh(CellOf(x.d, m), W) => Fresh(CellOf(z.d, m), W)
  BY <1>1 DEF Tells
<1>3. DOMAIN z.d = Relation
  BY <1>2 DEF Within
<1>4. /\ Within(z.d, y.d, m) /\ Sees(y.d, q, slots, W) /\ Told(CellOf(z.d, m), CellOf(y.d, m), B, W)
      /\ G # {} \/ Fresh(CellOf(z.d, m), W) => Fresh(CellOf(y.d, m), W)
  BY <1>1, <1>2, <1>3 DEF Tells
<1> HIDE DEF m
<1>5. F \cup G # {} => F # {} \/ G # {}
  OBVIOUS
<1> QED BY <1>2, <1>4, <1>5, WithinBoth, ToldBoth

LEMMA TellsWhen ==
  ASSUME NEW c, NEW l, NEW q, NEW slots, NEW W, NEW A, NEW F, c => Tells(l, q, slots, W, A, F)
  PROVE  Tells(When(c, l), q, slots, W, IF c THEN A ELSE {}, IF c THEN F ELSE {})
<1> DEFINE m == Fold[q.t]
<1> DEFINE some == IF c THEN A ELSE {}
<1> DEFINE fresh == IF c THEN F ELSE {}
<1> SUFFICES ASSUME NEW n, NEW P, NEW x, NEW y, DOMAIN x.d = Relation, Sees(x.d, q, slots, W), Runs(When(c, l), n, P, x, y)
             PROVE  /\ Within(x.d, y.d, m) /\ Sees(y.d, q, slots, W)
                    /\ Told(CellOf(x.d, m), CellOf(y.d, m), some, W)
                    /\ fresh # {} \/ Fresh(CellOf(x.d, m), W) => Fresh(CellOf(y.d, m), W)
  BY DEF Tells
<1>1. CASE c
  <2>1. Runs(l, n, P, x, y) /\ Tells(l, q, slots, W, A, F) /\ some = A /\ fresh = F
    BY <1>1, RunsWhen
  <2> HIDE DEF some, fresh
  <2> QED BY <1>1, <2>1 DEF Tells
<1>2. CASE ~c
  <2>1. y = x /\ some = {} /\ fresh = {}
    BY <1>2, RunsWhen
  <2>2. Within(x.d, x.d, m)
    BY DEF Within
  <2> DEFINE C == CellOf(x.d, m)
  <2> HIDE DEF C, some, fresh
  <2>3. Told(C, C, some, W)
    BY <2>1 DEF Told, Arts, Dated, SamePart
  <2> QED BY <1>2, <2>1, <2>2, <2>3 DEF C
<1> QED BY <1>1, <1>2

\* Other verdicts of the tree: as tidy.
LEMMA RetoldTidy ==
  ASSUME NEW C, NEW D, NEW q, TidyTree(C, q),
         \A r \in D["assertions"] : r.t = q.t /\ r.art \in Claimed(q, SlotsIn(C)),
         \A rel \in Cells \ {"assertions"} : D[rel] = C[rel]
  PROVE  TidyTree(D, q)
<1>1. /\ D["trees"] = C["trees"] /\ D["slots"] = C["slots"] /\ D["predicates"] = C["predicates"]
      /\ D["compiled"] = C["compiled"] /\ D["partitions"] = C["partitions"] /\ D["rows"] = C["rows"]
      /\ D["tables"] = C["tables"] /\ D["macros"] = C["macros"]
  BY RelationsAreCells
<1>2. SlotsIn(D) = SlotsIn(C) /\ PredsIn(D) = PredsIn(C)
  BY <1>1 DEF SlotsIn, PredsIn
<1>3. Shaped(D, q)
  BY <1>1 DEF TidyTree, Shaped, TreeKept
<1>4. SlotsTidy(D, q) /\ TextsTidy(D, q)
  BY <1>1, <1>2 DEF TidyTree, SlotsTidy, TextsTidy
<1>5. RowsTidy(D, q)
  BY <1>1 DEF TidyTree, RowsTidy
<1>6. RowsSound(D)
  BY <1>1, <1>2 DEF TidyTree, RowsSound
<1>7. VerdictsTidy(D, q)
  BY <1>2 DEF VerdictsTidy
<1> QED BY <1>3, <1>4, <1>5, <1>6, <1>7 DEF TidyTree

\* While only verdicts change, a check reads the same.
LEMMA SeesOn ==
  ASSUME NEW d, NEW e, NEW q, NEW slots, NEW W, Sees(d, q, slots, W), Within(d, e, Fold[q.t]),
         TidyTree(CellOf(e, Fold[q.t]), q),
         \A rel \in Cells \ {"assertions", "partitions"} : CellOf(e, Fold[q.t])[rel] = CellOf(d, Fold[q.t])[rel]
  PROVE  Sees(e, q, slots, W)
<1> DEFINE m == Fold[q.t]
<1> DEFINE C == CellOf(d, m)
<1> DEFINE D == CellOf(e, m)
<1>1. D["trees"] = C["trees"] /\ D["slots"] = C["slots"] /\ D["rows"] = C["rows"] /\ D["tables"] = C["tables"]
  BY RelationsAreCells
<1>2. C["trees"] = {q} /\ TidyTree(C, q) /\ SlotsIn(C) = slots /\ Reads(d, q) = W
  BY DEF Sees
<1>3. Stores(q) => Stored(d, m) = C["rows"] /\ Stored(e, m) = D["rows"]
  BY <1>2, TidyTable
<1>4. \A src : Contents(e, src) = Contents(d, src)
  BY ContentsStay DEF Within
<1>5. Reads(e, q) = Reads(d, q)
  BY <1>1, <1>3, <1>4 DEF Reads
<1>6. SlotsIn(D) = SlotsIn(C)
  BY <1>1 DEF SlotsIn
<1> QED BY <1>1, <1>2, <1>5, <1>6 DEF Sees

\* A relation that shows what the tree holds: the table, the macro that serves it, or
\* the source of a tree that stores nothing.
Shows(rel, q, slots, W) == \A d : Sees(d, q, slots, W) => Read(d, rel) = W

LEMMA TableShows ==
  ASSUME NEW q, NEW slots, NEW W, Stores(q)
  PROVE  Shows([kind |-> "table", m |-> Fold[q.t]], q, slots, W)
<1> DEFINE rel == [kind |-> "table", m |-> Fold[q.t]]
<1>1. rel.kind = "table" /\ rel.m = Fold[q.t]
  OBVIOUS
<1> HIDE DEF rel
<1>2. Shows(rel, q, slots, W)
  BY <1>1 DEF Shows, Sees, Reads, Read, Served
<1> QED BY <1>2 DEF rel

LEMMA SourceShows ==
  ASSUME NEW q, NEW slots, NEW W, ~Stores(q)
  PROVE  Shows([kind |-> "sql", src |-> q.source], q, slots, W)
<1> DEFINE rel == [kind |-> "sql", src |-> q.source]
<1>1. rel.kind = "sql" /\ rel.src = q.source
  OBVIOUS
<1> HIDE DEF rel
<1>2. Shows(rel, q, slots, W)
  BY <1>1 DEF Shows, Sees, Reads, Read, Served
<1> QED BY <1>2 DEF rel

LEMMA MacroShows ==
  ASSUME NEW q, NEW slots, NEW W, ~Stores(q), Concrete(q)
  PROVE  Shows([kind |-> "proj", m |-> Fold[q.t]], q, slots, W)
<1> DEFINE m == Fold[q.t]
<1> DEFINE rel == [kind |-> "proj", m |-> m]
<1>1. rel.kind = "proj" /\ rel.m = m
  OBVIOUS
<1> HIDE DEF rel
<1>2. ASSUME NEW d, Sees(d, q, slots, W)
      PROVE  Read(d, rel) = W
  <2> DEFINE C == CellOf(d, m)
  <2> DEFINE text == Projection(SlotsIn(C), q.source)
  <2>1. TidyTree(C, q) /\ W = Contents(d, q.source)
    BY <1>2 DEF Sees, Reads
  <2>2. text = ServedBy(q.storage, q.t, SlotsIn(C), q.source)
    BY DEF ServedBy, Stores, Concrete
  <2>3. C["macros"] # {} /\ \A r \in C["macros"] : r.text = text
    BY <2>1, <2>2 DEF TidyTree, TextsTidy
  <2>4. Select(d, "macros", [m |-> m]) = C["macros"]
    <3>1. Entry(d, "macros", m) = Cell(d, "macros", m)
      BY EntryIsCell
    <3> QED BY <3>1, CellIn, RelationsAreCells DEF Entry
  <2>5. text.kind = "sql" /\ text.src = q.source
    BY DEF Projection
  <2> DEFINE M == C["macros"]
  <2> HIDE DEF C, text, m
  <2>6. Served(d, text) = W
    BY <2>1, <2>5 DEF Served
  <2>7. \A r \in M : Served(d, r.text) = W
    BY <2>3, <2>6
  <2>8. Read(d, rel) = UNION {Served(d, r.text) : r \in M}
    BY <1>1, <2>4 DEF Read
  <2> HIDE DEF M
  <2>9. M # {}
    BY <2>3 DEF M
  <2> QED BY <2>7, <2>8, <2>9
<1> QED BY <1>2 DEF Shows, rel, m

\* One recorded assertion.
Claim(art, defect) == {[art |-> art, defect |-> defect]}

LEMMA TellsAssertion ==
  ASSUME NEW t, NEW art, NEW defect, NEW rel, NEW q, q.t = t, NEW slots, NEW W, Shows(rel, q, slots, W),
         art \in Claimed(q, slots)
  PROVE  Tells(Assertion(t, art, defect, rel), q, slots, W, Claim(art, defect), {})
<1> DEFINE m == Fold[t]
<1> DEFINE a == DeleteFrom("assertions", [t |-> t, art |-> art])
<1> DEFINE b == Asserts(t, art, defect, rel)
<1> DEFINE A == Claim(art, defect)
<1>1. IsList(a) /\ IsList(b) /\ Assertion(t, art, defect, rel) = a \o b
  BY StatementLists, OneList DEF Assertion, Asserts
<1>2. (\A u : u \in Arts(A) <=> u = art) /\ \A c \in A : c.art = art /\ c.defect = defect
  BY DEF Arts, Claim
<1>20. \E c \in A : c.art = art /\ c.defect = defect
  BY DEF Claim
<1> HIDE DEF A
<1>3. SUFFICES ASSUME NEW n, NEW P, NEW x, NEW y, DOMAIN x.d = Relation, Sees(x.d, q, slots, W),
                      Runs(Assertion(t, art, defect, rel), n, P, x, y)
               PROVE  /\ Within(x.d, y.d, m) /\ Sees(y.d, q, slots, W)
                      /\ Told(CellOf(x.d, m), CellOf(y.d, m), A, W)
                      /\ Fresh(CellOf(x.d, m), W) => Fresh(CellOf(y.d, m), W)
  BY DEF Tells, A
<1> HIDE DEF a, b
<1>4. PICK z : Runs(a, n, P, x, z) /\ Runs(b, n, P, z, y)
  BY <1>1, <1>3, RunsBoth
<1> DEFINE C == CellOf(x.d, m)
<1> DEFINE E == CellOf(z.d, m)
<1> DEFINE D == CellOf(y.d, m)
<1> DEFINE X == ArtifactsOf(Cell(x.d, "assertions", m), t, art)
<1>5. Turns(x.d, z.d, m, Cut(C, "assertions", X))
  BY <1>3, <1>4, RunsNoArtifacts DEF a
<1>6. DOMAIN z.d = Relation
  BY <1>5, TurnsDomain
<1>7. PICK w : /\ w.t = t /\ w.art = art /\ w.status = Says(Read(z.d, rel), defect)
               /\ Turns(z.d, y.d, m, Add(E, "assertions", {w}))
  <2>1. Runs(Asserts(t, art, defect, rel), n, P, z, y)
    BY <1>4 DEF b
  <2> HIDE DEF m, C, E, D, X
  <2>2. Asserted(z.d, y.d, t, art, Says(Read(z.d, rel), defect))
    BY <1>6, <2>1, RunsAssert
  <2> QED BY <2>2 DEF m, E, Asserted
<1>8. /\ C["trees"] = {q} /\ TidyTree(C, q) /\ SlotsIn(C) = slots /\ DOMAIN C = Cells /\ DOMAIN E = Cells
      /\ C["assertions"] = Cell(x.d, "assertions", m)
  BY <1>3, CellIn, RelationsAreCells DEF Sees
<1>9. Within(x.d, z.d, m) /\ Within(z.d, y.d, m) /\ E = Cut(C, "assertions", X) /\ D = Add(E, "assertions", {w})
  BY <1>5, <1>7 DEF Turns
<1>10. \A r : r \in X <=> r \in C["assertions"] /\ r.t = t /\ r.art = art
  BY <1>8 DEF ArtifactsOf
<1> HIDE DEF C, E, D, X, m
<1>11. E["assertions"] = C["assertions"] \ X /\ \A k \in Cells \ {"assertions"} : E[k] = C[k]
  BY <1>8, <1>9, RelationsAreCells DEF Cut
<1>12. D["assertions"] = E["assertions"] \cup {w} /\ \A k \in Cells \ {"assertions"} : D[k] = E[k]
  BY <1>8, <1>9, RelationsAreCells DEF Add
<1>13. \A r \in C["assertions"] : r.t = q.t /\ r.art \in Claimed(q, SlotsIn(C))
  BY <1>8 DEF TidyTree, Shaped, TreeKept, VerdictsTidy
<1>14. TidyTree(E, q)
  BY <1>8, <1>11, <1>13, RetoldTidy
<1>15. Sees(z.d, q, slots, W)
  BY <1>3, <1>9, <1>11, <1>14, SeesOn DEF C, E, m
<1>16. w.status = Says(W, defect)
  BY <1>7, <1>15 DEF Shows
<1>17. TidyTree(D, q)
  <2>1. \A r \in D["assertions"] : r.t = q.t /\ r.art \in Claimed(q, SlotsIn(C))
    BY <1>7, <1>8, <1>11, <1>12, <1>13
  <2>2. \A k \in Cells \ {"assertions"} : D[k] = C[k]
    BY <1>11, <1>12
  <2> QED BY <1>8, <2>1, <2>2, RetoldTidy
<1>18. Sees(y.d, q, slots, W)
  <2>1. \A k \in Cells \ {"assertions", "partitions"} : CellOf(y.d, m)[k] = CellOf(z.d, m)[k]
    BY <1>12 DEF D, E
  <2> QED BY <1>9, <1>15, <1>17, <2>1, SeesOn DEF D, m
<1>19. D["partitions"] = C["partitions"]
  BY <1>11, <1>12, RelationsAreCells
<1>21. \A r : r \in D["assertions"] <=> r = w \/ (r \in C["assertions"] /\ r.art # art)
  BY <1>10, <1>11, <1>12, <1>13
<1>22. Told(C, D, A, W)
  <2>1. Dated(C, D)
    BY <1>19 DEF Dated, SamePart
  <2>2. \A r \in D["assertions"] : \/ r \in C["assertions"] /\ r.art \notin Arts(A)
                                   \/ \E c \in A : r.art = c.art /\ r.status = Says(W, c.defect)
    BY <1>2, <1>7, <1>16, <1>20, <1>21
  <2>3. \A r \in C["assertions"] : r.art \notin Arts(A) => r \in D["assertions"]
    BY <1>2, <1>21
  <2>4. \A c \in A : \E r \in D["assertions"] : r.art = c.art
    BY <1>2, <1>7, <1>21
  <2>5. \A r, k \in D["assertions"] : r.art = k.art /\ r.art \in Arts(A) => r = k
    BY <1>2, <1>21
  <2> QED BY <2>1, <2>2, <2>3, <2>4, <2>5 DEF Told
<1>23. Within(x.d, y.d, m)
  BY <1>9, WithinBoth
<1>24. Fresh(C, W) => Fresh(D, W)
  BY <1>19 DEF Fresh
<1> QED BY <1>18, <1>22, <1>23, <1>24 DEF C, D

LEMMA TellsRefreshes ==
  ASSUME NEW t, NEW rel, NEW q, q.t = t, Stores(q), NEW slots, NEW W, Shows(rel, q, slots, W)
  PROVE  Tells(Refreshes(t, rel), q, slots, W, {}, {"partitions"})
<1> DEFINE m == Fold[t]
<1> DEFINE l == Refreshes(t, rel)
<1> DEFINE none == {}
<1>0. none = {} /\ Arts(none) = {}
  BY DEF Arts
<1> HIDE DEF none
<1>1. SUFFICES ASSUME NEW n, NEW P, NEW x, NEW y, DOMAIN x.d = Relation, Sees(x.d, q, slots, W), Runs(l, n, P, x, y)
               PROVE  /\ Within(x.d, y.d, m) /\ Sees(y.d, q, slots, W)
                      /\ Told(CellOf(x.d, m), CellOf(y.d, m), none, W)
                      /\ Fresh(CellOf(y.d, m), W)
  BY <1>0 DEF Tells
<1> DEFINE C == CellOf(x.d, m)
<1> DEFINE D == CellOf(y.d, m)
<1> DEFINE Q == C["partitions"]
<1>2. /\ C["trees"] = {q} /\ TidyTree(C, q) /\ DOMAIN C = Cells /\ Q = Cell(x.d, "partitions", m)
      /\ Read(x.d, rel) = W /\ W = Reads(x.d, q)
  BY <1>1, CellIn, RelationsAreCells DEF Sees, Shows
<1>3. \A p \in Cell(x.d, "partitions", m) : OnFile(p)
  BY <1>2 DEF TidyTree, Shaped
<1>4. PICK X : /\ Turns(x.d, y.d, m, Put(C, "partitions", X))
               /\ \A z \in X : \E p \in Cell(x.d, "partitions", m) :
                    SamePart(z, p)
               /\ \A p \in Cell(x.d, "partitions", m) : \E z \in X :
                    SamePart(z, p)
               /\ (\A p, r \in Cell(x.d, "partitions", m) : p.root = r.root => p = r) =>
                    \A p, r \in X : p.root = r.root => p = r
               /\ \A z \in X : z.t = t /\ z.root \in Roots(Read(x.d, rel)) => Seen(z, Read(x.d, rel))
  BY <1>1, <1>3, RunsRefresh
<1>40. W = C["rows"]
  BY <1>2, TidyTable DEF Reads
<1> HIDE DEF C, D, Q, m, l
<1>5. D = Put(C, "partitions", X) /\ Within(x.d, y.d, m)
  BY <1>4 DEF Turns, D
<1>6. D["partitions"] = X /\ \A r \in Cells \ {"partitions"} : D[r] = C[r]
  BY <1>2, <1>5, RelationsAreCells DEF Put
<1>7. /\ D["rows"] = C["rows"] /\ D["slots"] = C["slots"] /\ SlotsIn(D) = SlotsIn(C) /\ D["trees"] = {q}
      /\ D["tables"] = C["tables"] /\ D["assertions"] = C["assertions"]
  BY <1>2, <1>6, RelationsAreCells DEF SlotsIn
<1>8. /\ \A r \in C["rows"] : {"m", "v", "root", "part", "arb"} \subseteq DOMAIN r
      /\ \A p \in Q : p.t = q.t /\ OnFile(p)
  BY <1>2 DEF TidyTree, Shaped, TreeKept, Q
<1>9. /\ \E b : C["tables"] = TablesOnFile(Fold[q.t], b) /\ \A r \in C["rows"] : r.v = b
      /\ OnePerRoot(C["rows"]) /\ OnePerRoot(Q)
      /\ \A p \in Q : \E r \in C["rows"] : r.root = p.root /\ r.part.n = p.n
      /\ \A r \in C["rows"] : \E p \in Q : r.root = p.root /\ r.part.n = p.n
  BY <1>2 DEF TidyTree, RowsTidy, Q
<1>10. OnePerRoot(X)
  BY <1>2, <1>4, <1>9 DEF OnePerRoot
<1>11. \A p \in X : p.t = q.t /\ OnFile(p)
  BY <1>2, <1>4, <1>8 DEF SamePart, OnFile
<1>12. \A p \in X : \E r \in C["rows"] : r.root = p.root /\ r.part.n = p.n
  BY <1>2, <1>4, <1>9 DEF SamePart
<1>13. \A r \in C["rows"] : \E p \in X : r.root = p.root /\ r.part.n = p.n
  <2> TAKE r \in C["rows"]
  <2>1. PICK p \in Q : r.root = p.root /\ r.part.n = p.n
    BY <1>9
  <2>2. PICK z \in X : z.root = p.root /\ z.n = p.n
    BY <1>2, <1>4, <2>1 DEF SamePart
  <2> QED BY <2>1, <2>2
<1>14. RowsSound(D)
  BY <1>2, <1>7 DEF TidyTree, RowsSound
<1>15. DOMAIN D = Cells
  BY CellIn DEF D
<1>16. \A r \in Cells \ {"rows", "partitions"} : D[r] = C[r]
  BY <1>6
<1>17. Tidy(D)
  BY <1>2, <1>6, <1>7, <1>8, <1>9, <1>10, <1>11, <1>12, <1>13, <1>14, <1>16, RowsTurnTidy
<1>18. TidyTree(D, q)
  BY <1>7, <1>15, <1>17, TidyAgain
<1>19. Sees(y.d, q, slots, W)
  <2>1. \A k \in Cells \ {"assertions", "partitions"} : CellOf(y.d, m)[k] = CellOf(x.d, m)[k]
    BY <1>6 DEF C, D
  <2> QED BY <1>1, <1>5, <1>18, <2>1, SeesOn DEF D, m
<1>20. Told(C, D, none, W)
  <2>1. Dated(C, D)
    BY <1>2, <1>4, <1>6 DEF Dated, Q
  <2> QED BY <1>0, <1>7, <2>1 DEF Told
<1>21. Fresh(D, W)
  <2> SUFFICES ASSUME NEW z \in X PROVE Seen(z, W)
    BY <1>6 DEF Fresh
  <2>1. z.root \in Roots(W)
    BY <1>12, <1>40 DEF Roots
  <2> QED BY <1>2, <1>4, <1>11, <2>1
<1> QED BY <1>5, <1>19, <1>20, <1>21 DEF C, D

\* What tree_check makes of the cell of t: a verdict on every claim and on every
\* partition, each true of what the tree then holds.
Checking(d, e, t) ==
  LET C == CellOf(d, Fold[t])  D == CellOf(e, Fold[t]) IN
  /\ Dated(C, D) /\ D["trees"] = C["trees"]
  /\ \A q \in C["trees"] :
       /\ Told(C, D, Checked(q, SlotsIn(C)), Reads(e, q))
       /\ Stores(q) => Fresh(D, Reads(e, q))

\* A check leaves a tidy cell, and its verdicts.
LEMMA CheckTidies ==
  ASSUME NEW d0, NEW t, Tidy(CellOf(d0, Fold[t])), ~CompileCheck(d0, t).refused,
         NEW n, NEW P, NEW x, NEW y, DOMAIN x.d = Relation,
         CellOf(x.d, Fold[t]) = CellOf(d0, Fold[t]), Runs(CompileCheck(d0, t).list, n, P, x, y)
  PROVE  /\ Within(x.d, y.d, Fold[t]) /\ Tidy(CellOf(y.d, Fold[t]))
         /\ Checking(x.d, y.d, t)
<1> DEFINE m == Fold[t]
<1> DEFINE q == TreeRow(d0, t)
<1> DEFINE slots == SlotsOf(d0, t)
<1> DEFINE W == Reads(x.d, q)
<1> DEFINE stored == q.storage = "materialized"
<1> DEFINE rel == [kind |-> IF stored THEN "table" ELSE "proj", m |-> m]
<1> DEFINE o == ~stored /\ "ORDER" \in slots
<1> DEFINE sql == [kind |-> "sql", src |-> q.source]
<1> DEFINE over(slot) == slot \in OverrideSlots(slots)
<1> DEFINE A(art, defect, r) == Assertion(t, art, defect, r)
<1> DEFINE O(slot) == When(over(slot), A(OArtifact[slot], slot, rel))
<1> DEFINE a == When(o, A("assert_order", "order", sql))
<1> DEFINE b == A("assert_p13", "p13", rel)
<1> DEFINE c == When(stored, Refreshes(t, rel))
<1>1. /\ HasContext(d0, t, "tree_check")
      /\ CompileCheck(d0, t).list = a \o b \o c \o O("SIZE") \o O("PARENT") \o O("CHILDREN") \o O("NEXT")
  BY DEF CompileCheck, Refused, Compiled, Refreshes
<1>2. /\ q.t = t /\ CellOf(x.d, m)["trees"] = {q} /\ TidyTree(CellOf(x.d, m), q) /\ (stored <=> Stores(q)) /\ Concrete(q)
      /\ SlotsIn(CellOf(x.d, m)) = slots
  BY <1>1, ContextTidy DEF Concrete, Stores
<1>3. Sees(x.d, q, slots, W)
  BY <1>2 DEF Sees
<1>4. Shows(rel, q, slots, W)
  <2>1. CASE stored
    <3>1. rel = [kind |-> "table", m |-> Fold[q.t]]
      BY <1>2, <2>1
    <3> HIDE DEF rel, q, W, slots
    <3> QED BY <1>2, <2>1, <3>1, TableShows
  <2>2. CASE ~stored
    <3>1. rel = [kind |-> "proj", m |-> Fold[q.t]]
      BY <1>2, <2>2
    <3> HIDE DEF rel, q, W, slots
    <3> QED BY <1>2, <2>2, <3>1, MacroShows
  <2> QED BY <2>1, <2>2
<1> HIDE DEF q, slots, W, rel
<1>5. o => Shows(sql, q, slots, W)
  BY <1>2, SourceShows
<1> DEFINE oc == IF o THEN Claim("assert_order", "order") ELSE {}
<1> DEFINE pc13 == Claim("assert_p13", "p13")
<1> DEFINE vc(slot) == IF over(slot) THEN Claim(OArtifact[slot], slot) ELSE {}
<1>6. /\ o => "assert_order" \in Claimed(q, slots)
      /\ "assert_p13" \in Claimed(q, slots)
      /\ \A slot : over(slot) => OArtifact[slot] \in Claimed(q, slots)
  <2>1. \A k : k \in Checked(q, slots) => k.art \in Claimed(q, slots)
    BY DEF Claimed
  <2>2. o => [art |-> "assert_order", defect |-> "order"] \in Checked(q, slots)
    BY <1>2 DEF Checked
  <2>3. [art |-> "assert_p13", defect |-> "p13"] \in Checked(q, slots)
    BY DEF Checked
  <2>4. \A slot : over(slot) => [art |-> OArtifact[slot], defect |-> slot] \in Checked(q, slots)
    BY DEF Checked
  <2>5. o => "assert_order" \in Claimed(q, slots)
    <3>1. [art |-> "assert_order", defect |-> "order"].art = "assert_order"
      OBVIOUS
    <3> QED BY <2>1, <2>2, <3>1
  <2>6. "assert_p13" \in Claimed(q, slots)
    <3>1. [art |-> "assert_p13", defect |-> "p13"].art = "assert_p13"
      OBVIOUS
    <3> QED BY <2>1, <2>3, <3>1
  <2>7. ASSUME NEW slot, over(slot) PROVE OArtifact[slot] \in Claimed(q, slots)
    <3>1. [art |-> OArtifact[slot], defect |-> slot].art = OArtifact[slot]
      OBVIOUS
    <3> QED BY <2>1, <2>4, <2>7, <3>1
  <2> QED BY <2>5, <2>6, <2>7
<1>7. \A art, defect, r : IsList(A(art, defect, r))
  BY StatementLists, OneList, ListsJoin DEF Assertion
<1>8. IsList(Refreshes(t, rel))
  BY OneList DEF Refreshes
<1>9. \A art, defect, r : Shows(r, q, slots, W) /\ art \in Claimed(q, slots) =>
        Tells(A(art, defect, r), q, slots, W, Claim(art, defect), {})
  BY <1>2, TellsAssertion
<1> DEFINE parts == {"partitions"}
<1>10. stored => Tells(Refreshes(t, rel), q, slots, W, {}, parts)
  BY <1>2, <1>4, TellsRefreshes
<1> HIDE DEF A, o, stored, sql, over, parts
<1>11. IsList(a) /\ Tells(a, q, slots, W, oc, {})
  <2> DEFINE l == A("assert_order", "order", sql)
  <2> DEFINE cs == Claim("assert_order", "order")
  <2>1. IsList(l) /\ (o => Tells(l, q, slots, W, cs, {}))
    BY <1>5, <1>6, <1>7, <1>9
  <2> HIDE DEF l, cs
  <2>2. Tells(When(o, l), q, slots, W, IF o THEN cs ELSE {}, IF o THEN {} ELSE {})
    BY <2>1, TellsWhen
  <2> QED BY <2>1, <2>2, WhenList DEF l, cs
<1>12. IsList(b) /\ Tells(b, q, slots, W, pc13, {})
  BY <1>4, <1>6, <1>7, <1>9
<1>13. IsList(c) /\ Tells(c, q, slots, W, {}, IF stored THEN parts ELSE {})
  <2> DEFINE l == Refreshes(t, rel)
  <2> HIDE DEF l
  <2>1. IsList(l) /\ (stored => Tells(l, q, slots, W, {}, parts))
    BY <1>8, <1>10 DEF l
  <2>2. Tells(When(stored, l), q, slots, W, IF stored THEN {} ELSE {}, IF stored THEN parts ELSE {})
    BY <2>1, TellsWhen
  <2> QED BY <2>1, <2>2, WhenList DEF l
<1>14. \A slot : IsList(O(slot)) /\ Tells(O(slot), q, slots, W, vc(slot), {})
  <2> TAKE slot
  <2> DEFINE l == A(OArtifact[slot], slot, rel)
  <2> DEFINE cs == Claim(OArtifact[slot], slot)
  <2> DEFINE some == over(slot)
  <2>1. IsList(l) /\ (some => Tells(l, q, slots, W, cs, {}))
    BY <1>4, <1>6, <1>7, <1>9
  <2> HIDE DEF l, cs, some
  <2>2. Tells(When(some, l), q, slots, W, IF some THEN cs ELSE {}, IF some THEN {} ELSE {})
    BY <2>1, TellsWhen
  <2> QED BY <2>1, <2>2, WhenList DEF l, cs, some
<1> DEFINE all == oc \cup pc13 \cup {} \cup vc("SIZE") \cup vc("PARENT")
                  \cup vc("CHILDREN") \cup vc("NEXT")
<1>15. all = Checked(q, slots)
  <2>1. OverrideSlots(slots) = {s \in {"SIZE", "PARENT", "CHILDREN", "NEXT"} : over(s)}
    BY DEF OverrideSlots, OSlot, over
  <2>2. \A k : k \in all <=> \/ o /\ k = [art |-> "assert_order", defect |-> "order"]
                             \/ k = [art |-> "assert_p13", defect |-> "p13"]
                             \/ \E s \in {"SIZE", "PARENT", "CHILDREN", "NEXT"} :
                                  over(s) /\ k = [art |-> OArtifact[s], defect |-> s]
    BY DEF Claim
  <2>3. o <=> ~Stores(q) /\ "ORDER" \in slots
    BY <1>2 DEF o
  <2>4. \A k : k \in Checked(q, slots) <=>
                             \/ o /\ k = [art |-> "assert_order", defect |-> "order"]
                             \/ k = [art |-> "assert_p13", defect |-> "p13"]
                             \/ \E s \in OverrideSlots(slots) : k = [art |-> OArtifact[s], defect |-> s]
    BY <2>3 DEF Checked
  <2> QED BY <2>1, <2>2, <2>4
<1> DEFINE none == {}
<1> DEFINE s1 == vc("SIZE")
<1> DEFINE s2 == vc("PARENT")
<1> DEFINE s3 == vc("CHILDREN")
<1> DEFINE s4 == vc("NEXT")
<1> DEFINE f == IF stored THEN parts ELSE {}
<1> DEFINE T(l, X, F) == IsList(l) /\ Tells(l, q, slots, W, X, F)
<1>16. /\ T(a, oc, none) /\ T(b, pc13, none) /\ T(c, none, f)
       /\ T(O("SIZE"), s1, none) /\ T(O("PARENT"), s2, none) /\ T(O("CHILDREN"), s3, none) /\ T(O("NEXT"), s4, none)
  BY <1>11, <1>12, <1>13, <1>14
<1>17. all = oc \cup pc13 \cup none \cup s1 \cup s2 \cup s3 \cup s4 /\ (stored => f # {})
  BY DEF parts
<1>18. \A F : none \cup F = F /\ F \cup none = F
  OBVIOUS
<1> HIDE DEF a, b, c, O, oc, pc13, vc, none, s1, s2, s3, s4, all, f
<1>19. \A k, l, X, Y, F, G : T(k, X, F) /\ T(l, Y, G) => T(k \o l, X \cup Y, F \cup G)
  BY ListsJoin, TellsBoth
<1> HIDE DEF T
<1>20. T(a \o b, oc \cup pc13, none)
  BY <1>16, <1>18, <1>19
<1>21. T(a \o b \o c, oc \cup pc13 \cup none, f)
  BY <1>16, <1>18, <1>19, <1>20
<1>22. T(a \o b \o c \o O("SIZE"), oc \cup pc13 \cup none \cup s1, f)
  BY <1>16, <1>18, <1>19, <1>21
<1>23. T(a \o b \o c \o O("SIZE") \o O("PARENT"), oc \cup pc13 \cup none \cup s1 \cup s2, f)
  BY <1>16, <1>18, <1>19, <1>22
<1>24. T(a \o b \o c \o O("SIZE") \o O("PARENT") \o O("CHILDREN"), oc \cup pc13 \cup none \cup s1 \cup s2 \cup s3, f)
  BY <1>16, <1>18, <1>19, <1>23
<1>25. T(a \o b \o c \o O("SIZE") \o O("PARENT") \o O("CHILDREN") \o O("NEXT"),
         oc \cup pc13 \cup none \cup s1 \cup s2 \cup s3 \cup s4, f)
  BY <1>16, <1>18, <1>19, <1>24
<1>26. Tells(CompileCheck(d0, t).list, q, slots, W, Checked(q, slots), f)
  BY <1>1, <1>15, <1>17, <1>25 DEF T
<1>27. /\ Within(x.d, y.d, m) /\ Sees(y.d, q, slots, W)
       /\ Told(CellOf(x.d, m), CellOf(y.d, m), Checked(q, slots), W)
       /\ f # {} => Fresh(CellOf(y.d, m), W)
  BY <1>2, <1>3, <1>26 DEF Tells
<1>28. Tidy(CellOf(y.d, m)) /\ Reads(y.d, q) = W
  BY <1>2, <1>27 DEF Sees, Tidy
<1>29. Checking(x.d, y.d, t)
  BY <1>2, <1>17, <1>27, <1>28 DEF Checking, Told, Sees
<1>30. Within(x.d, y.d, Fold[t])
  BY <1>27 DEF m
<1>31. /\ Tidy(CellOf(y.d, Fold[t])) /\ Reads(y.d, q) = W
       /\ f # {} => Fresh(CellOf(y.d, Fold[t]), W)
  BY <1>27, <1>28 DEF m
<1> QED BY <1>29, <1>30, <1>31

-----------------------------------------------------------------------------
(* tree_compile_alter, run to its end.                                     *)

\* What alter checks before it changes anything.
AlterReads(slots, src) ==
  SourceChecks(slots, src, "UNIQUE KEY" \in slots) \o When(~LevelBasis(slots), CheckSource({"reach"}, src))
AlterFits(t, src) == TreeSource("foreign_check", t, src) \o TreeSource("drift_check", t, src)
AlterVets(src) == CheckSource({"shadow"}, src) \o CheckSource(P13Arms, src)
AlterChecks(t, slots, src, concrete, stored, ordersrc) ==
  FrozenGuard(ordersrc) \o When(concrete, AlterReads(slots, src)) \o When(stored, AlterFits(t, src))
  \o When(concrete, AlterVets(src))
  \o When(stored /\ OverrideSlots(slots) # {}, CheckSource(OverrideSlots(slots), src))

LEMMA AlterChecksList ==
  ASSUME NEW t, NEW slots, NEW src, NEW concrete, NEW stored, NEW ordersrc
  PROVE  /\ IsList(AlterReads(slots, src)) /\ IsList(AlterFits(t, src)) /\ IsList(AlterVets(src))
         /\ IsList(AlterChecks(t, slots, src, concrete, stored, ordersrc))
<1>1. IsList(AlterReads(slots, src))
  BY StatementLists, WhenList, SourceChecksList, ListsJoin DEF AlterReads
<1>2. IsList(AlterFits(t, src)) /\ IsList(AlterVets(src))
  BY StatementLists, ListsJoin DEF AlterFits, AlterVets
<1>3. IsList(AlterChecks(t, slots, src, concrete, stored, ordersrc))
  BY <1>1, <1>2, StatementLists, WhenList, ListsJoin DEF AlterChecks
<1> QED BY <1>1, <1>2, <1>3

LEMMA RunsAlterReads ==
  ASSUME NEW slots, NEW src, src # NULL, NEW n, NEW P, NEW x, NEW y, Runs(AlterReads(slots, src), n, P, x, y)
  PROVE  /\ y.d = x.d /\ y.tmp = x.tmp
         /\ "ORDER" \in slots => Clean(Contents(x.d, src), {"order"})
         /\ HasKey(slots) => Clean(Contents(x.d, src), {"key"})
         /\ ~LevelBasis(slots) => Clean(Contents(x.d, src), {"reach"})
<1> DEFINE key == "UNIQUE KEY" \in slots
<1> DEFINE walk == ~LevelBasis(slots)
<1> DEFINE a == SourceChecks(slots, src, key)
<1> DEFINE b == When(walk, CheckSource({"reach"}, src))
<1>1. Runs(a \o b, n, P, x, y)
  BY DEF AlterReads
<1>2. key <=> HasKey(slots)
  BY DEF HasKey
<1> HIDE DEF key, walk
<1>3. IsList(a) /\ IsList(b)
  BY StatementLists, WhenList, SourceChecksList
<1> HIDE DEF a, b
<1>4. PICK z : Runs(a, n, P, x, z) /\ Runs(b, n, P, z, y)
  BY <1>1, <1>3, RunsBoth
<1>5. /\ z.d = x.d /\ z.tmp = x.tmp
      /\ "ORDER" \in slots => Clean(Contents(x.d, src), {"order"})
      /\ key => Clean(Contents(x.d, src), {"key"})
  BY <1>4, RunsSourceChecks DEF a
<1>6. y.d = z.d /\ y.tmp = z.tmp /\ (walk => Clean(Contents(z.d, src), {"reach"}))
  BY <1>4, RunsCheckSource DEF b
<1> QED BY <1>2, <1>5, <1>6 DEF walk

LEMMA RunsAlterFits ==
  ASSUME NEW t, NEW src, NEW n, NEW P, NEW x, NEW y, Runs(AlterFits(t, src), n, P, x, y)
  PROVE  y.d = x.d /\ y.tmp = x.tmp /\ ~Drifted(x.d, t, src)
<1> DEFINE a == TreeSource("foreign_check", t, src)
<1> DEFINE b == TreeSource("drift_check", t, src)
<1>1. Runs(a \o b, n, P, x, y) /\ IsList(a) /\ IsList(b)
  BY StatementLists DEF AlterFits
<1> HIDE DEF a, b
<1>2. PICK z : Runs(a, n, P, x, z) /\ Runs(b, n, P, z, y)
  BY <1>1, RunsBoth
<1>3. z.d = x.d /\ z.tmp = x.tmp
  BY <1>2, DoesTreeSource DEF a
<1>4. y.d = z.d /\ y.tmp = z.tmp /\ ~Drifted(z.d, t, src)
  BY <1>2, DoesTreeSource DEF b
<1> QED BY <1>3, <1>4

LEMMA RunsAlterVets ==
  ASSUME NEW src, src # NULL, NEW n, NEW P, NEW x, NEW y, Runs(AlterVets(src), n, P, x, y)
  PROVE  /\ y.d = x.d /\ y.tmp = x.tmp
         /\ Clean(Contents(x.d, src), {"shadow"}) /\ Clean(Contents(x.d, src), P13Arms)
<1> DEFINE a == CheckSource({"shadow"}, src)
<1> DEFINE b == CheckSource(P13Arms, src)
<1>1. Runs(a \o b, n, P, x, y) /\ IsList(a) /\ IsList(b)
  BY StatementLists DEF AlterVets
<1> HIDE DEF a, b
<1>2. PICK z : Runs(a, n, P, x, z) /\ Runs(b, n, P, z, y)
  BY <1>1, RunsBoth
<1>3. z.d = x.d /\ z.tmp = x.tmp /\ Clean(Contents(x.d, src), {"shadow"})
  BY <1>2, RunsCheck DEF a
<1>4. y.d = z.d /\ y.tmp = z.tmp /\ Clean(Contents(z.d, src), P13Arms)
  BY <1>2, RunsCheck DEF b
<1> QED BY <1>3, <1>4

LEMMA RunsAlterChecks ==
  ASSUME NEW t, NEW slots, NEW src, NEW concrete, NEW stored, NEW ordersrc, concrete => src # NULL, stored => concrete,
         NEW n, NEW P, NEW x, NEW y, Runs(AlterChecks(t, slots, src, concrete, stored, ordersrc), n, P, x, y)
  PROVE  /\ y.d = x.d
         /\ ordersrc = "frozen" => \E p \in P : p
         /\ concrete => Vetted(x.d, slots, src)
         /\ stored => ~Drifted(x.d, t, src) /\ Clean(Contents(x.d, src), OverrideSlots(slots))
<1> DEFINE reads == AlterReads(slots, src)
<1> DEFINE fits == AlterFits(t, src)
<1> DEFINE vets == AlterVets(src)
<1> DEFINE over == stored /\ OverrideSlots(slots) # {}
<1> DEFINE g == CheckSource(OverrideSlots(slots), src)
<1> DEFINE a == FrozenGuard(ordersrc)
<1> DEFINE b == When(concrete, reads)
<1> DEFINE c == When(stored, fits)
<1> DEFINE e == When(concrete, vets)
<1> DEFINE h == When(over, g)
<1>1. Runs(a \o b \o c \o e \o h, n, P, x, y)
  BY DEF AlterChecks
<1>2. over <=> stored /\ OverrideSlots(slots) # {}
  OBVIOUS
<1>3. IsList(reads) /\ IsList(fits) /\ IsList(vets) /\ IsList(g) /\ IsList(a)
  BY AlterChecksList, StatementLists
<1> HIDE DEF reads, fits, vets, over, g, a
<1>4. IsList(b) /\ IsList(c) /\ IsList(e) /\ IsList(h)
  BY <1>3, WhenList
<1> HIDE DEF b, c, e, h
<1>5. IsList(a \o b) /\ IsList(a \o b \o c) /\ IsList(a \o b \o c \o e)
  BY <1>3, <1>4, ListsJoin
<1>6. PICK z4 : Runs(a \o b \o c \o e, n, P, x, z4) /\ Runs(h, n, P, z4, y)
  BY <1>1, <1>4, <1>5, RunsBoth
<1>7. PICK z3 : Runs(a \o b \o c, n, P, x, z3) /\ Runs(e, n, P, z3, z4)
  BY <1>4, <1>5, <1>6, RunsBoth
<1>8. PICK z2 : Runs(a \o b, n, P, x, z2) /\ Runs(c, n, P, z2, z3)
  BY <1>4, <1>5, <1>7, RunsBoth
<1>9. PICK z1 : Runs(a, n, P, x, z1) /\ Runs(b, n, P, z1, z2)
  BY <1>3, <1>4, <1>8, RunsBoth
<1>10. z1.d = x.d /\ (ordersrc = "frozen" => \E p \in P : p)
  BY <1>9, DoesFrozenGuard DEF a
<1>11. z2.d = x.d /\ (concrete =>
          /\ "ORDER" \in slots => Clean(Contents(x.d, src), {"order"})
          /\ HasKey(slots) => Clean(Contents(x.d, src), {"key"})
          /\ ~LevelBasis(slots) => Clean(Contents(x.d, src), {"reach"}))
  <2>1. (concrete => Runs(reads, n, P, z1, z2)) /\ (~concrete => z2 = z1)
    BY <1>9, RunsWhen DEF b
  <2> QED BY <1>10, <2>1, RunsAlterReads DEF reads
<1>12. z3.d = x.d /\ (stored => ~Drifted(x.d, t, src))
  <2>1. (stored => Runs(fits, n, P, z2, z3)) /\ (~stored => z3 = z2)
    BY <1>8, RunsWhen DEF c
  <2> QED BY <1>11, <2>1, RunsAlterFits DEF fits
<1>13. z4.d = x.d /\ (concrete => Clean(Contents(x.d, src), {"shadow"}) /\ Clean(Contents(x.d, src), P13Arms))
  <2>1. (concrete => Runs(vets, n, P, z3, z4)) /\ (~concrete => z4 = z3)
    BY <1>7, RunsWhen DEF e
  <2> QED BY <1>12, <2>1, RunsAlterVets DEF vets
<1>14. y.d = x.d /\ (stored => Clean(Contents(x.d, src), OverrideSlots(slots)))
  <2>1. Runs(When(over, CheckSource(OverrideSlots(slots), src)), n, P, z4, y)
    BY <1>6 DEF h, g
  <2> QED BY <1>2, <1>13, <2>1, RunsOverrides
<1> QED BY <1>10, <1>11, <1>12, <1>13, <1>14 DEF Vetted

\* Alter's replacement of the semantic group.
AlterGroup(t, slots, sslots, preds, sem) ==
  AlterClears(t) \o InsertInto("slots", SlotRows(t, slots, sslots))
  \o When(preds # {}, InsertInto("predicates", PredRows(t, preds))) \o SetSemantic(t, sem)

\* The cell of t with another group.
Regrouped(C, D, t, slots, sslots, preds, sem, n) ==
  /\ DOMAIN D = Cells
  /\ D["slots"] = (C["slots"] \ SemanticsOf(C["slots"], t)) \cup SlotsOnFile(t, slots, sslots, n)
  /\ D["predicates"] = (C["predicates"] \ ThoseOf(C["predicates"], t)) \cup PredsOnFile(t, preds, n)
  /\ D["trees"] = Flagged(C["trees"], t, sem, n)
  /\ \A rel \in Cells \ {"slots", "predicates", "trees"} : D[rel] = C[rel]

LEMMA RunsAlterGroup ==
  ASSUME NEW t, NEW slots, NEW sslots, NEW preds, NEW sem, NEW n, NEW P, NEW x, NEW y, DOMAIN x.d = Relation,
         Runs(AlterGroup(t, slots, sslots, preds, sem), n, P, x, y)
  PROVE  /\ Within(x.d, y.d, Fold[t])
         /\ Regrouped(CellOf(x.d, Fold[t]), CellOf(y.d, Fold[t]), t, slots, sslots, preds, sem, n)
<1> DEFINE m == Fold[t]
<1> DEFINE C(z) == CellOf(z.d, m)
<1> DEFINE some == preds # {}
<1> DEFINE a == DeleteFrom("slots", [t |-> t, b |-> "S"])
<1> DEFINE b == DeleteFrom("predicates", [t |-> t])
<1> DEFINE c == InsertInto("slots", SlotRows(t, slots, sslots))
<1> DEFINE e == When(some, InsertInto("predicates", PredRows(t, preds)))
<1> DEFINE g == SetSemantic(t, sem)
<1>1. Runs(a \o b \o c \o e \o g, n, P, x, y) /\ (some <=> preds # {})
  BY DEF AlterGroup, AlterClears
<1> HIDE DEF some
<1>2. IsList(a) /\ IsList(b) /\ IsList(c) /\ IsList(e) /\ IsList(g)
  BY StatementLists, WhenList
<1> HIDE DEF a, b, c, e, g
<1>3. IsList(a \o b) /\ IsList(a \o b \o c) /\ IsList(a \o b \o c \o e)
  BY <1>2, ListsJoin
<1>4. PICK z4 : Runs(a \o b \o c \o e, n, P, x, z4) /\ Runs(g, n, P, z4, y)
  BY <1>1, <1>2, <1>3, RunsBoth
<1>5. PICK z3 : Runs(a \o b \o c, n, P, x, z3) /\ Runs(e, n, P, z3, z4)
  BY <1>2, <1>3, <1>4, RunsBoth
<1>6. PICK z2 : Runs(a \o b, n, P, x, z2) /\ Runs(c, n, P, z2, z3)
  BY <1>2, <1>3, <1>5, RunsBoth
<1>7. PICK z1 : Runs(a, n, P, x, z1) /\ Runs(b, n, P, z1, z2)
  BY <1>2, <1>6, RunsBoth
<1> DEFINE S == SemanticsOf(Cell(x.d, "slots", m), t)
<1>8. Turns(x.d, z1.d, m, Cut(C(x), "slots", S))
  BY <1>7, RunsNoSemantics DEF a
<1>9. DOMAIN z1.d = Relation
  BY <1>8, TurnsDomain
<1> DEFINE O == ThoseOf(Cell(z1.d, "predicates", m), t)
<1>10. Turns(z1.d, z2.d, m, Cut(C(z1), "predicates", O))
  <2>1. "predicates" \in {"trees", "slots", "predicates", "compiled", "partitions", "assertions"}
    OBVIOUS
  <2> DEFINE rel == "predicates"
  <2>2. Runs(DeleteFrom(rel, [t |-> t]), n, P, z1, z2)
    BY <1>7 DEF b
  <2>3. Turns(z1.d, z2.d, Fold[t], Cut(CellOf(z1.d, Fold[t]), rel, ThoseOf(Cell(z1.d, rel, Fold[t]), t)))
    BY <1>9, <2>1, <2>2, RunsNoRows
  <2> QED BY <2>3
<1>11. DOMAIN z2.d = Relation
  BY <1>10, TurnsDomain
<1> DEFINE F == SlotsOnFile(t, slots, sslots, n)
<1>12. Turns(z2.d, z3.d, m, Add(C(z2), "slots", F))
  BY <1>6, <1>11, RunsSlots DEF c
<1>13. DOMAIN z3.d = Relation
  BY <1>12, TurnsDomain
<1> DEFINE G == PredsOnFile(t, preds, n)
<1>14. Turns(z3.d, z4.d, m, Add(C(z3), "predicates", G))
  BY <1>1, <1>5, <1>13, RunsPreds DEF e
<1>15. DOMAIN z4.d = Relation
  BY <1>14, TurnsDomain
<1> DEFINE T == Flagged(Cell(z4.d, "trees", m), t, sem, n)
<1>16. Turns(z4.d, y.d, m, Put(C(z4), "trees", T))
  BY <1>4, <1>15, RunsSemantic DEF g
<1>17. Within(x.d, y.d, m)
  BY <1>8, <1>10, <1>12, <1>14, <1>16, WithinBoth DEF Turns
<1>18. /\ C(x)["slots"] = Cell(x.d, "slots", m) /\ C(z1)["predicates"] = Cell(z1.d, "predicates", m)
       /\ C(z4)["trees"] = Cell(z4.d, "trees", m)
       /\ DOMAIN C(x) = Cells /\ DOMAIN C(z1) = Cells /\ DOMAIN C(z2) = Cells /\ DOMAIN C(z3) = Cells
       /\ DOMAIN C(z4) = Cells /\ DOMAIN C(y) = Cells
  BY CellIn, RelationsAreCells
<1>19. /\ C(z1) = Cut(C(x), "slots", S) /\ C(z2) = Cut(C(z1), "predicates", O) /\ C(z3) = Add(C(z2), "slots", F)
       /\ C(z4) = Add(C(z3), "predicates", G) /\ C(y) = Put(C(z4), "trees", T)
  BY <1>8, <1>10, <1>12, <1>14, <1>16 DEF Turns
<1>20. /\ S = SemanticsOf(C(x)["slots"], t) /\ O = ThoseOf(C(z1)["predicates"], t) /\ T = Flagged(C(z4)["trees"], t, sem, n)
  BY <1>18
<1> HIDE DEF C, S, O, T, F, G
<1>21. C(z1)["slots"] = C(x)["slots"] \ S /\ \A rel \in Cells \ {"slots"} : C(z1)[rel] = C(x)[rel]
  BY <1>18, <1>19, RelationsAreCells DEF Cut
<1>22. C(z2)["predicates"] = C(z1)["predicates"] \ O /\ \A rel \in Cells \ {"predicates"} : C(z2)[rel] = C(z1)[rel]
  BY <1>18, <1>19, RelationsAreCells DEF Cut
<1>23. C(z3)["slots"] = C(z2)["slots"] \cup F /\ \A rel \in Cells \ {"slots"} : C(z3)[rel] = C(z2)[rel]
  BY <1>18, <1>19, RelationsAreCells DEF Add
<1>24. C(z4)["predicates"] = C(z3)["predicates"] \cup G /\ \A rel \in Cells \ {"predicates"} : C(z4)[rel] = C(z3)[rel]
  BY <1>18, <1>19, RelationsAreCells DEF Add
<1>25. C(y)["trees"] = T /\ \A rel \in Cells \ {"trees"} : C(y)[rel] = C(z4)[rel]
  BY <1>18, <1>19, RelationsAreCells DEF Put
<1>26. C(y)["slots"] = (C(x)["slots"] \ S) \cup F
  BY <1>21, <1>22, <1>23, <1>24, <1>25, RelationsAreCells
<1>27. C(y)["predicates"] = (C(x)["predicates"] \ O) \cup G
  BY <1>21, <1>22, <1>23, <1>24, <1>25, RelationsAreCells
<1>28. C(z1)["predicates"] = C(x)["predicates"] /\ C(z4)["trees"] = C(x)["trees"]
  BY <1>21, <1>22, <1>23, <1>24, RelationsAreCells
<1>29. \A rel \in Cells \ {"slots", "predicates", "trees"} : C(y)[rel] = C(x)[rel]
  BY <1>21, <1>22, <1>23, <1>24, <1>25
<1>30. Regrouped(C(x), C(y), t, slots, sslots, preds, sem, n)
  BY <1>18, <1>20, <1>25, <1>26, <1>27, <1>28, <1>29 DEF Regrouped, F, G
<1> QED BY <1>17, <1>30 DEF C, m

\* Alter's records: the recorded projection is rewritten, the columns anew.
Reprojects(t, text) == Update("compiled", [t |-> t, art |-> "projection"], [text |-> text])
Unlists(t) == DeleteFrom("compiled", [t |-> t, art |-> "attribute_columns"])
AlterServes(t, text, served) == Macro(t, served) \o Reprojects(t, text) \o Unlists(t) \o Tree("attribute_columns", t)

\* The cell of t, served by another text.
Reserved(C, D, t, text, served, n) ==
  LET old == C["compiled"]
      mid == (old \ ArtifactsOf(old, t, "projection")) \cup Reprojected(old, t, text, n)
      macros == MacrosOnFile(Fold[t], served, n)
  IN  /\ DOMAIN D = Cells /\ D["macros"] = macros
      /\ D["compiled"] = (mid \ ArtifactsOf(mid, t, "attribute_columns")) \cup TextsOnFile(t, "attribute_columns", macros, n)
      /\ \A rel \in Cells \ {"macros", "compiled"} : D[rel] = C[rel]

LEMMA RunsAlterServes ==
  ASSUME NEW t, NEW text, NEW served, NEW n, NEW P, NEW x, NEW y, DOMAIN x.d = Relation,
         \A r \in CellOf(x.d, Fold[t])["compiled"] : r = TextOnFile(r.t, r.art, r.text, r.by),
         Runs(AlterServes(t, text, served), n, P, x, y)
  PROVE  /\ Within(x.d, y.d, Fold[t])
         /\ Reserved(CellOf(x.d, Fold[t]), CellOf(y.d, Fold[t]), t, text, served, n)
<1> DEFINE m == Fold[t]
<1> DEFINE C(z) == CellOf(z.d, m)
<1> DEFINE a == Macro(t, served)
<1> DEFINE b == Reprojects(t, text)
<1> DEFINE c == Unlists(t)
<1> DEFINE e == Tree("attribute_columns", t)
<1>1. Runs(a \o b \o c \o e, n, P, x, y)
  BY DEF AlterServes
<1>2. IsList(a) /\ IsList(b) /\ IsList(c) /\ IsList(e)
  BY StatementLists DEF Reprojects, Unlists
<1> HIDE DEF a, b, c, e
<1>3. IsList(a \o b) /\ IsList(a \o b \o c)
  BY <1>2, ListsJoin
<1>4. PICK z3 : Runs(a \o b \o c, n, P, x, z3) /\ Runs(e, n, P, z3, y)
  BY <1>1, <1>2, <1>3, RunsBoth
<1>5. PICK z2 : Runs(a \o b, n, P, x, z2) /\ Runs(c, n, P, z2, z3)
  BY <1>2, <1>3, <1>4, RunsBoth
<1>6. PICK z1 : Runs(a, n, P, x, z1) /\ Runs(b, n, P, z1, z2)
  BY <1>2, <1>5, RunsBoth
<1> DEFINE M == MacrosOnFile(m, served, n)
<1>7. Turns(x.d, z1.d, m, Put(C(x), "macros", M))
  BY <1>6, RunsMacro DEF a
<1>8. DOMAIN z1.d = Relation
  BY <1>7, TurnsDomain
<1>9. C(z1) = Put(C(x), "macros", M) /\ DOMAIN C(x) = Cells
  BY <1>7, CellIn DEF Turns
<1>10. C(z1)["compiled"] = C(x)["compiled"]
  <2> HIDE DEF C
  <2> QED BY <1>9, RelationsAreCells DEF Put
<1>11. C(z1)["compiled"] = Cell(z1.d, "compiled", m)
  BY CellIn, RelationsAreCells
<1>12. \A r \in Cell(z1.d, "compiled", m) : r = TextOnFile(r.t, r.art, r.text, r.by)
  BY <1>10, <1>11
<1> DEFINE old == Cell(z1.d, "compiled", m)
<1> DEFINE A == ArtifactsOf(old, t, "projection")
<1> DEFINE B == Reprojected(old, t, text, n)
<1>13. Turns(z1.d, z2.d, m, Add(Cut(C(z1), "compiled", A), "compiled", B))
  <2>1. Runs(Update("compiled", [t |-> t, art |-> "projection"], [text |-> text]), n, P, z1, z2)
    BY <1>6 DEF b, Reprojects
  <2> QED BY <1>8, <1>12, <2>1, RunsReproject
<1>14. DOMAIN z2.d = Relation
  BY <1>13, TurnsDomain
<1> DEFINE mid == Cell(z2.d, "compiled", m)
<1> DEFINE U == ArtifactsOf(mid, t, "attribute_columns")
<1>15. Turns(z2.d, z3.d, m, Cut(C(z2), "compiled", U))
  <2> DEFINE rel == "compiled"
  <2> DEFINE art == "attribute_columns"
  <2>1. rel \in {"compiled", "assertions"} /\ Runs(DeleteFrom(rel, [t |-> t, art |-> art]), n, P, z2, z3)
    BY <1>5 DEF c, Unlists
  <2>2. Turns(z2.d, z3.d, Fold[t], Cut(CellOf(z2.d, Fold[t]), rel, ArtifactsOf(Cell(z2.d, rel, Fold[t]), t, art)))
    BY <1>14, <2>1, RunsNoArtifacts
  <2> QED BY <2>2
<1>16. DOMAIN z3.d = Relation
  BY <1>15, TurnsDomain
<1> DEFINE V == TextsOnFile(t, "attribute_columns", Cell(z3.d, "macros", m), n)
<1>17. Turns(z3.d, y.d, m, Add(C(z3), "compiled", V))
  BY <1>4, <1>16, RunsColumns DEF e
<1>18. Within(x.d, y.d, m)
  BY <1>7, <1>13, <1>15, <1>17, WithinBoth DEF Turns
<1>19. /\ mid = C(z2)["compiled"] /\ Cell(z3.d, "macros", m) = C(z3)["macros"]
       /\ DOMAIN C(z1) = Cells /\ DOMAIN C(z2) = Cells /\ DOMAIN C(z3) = Cells /\ DOMAIN C(y) = Cells
  BY CellIn, RelationsAreCells
<1>20. /\ C(z2) = Add(Cut(C(z1), "compiled", A), "compiled", B) /\ C(z3) = Cut(C(z2), "compiled", U)
       /\ C(y) = Add(C(z3), "compiled", V)
  BY <1>13, <1>15, <1>17 DEF Turns
<1>21. V = TextsOnFile(t, "attribute_columns", C(z3)["macros"], n)
  BY <1>19
<1>22. U = ArtifactsOf(mid, t, "attribute_columns") /\ old = C(x)["compiled"]
  BY <1>10, <1>11
<1>23. A = ArtifactsOf(old, t, "projection") /\ B = Reprojected(old, t, text, n)
  OBVIOUS
<1> HIDE DEF C, A, B, U, V, M, old, mid
<1>24. C(z1)["macros"] = M /\ \A rel \in Cells \ {"macros"} : C(z1)[rel] = C(x)[rel]
  BY <1>9, RelationsAreCells DEF Put
<1>25. C(z2)["compiled"] = (C(z1)["compiled"] \ A) \cup B /\ \A rel \in Cells \ {"compiled"} : C(z2)[rel] = C(z1)[rel]
  BY <1>19, <1>20, RelationsAreCells DEF Add, Cut
<1>26. C(z3)["compiled"] = C(z2)["compiled"] \ U /\ \A rel \in Cells \ {"compiled"} : C(z3)[rel] = C(z2)[rel]
  BY <1>19, <1>20, RelationsAreCells DEF Cut
<1>27. C(y)["compiled"] = C(z3)["compiled"] \cup V /\ \A rel \in Cells \ {"compiled"} : C(y)[rel] = C(z3)[rel]
  BY <1>19, <1>20, RelationsAreCells DEF Add
<1>28. C(z3)["macros"] = M /\ C(y)["macros"] = M
  BY <1>24, <1>25, <1>26, <1>27, RelationsAreCells
<1>29. mid = (old \ A) \cup B
  BY <1>10, <1>19, <1>22, <1>25
<1>30. C(y)["compiled"] = (mid \ U) \cup V
  BY <1>19, <1>26, <1>27
<1>31. \A rel \in Cells \ {"macros", "compiled"} : C(y)[rel] = C(x)[rel]
  BY <1>24, <1>25, <1>26, <1>27
<1>32. Reserved(C(x), C(y), t, text, served, n)
  BY <1>19, <1>21, <1>22, <1>23, <1>28, <1>29, <1>30, <1>31 DEF Reserved, M, m
<1> QED BY <1>18, <1>32 DEF C, m

\* The slots after an alter: the R and O slots kept, the S slots as written.
Regroups(C, D, q, slots, sslots, n) ==
  /\ slots = (SlotsIn(C) \ SSlot) \cup sslots
  /\ D["slots"] = (C["slots"] \ SemanticsOf(C["slots"], q.t)) \cup SlotsOnFile(q.t, slots, sslots, n)

LEMMA RegroupedSlots ==
  ASSUME NEW C, NEW D, NEW q, NEW slots, NEW sslots, NEW n, Regroups(C, D, q, slots, sslots, n), sslots \subseteq SSlot,
         SlotsTidy(C, q), \A r \in C["slots"] : r.t = q.t
  PROVE  /\ SlotsIn(D) = slots
         /\ \A r \in D["slots"] : r.t = q.t
         /\ \A r \in D["slots"] : r.s \in Slot /\ (r.b = "S" <=> r.s \in SSlot)
         /\ \A r, z \in D["slots"] : r.s = z.s => r = z
<1> DEFINE F == SlotsOnFile(q.t, slots, sslots, n)
<1>1. /\ \A r \in F : r.t = q.t /\ r.s \in sslots /\ (r.b = "S" <=> r.s \in SSlot)
      /\ \A s \in sslots : \E r \in F : r.s = s
      /\ \A r, z \in F : r.s = z.s => r = z
  BY SlotsFiled
<1>2. D["slots"] = (C["slots"] \ SemanticsOf(C["slots"], q.t)) \cup F /\ slots = (SlotsIn(C) \ SSlot) \cup sslots
  BY DEF Regroups
<1> HIDE DEF F
<1>3. \A r : r \in D["slots"] <=> (r \in C["slots"] /\ r.s \notin SSlot) \/ r \in F
  BY <1>2 DEF SlotsTidy, SemanticsOf
<1>4. SlotsIn(D) = slots
  <2>1. \A s : s \in SlotsIn(D) <=> \E r \in D["slots"] : s = r.s
    BY DEF SlotsIn
  <2>2. \A s : s \in SlotsIn(C) <=> \E r \in C["slots"] : s = r.s
    BY DEF SlotsIn
  <2>3. \A s : s \in slots <=> (s \in SlotsIn(C) /\ s \notin SSlot) \/ s \in sslots
    BY <1>2
  <2>4. \A s : s \in SlotsIn(D) <=> s \in slots
    BY <1>1, <1>3, <2>1, <2>2, <2>3
  <2> QED BY <2>4
<1>5. \A r \in D["slots"] : r.t = q.t
  BY <1>1, <1>3
<1>6. SSlot \subseteq Slot
  BY DEF Slot
<1>7. \A r \in D["slots"] : r.s \in Slot /\ (r.b = "S" <=> r.s \in SSlot)
  BY <1>1, <1>3, <1>6 DEF SlotsTidy
<1>8. \A r, z \in D["slots"] : r.s = z.s => r = z
  BY <1>1, <1>3 DEF SlotsTidy
<1> QED BY <1>4, <1>5, <1>7, <1>8

\* What a tree claims is not its semantics.
LEMMA RegroupedClaims ==
  ASSUME NEW old, NEW slots, \A s : s \notin SSlot => (s \in slots <=> s \in old)
  PROVE  \A q, z : (Stores(z) <=> Stores(q)) => Checked(z, slots) = Checked(q, old)
<1>1. \A s \in OSlot \cup {"LEVEL", "PARENT", "ORDER"} : s \notin SSlot
  BY DEF OSlot, SSlot
<1>2. \A s \in OSlot \cup {"LEVEL", "PARENT", "ORDER"} : s \in slots <=> s \in old
  BY <1>1
<1>3. slots \cap OSlot = old \cap OSlot
  BY <1>2
<1>4. {"PARENT", "LEVEL"} \subseteq slots <=> {"PARENT", "LEVEL"} \subseteq old
  BY <1>2
<1>5. OverrideSlots(slots) = OverrideSlots(old)
  BY <1>3, <1>4 DEF OverrideSlots
<1> QED BY <1>2, <1>5 DEF Checked

\* The basis and the key of a tree are not its semantics.
LEMMA RegroupedKinds ==
  ASSUME NEW old, NEW sslots, sslots \subseteq SSlot, NEW slots, slots = (old \ SSlot) \cup sslots
  PROVE  (LevelBasis(slots) <=> LevelBasis(old)) /\ (HasKey(slots) <=> HasKey(old))
<1>1. "LEVEL" \notin SSlot /\ "PARENT" \notin SSlot
  BY DEF SSlot
<1>2. LevelBasis(slots) <=> LevelBasis(old)
  BY <1>1 DEF LevelBasis
<1>3. ~HasKey(SSlot)
  BY DEF HasKey, SSlot
<1>4. HasKey(slots) <=> HasKey(old)
  BY <1>3, Zenon DEF HasKey
<1> QED BY <1>2, <1>4

\* What alter makes of the records: one projection and the columns of one macro.
LEMMA ReservedTexts ==
  ASSUME NEW C, NEW D, NEW t, NEW text, NEW served, NEW n, Reserved(C, D, t, text, served, n),
         \A r \in C["compiled"] : r.t = t /\ (r.art = "projection" \/ r.art = "attribute_columns"),
         \E r \in C["compiled"] : r.art = "projection"
  PROVE  /\ D["macros"] # {} /\ \A r \in D["macros"] : r.text = served
         /\ \A r : r \in D["compiled"] <=> \/ r = TextOnFile(t, "projection", text, n)
                                           \/ r = TextOnFile(t, "attribute_columns", served, n)
<1> DEFINE old == C["compiled"]
<1> DEFINE mid == (old \ ArtifactsOf(old, t, "projection")) \cup Reprojected(old, t, text, n)
<1> DEFINE macros == MacrosOnFile(Fold[t], served, n)
<1> DEFINE cols == TextsOnFile(t, "attribute_columns", macros, n)
<1> DEFINE a == TextOnFile(t, "projection", text, n)
<1> DEFINE b == TextOnFile(t, "attribute_columns", served, n)
<1>1. D["macros"] = macros /\ D["compiled"] = (mid \ ArtifactsOf(mid, t, "attribute_columns")) \cup cols
  BY DEF Reserved
<1> DEFINE w == [m |-> Fold[t], text |-> served, by |-> n]
<1>2. w.text = served /\ \A r : r \in macros <=> r = w
  BY DEF MacrosOnFile
<1>3. a.t = t /\ a.art = "projection" /\ b.art = "attribute_columns"
  BY DEF TextOnFile
<1> HIDE DEF w, macros
<1>4. \A r : r \in cols <=> r = b
  BY <1>2 DEF TextsOnFile
<1>5. \A r : r \in Reprojected(old, t, text, n) <=> r = a
  <2>1. \E r : r \in ArtifactsOf(old, t, "projection")
    BY DEF ArtifactsOf
  <2> QED BY <2>1 DEF Reprojected
<1> HIDE DEF cols, a, b
<1>6. \A r : r \in mid <=> (r \in old /\ r.art = "attribute_columns") \/ r = a
  BY <1>3, <1>5 DEF ArtifactsOf
<1>7. \A r \in mid : r.t = t
  BY <1>3, <1>6
<1> HIDE DEF mid, old
<1>8. \A r : r \in mid \ ArtifactsOf(mid, t, "attribute_columns") <=> r = a
  BY <1>3, <1>6, <1>7 DEF ArtifactsOf
<1> QED BY <1>1, <1>2, <1>4, <1>8 DEF a, b

LEMMA ReservedTidy ==
  ASSUME NEW C, NEW D, NEW q, Concrete(q), q.source # NULL, NEW n,
         \A r \in C["compiled"] : r.t = q.t /\ (r.art = "projection" \/ r.art = "attribute_columns"),
         \E r \in C["compiled"] : r.art = "projection",
         Reserved(C, D, q.t, Projection(SlotsIn(D), q.source), ServedBy(q.storage, q.t, SlotsIn(D), q.source), n)
  PROVE  TextsTidy(D, q) /\ \A r \in D["compiled"] : r.t = q.t /\ r = TextOnFile(r.t, r.art, r.text, r.by)
<1> DEFINE text == Projection(SlotsIn(D), q.source)
<1> DEFINE served == ServedBy(q.storage, q.t, SlotsIn(D), q.source)
<1>1. Reserved(C, D, q.t, text, served, n)
  OBVIOUS
<1>2. /\ text = Projection(SlotsIn(D), q.source) /\ served = ServedBy(q.storage, q.t, SlotsIn(D), q.source)
  OBVIOUS
<1> HIDE DEF text, served
<1>3. /\ D["macros"] # {} /\ \A r \in D["macros"] : r.text = served
      /\ \A r : r \in D["compiled"] <=> \/ r = TextOnFile(q.t, "projection", text, n)
                                        \/ r = TextOnFile(q.t, "attribute_columns", served, n)
  BY <1>1, ReservedTexts
<1>4. \A art, u : LET r == TextOnFile(q.t, art, u, n) IN
        r.t = q.t /\ r.art = art /\ r.text = u /\ r = TextOnFile(r.t, r.art, r.text, r.by)
  BY DEF TextOnFile
<1>5. TextsTidy(D, q)
  <2>1. /\ \E r \in D["compiled"] : r.art = "projection"
        /\ \E r \in D["compiled"] : r.art = "attribute_columns"
        /\ \A r \in D["compiled"] : \/ r.art = "projection" /\ r.text = text
                                    \/ r.art = "attribute_columns" /\ r.text = served
    BY <1>3, <1>4
  <2> QED BY <1>2, <1>3, <2>1 DEF TextsTidy
<1> QED BY <1>3, <1>4, <1>5

\* A rebuilt table, of a source whose roots and sizes are those on file.
Retabled(D, t, parts, arb, n) ==
  D["tables"] = TablesOnFile(Fold[t], n) /\ D["rows"] = RowsOf(Fold[t], n, parts, arb, n)
Fits(parts, held) ==
  Roots(parts) = Roots(held) /\ \A x \in parts, y \in held : x.root = y.root => x.part.n = y.n

LEMMA RetabledTidy ==
  ASSUME NEW held, OnePerRoot(held), NEW D, D["partitions"] = held, NEW q, Stores(q), NEW parts, OnePerRoot(parts),
         Fits(parts, held), NEW arb, NEW n, Retabled(D, q.t, parts, arb, n)
  PROVE  RowsTidy(D, q)
<1> DEFINE F == RowsOf(Fold[q.t], n, parts, arb, n)
<1>1. /\ \A r \in F : r.v = n /\ \E p \in parts : r.root = p.root /\ r.part = p.part
      /\ \A p \in parts : \E r \in F : r.root = p.root /\ r.part = p.part
      /\ OnePerRoot(F)
  BY RowsFiled
<1>2. D["tables"] = TablesOnFile(Fold[q.t], n) /\ D["rows"] = F
  BY DEF Retabled
<1> HIDE DEF F
<1>3. \A x : x \in Roots(parts) <=> \E p \in parts : x = p.root
  BY DEF Roots
<1>4. \A x : x \in Roots(held) <=> \E p \in held : x = p.root
  BY DEF Roots
<1>5. \A p \in held : \E r \in D["rows"] : r.root = p.root /\ r.part.n = p.n
  <2> TAKE p \in held
  <2>1. PICK z \in parts : z.root = p.root
    BY <1>3, <1>4 DEF Fits
  <2>2. PICK r \in F : r.root = z.root /\ r.part = z.part
    BY <1>1
  <2>3. z.part.n = p.n
    BY <2>1 DEF Fits
  <2> QED BY <1>2, <2>1, <2>2, <2>3
<1>6. \A r \in D["rows"] : \E p \in held : r.root = p.root /\ r.part.n = p.n
  <2> TAKE r \in D["rows"]
  <2>1. PICK z \in parts : r.root = z.root /\ r.part = z.part
    BY <1>1, <1>2
  <2>2. PICK p \in held : p.root = z.root
    BY <1>3, <1>4 DEF Fits
  <2>3. z.part.n = p.n
    BY <2>2 DEF Fits
  <2> QED BY <2>1, <2>2, <2>3
<1> QED BY <1>1, <1>2, <1>5, <1>6 DEF RowsTidy

LEMMA RetabledSound ==
  ASSUME NEW C, RowsSound(C), NEW D, NEW t, NEW d, NEW src, NEW arb, NEW n,
         Retabled(D, t, Contents(d, src), arb, n), Vetted(d, SlotsIn(D), src),
         Clean(Contents(d, src), OverrideSlots(SlotsIn(D))), Lone => ~arb,
         LevelBasis(SlotsIn(D)) <=> LevelBasis(SlotsIn(C)), HasKey(SlotsIn(D)) <=> HasKey(SlotsIn(C))
  PROVE  RowsSound(D) /\ \A r \in D["rows"] : {"m", "v", "root", "part", "arb"} \subseteq DOMAIN r
<1> DEFINE parts == Contents(d, src)
<1> DEFINE F == RowsOf(Fold[t], n, parts, arb, n)
<1>1. D["rows"] = F
  BY DEF Retabled
<1>2. Clean(parts, Enforced(SlotsIn(D)))
  BY VettedEnforced
<1>3. HasKey(SlotsIn(D)) => Clean(parts, {"key"})
  BY DEF Vetted
<1> HIDE DEF parts
<1>4. /\ \A r \in F : r.arb = arb /\ {"m", "v", "root", "part", "arb"} \subseteq DOMAIN r
      /\ \A defects : Clean(parts, defects) => Clean(F, defects)
  BY RowsFiled
<1> HIDE DEF F
<1> QED BY <1>1, <1>2, <1>3, <1>4 DEF RowsSound

\* The tree's row after an alter: the same, but for its flag.
LEMMA FlaggedTree ==
  ASSUME NEW q, NEW trees, trees = {q}, NEW sem, NEW n
  PROVE  LET q1 == TreeRecord(q, sem, n) IN
         /\ Flagged(trees, q.t, sem, n) = {q1}
         /\ q1.t = q.t /\ q1.source = q.source /\ q1.storage = q.storage /\ q1.sem = sem
         /\ (Concrete(q1) <=> Concrete(q)) /\ (Stores(q1) <=> Stores(q))
<1> DEFINE q1 == TreeRecord(q, sem, n)
<1>1. /\ q1.t = q.t /\ q1.abstract = q.abstract /\ q1.source = q.source /\ q1.storage = q.storage /\ q1.sem = sem
  BY DEF TreeRecord
<1>2. Flagged(trees, q.t, sem, n) = {q1}
  <2> HIDE DEF q1
  <2>1. \A r : r \in Flagged(trees, q.t, sem, n) <=> r = q1
    BY DEF Flagged, q1
  <2> QED BY <2>1
<1> HIDE DEF q1
<1>3. (Concrete(q1) <=> Concrete(q)) /\ (Stores(q1) <=> Stores(q))
  BY <1>1 DEF Concrete, Stores
<1> QED BY <1>1, <1>2, <1>3 DEF q1

\* Alter's rebuilding of the table, the macro and the records.
Rebuilds(t, src, ordersrc, text, served, concrete, stored) ==
  When(stored, Project("replace_table", t, src, ordersrc)) \o When(concrete, AlterServes(t, text, served))
Rebuilt(C, D, t, parts, text, served, concrete, stored, arb, n) ==
  \E E : /\ DOMAIN E = Cells /\ \A rel \in Cells \ {"tables", "rows"} : E[rel] = C[rel]
         /\ stored => Retabled(E, t, parts, arb, n)
         /\ ~stored => E["tables"] = C["tables"] /\ E["rows"] = C["rows"]
         /\ concrete => Reserved(E, D, t, text, served, n)
         /\ ~concrete => D = E

LEMMA RunsReplaceTable ==
  ASSUME NEW t, NEW src, NEW ordersrc, NEW stored, NEW n, NEW P, NEW x, NEW y, DOMAIN x.d = Relation,
         Runs(When(stored, Project("replace_table", t, src, ordersrc)), n, P, x, y)
  PROVE  /\ Within(x.d, y.d, Fold[t]) /\ DOMAIN CellOf(y.d, Fold[t]) = Cells
         /\ \A rel \in Cells \ {"tables", "rows"} : CellOf(y.d, Fold[t])[rel] = CellOf(x.d, Fold[t])[rel]
         /\ ~stored => y = x
         /\ stored => \E p \in P : Retabled(CellOf(y.d, Fold[t]), t, Contents(x.d, src), Loose(p, ordersrc), n)
<1> DEFINE m == Fold[t]
<1>0. DOMAIN CellOf(y.d, m) = Cells /\ DOMAIN CellOf(x.d, m) = Cells
  BY CellIn
<1>1. CASE ~stored
  <2>1. y = x
    BY <1>1, RunsNothing DEF When
  <2>2. Within(x.d, x.d, m)
    BY TurnsNothing DEF Turns
  <2> QED BY <1>0, <1>1, <2>1, <2>2
<1>2. CASE stored
  <2>1. Runs(Project("replace_table", t, src, ordersrc), n, P, x, y)
    BY <1>2 DEF When
  <2>2. PICK p \in P : Turns(x.d, y.d, m, NewTable(CellOf(x.d, m), TablesOnFile(m, n),
                               RowsOf(m, n, Contents(x.d, src), Loose(p, ordersrc), n)))
    BY <2>1, RunsTable
  <2> DEFINE T == TablesOnFile(m, n)
  <2> DEFINE R == RowsOf(m, n, Contents(x.d, src), Loose(p, ordersrc), n)
  <2> DEFINE C == CellOf(x.d, m)
  <2> DEFINE D == CellOf(y.d, m)
  <2>3. Within(x.d, y.d, m) /\ D = NewTable(C, T, R)
    BY <2>2 DEF Turns
  <2> HIDE DEF T, R, C, D
  <2>4. D["tables"] = T /\ D["rows"] = R /\ \A rel \in Cells \ {"tables", "rows"} : D[rel] = C[rel]
    BY <1>0, <2>3, RelationsAreCells DEF NewTable, Put, C, D
  <2>5. Retabled(D, t, Contents(x.d, src), Loose(p, ordersrc), n)
    BY <2>4 DEF Retabled, T, R
  <2> QED BY <1>0, <1>2, <2>3, <2>4, <2>5 DEF C, D
<1> QED BY <1>1, <1>2

LEMMA RunsRebuilds ==
  ASSUME NEW t, NEW src, NEW ordersrc, NEW text, NEW served, NEW concrete, NEW stored, NEW n, NEW P, NEW x, NEW y,
         DOMAIN x.d = Relation, \A r \in CellOf(x.d, Fold[t])["compiled"] : r = TextOnFile(r.t, r.art, r.text, r.by),
         Runs(Rebuilds(t, src, ordersrc, text, served, concrete, stored), n, P, x, y)
  PROVE  /\ Within(x.d, y.d, Fold[t])
         /\ \E arb : /\ stored => \E p \in P : arb = Loose(p, ordersrc)
                     /\ Rebuilt(CellOf(x.d, Fold[t]), CellOf(y.d, Fold[t]), t, Contents(x.d, src), text, served,
                                concrete, stored, arb, n)
<1> DEFINE m == Fold[t]
<1> DEFINE a == When(stored, Project("replace_table", t, src, ordersrc))
<1> DEFINE b == When(concrete, AlterServes(t, text, served))
<1>1. Runs(a \o b, n, P, x, y)
  BY DEF Rebuilds
<1>2. IsList(a) /\ IsList(b)
  <2>1. IsList(AlterServes(t, text, served))
    BY StatementLists, ListsJoin DEF AlterServes, Reprojects, Unlists
  <2> QED BY <2>1, StatementLists, WhenList
<1> HIDE DEF a, b
<1>3. PICK z : Runs(a, n, P, x, z) /\ Runs(b, n, P, z, y)
  BY <1>1, <1>2, RunsBoth
<1>4. /\ Within(x.d, z.d, m) /\ DOMAIN CellOf(z.d, m) = Cells
      /\ \A rel \in Cells \ {"tables", "rows"} : CellOf(z.d, m)[rel] = CellOf(x.d, m)[rel]
      /\ ~stored => z = x
      /\ stored => \E p \in P : Retabled(CellOf(z.d, m), t, Contents(x.d, src), Loose(p, ordersrc), n)
  BY <1>3, RunsReplaceTable DEF a
<1>5. CellOf(z.d, m)["compiled"] = CellOf(x.d, m)["compiled"] /\ DOMAIN z.d = Relation
  BY <1>4, RelationsAreCells DEF Within
<1>6. /\ Within(z.d, y.d, m)
      /\ concrete => Reserved(CellOf(z.d, m), CellOf(y.d, m), t, text, served, n)
      /\ ~concrete => y = z
  <2>1. (concrete => Runs(AlterServes(t, text, served), n, P, z, y)) /\ (~concrete => y = z)
    BY <1>3, RunsWhen DEF b
  <2>2. Within(z.d, z.d, m)
    BY <1>5, TurnsNothing DEF Turns
  <2>3. \A r \in CellOf(z.d, Fold[t])["compiled"] : r = TextOnFile(r.t, r.art, r.text, r.by)
    BY <1>5
  <2>4. concrete => Within(z.d, y.d, m) /\ Reserved(CellOf(z.d, m), CellOf(y.d, m), t, text, served, n)
    BY <1>5, <2>1, <2>3, RunsAlterServes
  <2> QED BY <2>1, <2>2, <2>4
<1>7. Within(x.d, y.d, m)
  BY <1>4, <1>6, WithinBoth
<1>8. PICK arb : stored => /\ \E p \in P : arb = Loose(p, ordersrc)
                           /\ Retabled(CellOf(z.d, m), t, Contents(x.d, src), arb, n)
  BY <1>4
<1>9. Rebuilt(CellOf(x.d, m), CellOf(y.d, m), t, Contents(x.d, src), text, served, concrete, stored, arb, n)
  BY <1>4, <1>6, <1>8 DEF Rebuilt
<1> QED BY <1>7, <1>8, <1>9

\* The tidy cell of q, its group replaced and its table rebuilt, is tidy.
LEMMA AlteredTidy ==
  ASSUME NEW C, NEW q, C["trees"] = {q}, TidyTree(C, q), NEW d, NEW slots, NEW sslots, sslots \subseteq SSlot, NEW preds,
         slots = (SlotsIn(C) \ SSlot) \cup sslots, NEW sem, sem = Declares(slots, preds), NEW n, NEW arb, Lone => ~arb,
         OnePerRoot(Contents(d, q.source)),
         Concrete(q) => Vetted(d, slots, q.source),
         Stores(q) => /\ Fits(Contents(d, q.source), C["partitions"])
                      /\ Clean(Contents(d, q.source), OverrideSlots(slots)),
         NEW G, Regrouped(C, G, q.t, slots, sslots, preds, sem, n),
         NEW D, Rebuilt(G, D, q.t, Contents(d, q.source), Projection(slots, q.source),
                        ServedBy(q.storage, q.t, slots, q.source), Concrete(q), Stores(q), arb, n)
  PROVE  Tidy(D)
<1> DEFINE q1 == TreeRecord(q, sem, n)
<1> DEFINE parts == Contents(d, q.source)
<1> DEFINE text == Projection(slots, q.source)
<1> DEFINE served == ServedBy(q.storage, q.t, slots, q.source)
<1>1. /\ Flagged(C["trees"], q.t, sem, n) = {q1}
      /\ q1.t = q.t /\ q1.source = q.source /\ q1.storage = q.storage /\ q1.sem = sem
      /\ (Concrete(q1) <=> Concrete(q)) /\ (Stores(q1) <=> Stores(q))
  <2> DEFINE trees == C["trees"]
  <2>1. trees = {q}
    OBVIOUS
  <2> HIDE DEF trees
  <2>2. LET w == TreeRecord(q, sem, n) IN
        /\ Flagged(trees, q.t, sem, n) = {w}
        /\ w.t = q.t /\ w.source = q.source /\ w.storage = q.storage /\ w.sem = sem
        /\ (Concrete(w) <=> Concrete(q)) /\ (Stores(w) <=> Stores(q))
    BY <2>1, FlaggedTree
  <2> QED BY <2>2 DEF trees
<1>2. PICK E : /\ DOMAIN E = Cells /\ \A rel \in Cells \ {"tables", "rows"} : E[rel] = G[rel]
               /\ Stores(q) => Retabled(E, q.t, parts, arb, n)
               /\ ~Stores(q) => E["tables"] = G["tables"] /\ E["rows"] = G["rows"]
               /\ Concrete(q) => Reserved(E, D, q.t, text, served, n)
               /\ ~Concrete(q) => D = E
  BY DEF Rebuilt
<1> HIDE DEF q1, parts, text, served
<1>3. DOMAIN D = Cells /\ \A rel \in Cells \ {"macros", "compiled"} : D[rel] = E[rel]
  BY <1>2 DEF Reserved
<1>4. /\ D["slots"] = G["slots"] /\ D["predicates"] = G["predicates"] /\ D["trees"] = G["trees"]
      /\ D["assertions"] = G["assertions"] /\ D["partitions"] = G["partitions"]
      /\ D["tables"] = E["tables"] /\ D["rows"] = E["rows"]
      /\ E["compiled"] = G["compiled"] /\ E["macros"] = G["macros"]
  BY <1>2, <1>3, RelationsAreCells
<1>5. /\ G["slots"] = (C["slots"] \ SemanticsOf(C["slots"], q.t)) \cup SlotsOnFile(q.t, slots, sslots, n)
      /\ G["predicates"] = (C["predicates"] \ ThoseOf(C["predicates"], q.t)) \cup PredsOnFile(q.t, preds, n)
      /\ G["trees"] = {q1}
  BY <1>1 DEF Regrouped
<1>6. /\ G["assertions"] = C["assertions"] /\ G["partitions"] = C["partitions"] /\ G["compiled"] = C["compiled"]
      /\ G["macros"] = C["macros"] /\ G["tables"] = C["tables"] /\ G["rows"] = C["rows"]
  BY RelationsAreCells DEF Regrouped
<1>7. Shaped(C, q) /\ SlotsTidy(C, q) /\ TextsTidy(C, q) /\ RowsTidy(C, q) /\ RowsSound(C) /\ VerdictsTidy(C, q)
  BY DEF TidyTree
<1>8. Regroups(C, D, q, slots, sslots, n)
  BY <1>4, <1>5 DEF Regroups
<1>9. /\ SlotsIn(D) = slots
      /\ \A r \in D["slots"] : r.t = q.t
      /\ \A r \in D["slots"] : r.s \in Slot /\ (r.b = "S" <=> r.s \in SSlot)
      /\ \A r, z \in D["slots"] : r.s = z.s => r = z
  <2>1. \A r \in C["slots"] : r.t = q.t
    BY <1>7 DEF Shaped, TreeKept
  <2> QED BY <1>7, <1>8, <2>1, RegroupedSlots
<1>10. (LevelBasis(slots) <=> LevelBasis(SlotsIn(C))) /\ (HasKey(slots) <=> HasKey(SlotsIn(C)))
  <2> DEFINE old == SlotsIn(C)
  <2>1. slots = (old \ SSlot) \cup sslots
    OBVIOUS
  <2> HIDE DEF old
  <2> QED BY <2>1, RegroupedKinds DEF old
<1>11. PredsIn(D) = preds /\ \A r \in D["predicates"] : r.t = q.t
  <2>1. \A r : r \in D["predicates"] <=> r \in PredsOnFile(q.t, preds, n)
    <3>1. \A r \in C["predicates"] : r.t = q.t
      BY <1>7 DEF Shaped, TreeKept
    <3> QED BY <1>4, <1>5, <3>1 DEF ThoseOf
  <2> QED BY <2>1, PredsFiled DEF PredsIn
<1>12. SlotsTidy(D, q1)
  BY <1>1, <1>7, <1>9, <1>10, <1>11 DEF SlotsTidy
<1>13. TextsTidy(D, q1) /\ \A r \in D["compiled"] : r.t = q.t /\ r = TextOnFile(r.t, r.art, r.text, r.by)
  <2>1. CASE ~Concrete(q)
    <3>1. D["compiled"] = C["compiled"] /\ D["macros"] = {}
      BY <1>2, <1>4, <1>6, <1>7, <2>1 DEF TextsTidy
    <3>2. \A r \in C["compiled"] : r.t = q.t /\ r = TextOnFile(r.t, r.art, r.text, r.by)
      BY <1>7 DEF Shaped, TreeKept
    <3> QED BY <1>1, <2>1, <3>1, <3>2 DEF TextsTidy
  <2>2. CASE Concrete(q)
    <3>1. /\ q1.source # NULL /\ \E r \in C["compiled"] : r.art = "projection"
          /\ \A r \in C["compiled"] : r.art = "projection" \/ r.art = "attribute_columns"
      BY <1>1, <1>7, <2>2 DEF TextsTidy
    <3>5. \A r \in C["compiled"] : r.t = q1.t
      BY <1>1, <1>7 DEF Shaped, TreeKept
    <3>2. /\ \A r \in E["compiled"] : r.t = q1.t /\ (r.art = "projection" \/ r.art = "attribute_columns")
          /\ \E r \in E["compiled"] : r.art = "projection"
      BY <1>4, <1>6, <3>1, <3>5
    <3>3. Reserved(E, D, q1.t, Projection(SlotsIn(D), q1.source), ServedBy(q1.storage, q1.t, SlotsIn(D), q1.source), n)
      BY <1>1, <1>2, <1>9, <2>2 DEF text, served
    <3>4. TextsTidy(D, q1) /\ \A r \in D["compiled"] : r.t = q1.t /\ r = TextOnFile(r.t, r.art, r.text, r.by)
      <4>1. Concrete(q1)
        BY <1>1, <2>2
      <4> DEFINE w == q1
      <4>2. /\ Reserved(E, D, w.t, Projection(SlotsIn(D), w.source), ServedBy(w.storage, w.t, SlotsIn(D), w.source), n)
            /\ Concrete(w) /\ w.source # NULL
            /\ \A r \in E["compiled"] : r.t = w.t /\ (r.art = "projection" \/ r.art = "attribute_columns")
            /\ \E r \in E["compiled"] : r.art = "projection"
        BY <3>1, <3>2, <3>3, <4>1
      <4> HIDE DEF w
      <4>3. TextsTidy(D, w) /\ \A r \in D["compiled"] : r.t = w.t /\ r = TextOnFile(r.t, r.art, r.text, r.by)
        BY <4>2, ReservedTidy
      <4> QED BY <4>3 DEF w
    <3> QED BY <1>1, <3>4
  <2> QED BY <2>1, <2>2
<1>16. VerdictsTidy(D, q1)
  <2> DEFINE old == SlotsIn(C)
  <2>1. \A s : s \notin SSlot => (s \in slots <=> s \in old)
    OBVIOUS
  <2> HIDE DEF old
  <2>2. \A z : (Stores(z) <=> Stores(q)) => Checked(z, slots) = Checked(q, old)
    BY <2>1, RegroupedClaims
  <2>3. Checked(q1, slots) = Checked(q, old)
    BY <1>1, <2>2
  <2> QED BY <1>4, <1>6, <1>7, <1>9, <2>3 DEF VerdictsTidy, Claimed, old
<1>14. CASE Stores(q)
  <2>1. Retabled(D, q1.t, parts, arb, n)
    BY <1>1, <1>2, <1>4, <1>14 DEF Retabled
  <2> DEFINE held == D["partitions"]
  <2>2. held = C["partitions"]
    BY <1>4, <1>6
  <2>3. OnePerRoot(held) /\ Fits(parts, held)
    BY <1>7, <1>14, <2>2 DEF RowsTidy, parts
  <2> HIDE DEF held
  <2>4. RowsTidy(D, q1)
    BY <1>1, <1>14, <2>1, <2>3, RetabledTidy DEF parts, held
  <2>5. RowsSound(D) /\ \A r \in D["rows"] : {"m", "v", "root", "part", "arb"} \subseteq DOMAIN r
    <3>1. Concrete(q)
      BY <1>14 DEF Stores, Concrete
    <3> DEFINE src == q.source
    <3>2. Retabled(D, q1.t, Contents(d, src), arb, n) /\ Vetted(d, SlotsIn(D), src)
      BY <1>9, <2>1, <3>1 DEF parts
    <3>3. Clean(Contents(d, src), OverrideSlots(SlotsIn(D)))
      BY <1>9, <1>14
    <3>4. (LevelBasis(SlotsIn(D)) <=> LevelBasis(SlotsIn(C))) /\ (HasKey(SlotsIn(D)) <=> HasKey(SlotsIn(C)))
      BY <1>9, <1>10
    <3> HIDE DEF src
    <3> QED BY <1>7, <3>2, <3>3, <3>4, RetabledSound
  <2>6. Shaped(D, q1)
    <3>1. \A r \in D["assertions"] : r.t = q.t
      BY <1>4, <1>6, <1>7 DEF Shaped, TreeKept
    <3>2. \A r \in D["partitions"] : r.t = q.t /\ OnFile(r)
      BY <1>4, <1>6, <1>7 DEF Shaped, TreeKept
    <3> QED BY <1>1, <1>9, <1>11, <1>13, <2>5, <3>1, <3>2 DEF Shaped, TreeKept
  <2> QED BY <1>4, <1>5, <1>12, <1>13, <1>16, <2>4, <2>5, <2>6 DEF Tidy, TidyTree
<1>15. CASE ~Stores(q)
  <2>1. D["tables"] = {} /\ D["rows"] = {} /\ D["partitions"] = {}
    BY <1>2, <1>4, <1>6, <1>7, <1>15 DEF RowsTidy
  <2>2. RowsTidy(D, q1)
    BY <1>1, <1>15, <2>1 DEF RowsTidy
  <2>3. RowsSound(D)
    <3>1. Damage = {} /\ KeysOnParents /\ HasKey(SlotsIn(D)) => ~LevelBasis(SlotsIn(D))
      BY <1>7, <1>9, <1>10 DEF RowsSound
    <3> QED BY <2>1, <3>1 DEF RowsSound, Clean
  <2>4. Shaped(D, q1)
    <3>1. \A r \in D["assertions"] : r.t = q1.t
      BY <1>1, <1>4, <1>6, <1>7 DEF Shaped, TreeKept
    <3>2. \A rel \in TreeKept : \A r \in D[rel] : r.t = q1.t
      BY <1>1, <1>9, <1>11, <1>13, <2>1, <3>1 DEF TreeKept
    <3>3. /\ \A r \in D["compiled"] : r = TextOnFile(r.t, r.art, r.text, r.by)
          /\ \A r \in D["partitions"] : OnFile(r)
          /\ \A r \in D["rows"] : {"m", "v", "root", "part", "arb"} \subseteq DOMAIN r
      BY <1>13, <2>1
    <3> QED BY <3>2, <3>3 DEF Shaped
  <2> QED BY <1>4, <1>5, <1>12, <1>13, <1>16, <2>2, <2>3, <2>4 DEF Tidy, TidyTree
<1> QED BY <1>14, <1>15

\* The list of an alter, in three parts.
LEMMA AlterIs ==
  ASSUME NEW d, NEW t, NEW sem, ~CompileAlter(d, t, sem).refused
  PROVE  LET row      == TreeRow(d, t)
             slots    == AlterSlots(d, t, sem)
             preds    == AlterPreds(sem)
             concrete == ~row.abstract
             stored   == concrete /\ row.storage = "materialized"
             src      == row.source
         IN  /\ sem # NULL /\ Registered(d, t)
             /\ CompileAlter(d, t, sem).list =
                  AlterChecks(t, slots, src, concrete, stored, row.ordersrc)
                  \o AlterGroup(t, slots, sem.slots \cup {"ATTR"}, preds, Declares(sem.slots, preds))
                  \o Rebuilds(t, src, row.ordersrc, Projection(slots, src), ServedBy(row.storage, t, slots, src),
                              concrete, stored)
<1> DEFINE row == TreeRow(d, t)
<1> DEFINE slots == AlterSlots(d, t, sem)
<1> DEFINE sslots == sem.slots \cup {"ATTR"}
<1> DEFINE preds == AlterPreds(sem)
<1> DEFINE concrete == ~row.abstract
<1> DEFINE stored == concrete /\ row.storage = "materialized"
<1> DEFINE src == row.source
<1> DEFINE k == AlterChecks(t, slots, src, concrete, stored, row.ordersrc)
<1> DEFINE a == AlterClears(t)
<1> DEFINE b == InsertInto("slots", SlotRows(t, slots, sslots))
<1> DEFINE some == preds # {}
<1> DEFINE c == When(some, InsertInto("predicates", PredRows(t, preds)))
<1> DEFINE e == SetSemantic(t, Declares(sem.slots, preds))
<1> DEFINE rest == Rebuilds(t, src, row.ordersrc, Projection(slots, src), ServedBy(row.storage, t, slots, src),
                            concrete, stored)
<1>1. sem # NULL /\ Registered(d, t)
  BY DEF CompileAlter, Refused
<1>2. rest = AlterRebuilds(t, row, slots)
  BY DEF Rebuilds, AlterRebuilds, AlterServes, Reprojects, Unlists
<1>3. k = FrozenGuard(row.ordersrc)
        \o When(concrete, SourceChecks(slots, src, "UNIQUE KEY" \in slots)
                          \o When(~LevelBasis(slots), CheckSource({"reach"}, src)))
        \o When(stored, TreeSource("foreign_check", t, src) \o TreeSource("drift_check", t, src))
        \o When(concrete, CheckSource({"shadow"}, src) \o CheckSource(P13Arms, src))
        \o When(stored /\ OverrideSlots(slots) # {}, CheckSource(OverrideSlots(slots), src))
  BY DEF AlterChecks, AlterReads, AlterFits, AlterVets
<1>4. CompileAlter(d, t, sem).list = k \o a \o b \o c \o e \o rest
  BY <1>1, <1>2, <1>3, Zenon DEF CompileAlter, Compiled, Refused, AlterSlots, AlterPreds, AlterSemantic
<1>5. IsList(k) /\ IsList(b) /\ IsList(c) /\ IsList(e)
  BY StatementLists, WhenList, AlterChecksList
<1>6. IsList(a)
  BY StatementLists, ListsJoin DEF AlterClears
<1>7. AlterGroup(t, slots, sslots, preds, Declares(sem.slots, preds)) = a \o b \o c \o e
  BY DEF AlterGroup
<1> HIDE DEF k, a, b, c, e, rest
<1>8. k \o a \o b \o c \o e = k \o (a \o b \o c \o e)
  <2> DEFINE ab == a \o b
  <2> DEFINE abc == ab \o c
  <2>1. k \o a \o b = k \o ab /\ IsList(ab)
    BY <1>5, <1>6, ListsAssociate, ListsJoin, SMTT(30)
  <2> HIDE DEF ab
  <2>2. k \o ab \o c = k \o abc /\ IsList(abc)
    BY <1>5, <2>1, ListsAssociate, ListsJoin, SMTT(30)
  <2> HIDE DEF abc
  <2>3. k \o abc \o e = k \o (abc \o e)
    BY <1>5, <2>2, ListsAssociate, SMTT(30)
  <2> QED BY <2>1, <2>2, <2>3 DEF abc, ab
<1> QED BY <1>1, <1>4, <1>7, <1>8 DEF k, rest

\* Alter keeps what is on file of the stored partitions.
Altering(C, D) == D["partitions"] = C["partitions"]

\* It leaves a tidy cell.
LEMMA AlterTidies ==
  ASSUME NEW d0, NEW t, Tidy(CellOf(d0, Fold[t])), NEW sem, sem = NULL \/ sem.slots \subseteq SSlot,
         ~CompileAlter(d0, t, sem).refused, NEW n, NEW P, Lone => \A p, r \in P : p = r, NEW x, NEW y,
         DOMAIN x.d = Relation, SourcesTidy(x.d), CellOf(x.d, Fold[t]) = CellOf(d0, Fold[t]),
         Runs(CompileAlter(d0, t, sem).list, n, P, x, y)
  PROVE  /\ Within(x.d, y.d, Fold[t]) /\ Tidy(CellOf(y.d, Fold[t]))
         /\ Altering(CellOf(x.d, Fold[t]), CellOf(y.d, Fold[t]))
<1> DEFINE m == Fold[t]
<1> DEFINE q == TreeRow(d0, t)
<1> DEFINE slots == AlterSlots(d0, t, sem)
<1> DEFINE sslots == sem.slots \cup {"ATTR"}
<1> DEFINE preds == AlterPreds(sem)
<1> DEFINE concrete == ~q.abstract
<1> DEFINE stored == concrete /\ q.storage = "materialized"
<1> DEFINE src == q.source
<1> DEFINE sem1 == Declares(sem.slots, preds)
<1> DEFINE text == Projection(slots, src)
<1> DEFINE served == ServedBy(q.storage, t, slots, src)
<1> DEFINE os == q.ordersrc
<1> DEFINE k == AlterChecks(t, slots, src, concrete, stored, os)
<1> DEFINE g == AlterGroup(t, slots, sslots, preds, sem1)
<1> DEFINE r == Rebuilds(t, src, os, text, served, concrete, stored)
<1>1. sem # NULL /\ Registered(d0, t) /\ Runs(k \o g \o r, n, P, x, y)
  BY AlterIs
<1>2. IsList(k) /\ IsList(g) /\ IsList(r)
  <2>1. IsList(k)
    BY AlterChecksList
  <2>2. IsList(g)
    BY StatementLists, WhenList, ListsJoin DEF AlterGroup, AlterClears
  <2>3. IsList(AlterServes(t, text, served))
    BY StatementLists, ListsJoin DEF AlterServes, Reprojects, Unlists
  <2>4. IsList(r)
    BY <2>3, StatementLists, WhenList, ListsJoin DEF Rebuilds
  <2> QED BY <2>1, <2>2, <2>4
<1> DEFINE C == CellOf(x.d, m)
<1>3. /\ q.t = t /\ C["trees"] = {q} /\ TidyTree(C, q) /\ SlotsOf(d0, t) = SlotsIn(C)
  BY <1>1, TidyReads
<1>4. (Concrete(q) <=> concrete) /\ (Stores(q) <=> stored) /\ (Concrete(q) => src # NULL)
  BY <1>3 DEF Concrete, Stores, TidyTree, TextsTidy
<1>5. slots = (SlotsIn(C) \ SSlot) \cup sslots /\ sslots \subseteq SSlot
  BY <1>1, <1>3 DEF AlterSlots, SSlot
<1>6. sem1 = Declares(slots, preds)
  <2>1. \A s : s \in slots \cap (SSlot \ {"ATTR"}) <=> s \in sem.slots \cap (SSlot \ {"ATTR"})
    BY <1>5
  <2> QED BY <2>1 DEF Declares
<1>7. OnePerRoot(Contents(x.d, src))
  BY DEF SourcesTidy
<1>31. PICK z2 : Runs(k \o g, n, P, x, z2) /\ Runs(r, n, P, z2, y)
  <2> HIDE DEF k, g, r
  <2>1. IsList(k \o g)
    BY <1>2, ListsJoin
  <2> QED BY <1>1, <1>2, <2>1, RunsBoth
<1>32. PICK z1 : Runs(k, n, P, x, z1) /\ Runs(g, n, P, z1, z2)
  <2> HIDE DEF k, g, r
  <2> QED BY <1>2, <1>31, RunsBoth
<1> HIDE DEF slots, sslots, preds, concrete, stored, sem1, text, served, src, os, q
<1>8. /\ z1.d = x.d
      /\ os = "frozen" => \E p \in P : p
      /\ concrete => Vetted(x.d, slots, src)
      /\ stored => ~Drifted(x.d, t, src) /\ Clean(Contents(x.d, src), OverrideSlots(slots))
  <2>1. (concrete => src # NULL) /\ (stored => concrete)
    BY <1>4 DEF stored
  <2> QED BY <1>32, <2>1, RunsAlterChecks
<1> DEFINE G == CellOf(z2.d, m)
<1>9. Within(x.d, z2.d, m) /\ Regrouped(C, G, t, slots, sslots, preds, sem1, n)
  <2>1. Within(z1.d, z2.d, m) /\ Regrouped(CellOf(z1.d, m), CellOf(z2.d, m), t, slots, sslots, preds, sem1, n)
    BY <1>8, <1>32, RunsAlterGroup
  <2> QED BY <1>8, <2>1
<1>10. DOMAIN z2.d = Relation /\ Contents(z2.d, src) = Contents(x.d, src)
  BY <1>9, ContentsStay DEF Within
<1>11. \A w \in CellOf(z2.d, Fold[t])["compiled"] : w = TextOnFile(w.t, w.art, w.text, w.by)
  <2>1. G["compiled"] = C["compiled"]
    BY <1>9, RelationsAreCells DEF Regrouped
  <2>2. \A w \in C["compiled"] : w = TextOnFile(w.t, w.art, w.text, w.by)
    BY <1>3 DEF TidyTree, Shaped
  <2> QED BY <2>1, <2>2
<1> DEFINE D == CellOf(y.d, m)
<1>12. /\ Within(z2.d, y.d, m)
       /\ \E arb : /\ stored => \E p \in P : arb = Loose(p, os)
                   /\ Rebuilt(G, D, t, Contents(z2.d, src), text, served, concrete, stored, arb, n)
  BY <1>10, <1>11, <1>31, RunsRebuilds
<1>13. PICK arb : /\ Lone => ~arb
                  /\ Rebuilt(G, D, t, Contents(x.d, src), text, served, concrete, stored, arb, n)
  <2>1. PICK arb : /\ stored => \E p \in P : arb = Loose(p, os)
                   /\ Rebuilt(G, D, t, Contents(x.d, src), text, served, concrete, stored, arb, n)
    BY <1>10, <1>12
  <2>2. CASE stored
    <3>1. Lone => ~arb
      BY <1>8, <2>1, <2>2 DEF Loose
    <3> QED BY <2>1, <3>1
  <2>3. CASE ~stored
    <3>1. Rebuilt(G, D, t, Contents(x.d, src), text, served, concrete, stored, FALSE, n)
      BY <2>1, <2>3 DEF Rebuilt
    <3> QED BY <3>1
  <2> QED BY <2>2, <2>3
<1>14. stored => Fits(Contents(x.d, src), C["partitions"])
  <2>1. Select(x.d, "partitions", [t |-> t]) = C["partitions"]
    BY <1>3, TidyParts
  <2> QED BY <1>8, <2>1 DEF Drifted, Fits
<1>15. Tidy(D)
  <2>1. /\ text = Projection(slots, q.source) /\ served = ServedBy(q.storage, q.t, slots, q.source)
        /\ src = q.source
    BY <1>3 DEF text, served, src
  <2> DEFINE co == Concrete(q)
  <2> DEFINE so == Stores(q)
  <2> HIDE DEF C, G, D
  <2>2. /\ Rebuilt(G, D, q.t, Contents(x.d, q.source), Projection(slots, q.source),
                   ServedBy(q.storage, q.t, slots, q.source), co, so, arb, n)
        /\ Regrouped(C, G, q.t, slots, sslots, preds, sem1, n)
    <3> HIDE DEF co, so
    <3>1. Rebuilt(G, D, t, Contents(x.d, src), text, served, co, so, arb, n)
      BY <1>4, <1>13 DEF Rebuilt, co, so
    <3> QED BY <1>3, <1>9, <2>1, <3>1
  <2>3. /\ Concrete(q) => Vetted(x.d, slots, q.source)
        /\ Stores(q) => /\ Fits(Contents(x.d, q.source), C["partitions"])
                        /\ Clean(Contents(x.d, q.source), OverrideSlots(slots))
        /\ OnePerRoot(Contents(x.d, q.source))
    BY <1>4, <1>7, <1>8, <1>14, <2>1
  <2> QED BY <1>3, <1>5, <1>6, <1>13, <2>2, <2>3, AlteredTidy
<1>16. Within(x.d, y.d, m)
  BY <1>9, <1>12, WithinBoth
<1>17. D["partitions"] = C["partitions"]
  <2>1. "partitions" \in Cells \ {"slots", "predicates", "trees", "tables", "rows", "macros", "compiled"}
    BY RelationsAreCells
  <2> HIDE DEF C, G, D
  <2>2. G["partitions"] = C["partitions"]
    BY <1>9, <2>1 DEF Regrouped
  <2>3. PICK E : /\ \A rel \in Cells \ {"tables", "rows"} : E[rel] = G[rel]
                 /\ concrete => Reserved(E, D, t, text, served, n)
                 /\ ~concrete => D = E
    BY <1>13 DEF Rebuilt
  <2>4. D["partitions"] = E["partitions"]
    BY <2>1, <2>3 DEF Reserved
  <2> QED BY <2>1, <2>2, <2>3, <2>4
<1> QED BY <1>15, <1>16, <1>17 DEF Altering

-----------------------------------------------------------------------------
(* Any verb's list.                                                        *)

\* What is compiled for a call is a list.
LEMMA CompiledCreateList ==
  ASSUME NEW d, NEW p, NEW t, NEW spec, ~CompileCreate(d, p, t, spec).refused
  PROVE  IsList(CompileCreate(d, p, t, spec).list)
BY CreateIs, CreateLists

LEMMA CompiledDropList ==
  ASSUME NEW d, NEW t, ~CompileDrop(d, t).refused
  PROVE  IsList(CompileDrop(d, t).list)
<1> DEFINE l == DeleteFromEach(DroppedFrom, [t |-> t])
<1> DEFINE a == l \o Tree("drop_macro", t)
<1>1. IsList(l)
  BY DropLists
<1> HIDE DEF l
<1>2. IsList(a)
  BY <1>1, StatementLists, ListsJoin
<1> HIDE DEF a
<1>3. IsList(a \o Tree("drop_table", t))
  BY <1>2, StatementLists, ListsJoin
<1>4. CompileDrop(d, t).list = a \o Tree("drop_table", t)
  BY DEF CompileDrop, Refused, Compiled, a, l
<1> QED BY <1>3, <1>4

LEMMA CompiledAlterList ==
  ASSUME NEW d, NEW t, NEW sem, ~CompileAlter(d, t, sem).refused
  PROVE  IsList(CompileAlter(d, t, sem).list)
<1> DEFINE row == TreeRow(d, t)
<1> DEFINE slots == AlterSlots(d, t, sem)
<1> DEFINE sslots == sem.slots \cup {"ATTR"}
<1> DEFINE preds == AlterPreds(sem)
<1> DEFINE concrete == ~row.abstract
<1> DEFINE stored == concrete /\ row.storage = "materialized"
<1> DEFINE src == row.source
<1> DEFINE k == AlterChecks(t, slots, src, concrete, stored, row.ordersrc)
<1> DEFINE g == AlterGroup(t, slots, sslots, preds, Declares(sem.slots, preds))
<1> DEFINE served == ServedBy(row.storage, t, slots, src)
<1> DEFINE r == Rebuilds(t, src, row.ordersrc, Projection(slots, src), served, concrete, stored)
<1>1. CompileAlter(d, t, sem).list = k \o g \o r
  BY AlterIs
<1>2. IsList(k)
  BY AlterChecksList
<1>3. IsList(g)
  <2>1. IsList(AlterClears(t))
    BY StatementLists, ListsJoin DEF AlterClears
  <2>2. IsList(When(preds # {}, InsertInto("predicates", PredRows(t, preds))))
    BY StatementLists, WhenList
  <2> QED BY <2>1, <2>2, StatementLists, ListsJoin DEF AlterGroup
<1>4. IsList(r)
  <2> DEFINE text == Projection(slots, src)
  <2> DEFINE v == AlterServes(t, text, served)
  <2>1. IsList(v)
    BY StatementLists, ListsJoin DEF AlterServes, Reprojects, Unlists
  <2>2. r = When(stored, Project("replace_table", t, src, row.ordersrc)) \o When(concrete, v)
    BY DEF Rebuilds
  <2> HIDE DEF v
  <2>3. IsList(When(stored, Project("replace_table", t, src, row.ordersrc))) /\ IsList(When(concrete, v))
    BY <2>1, StatementLists, WhenList
  <2> HIDE DEF r
  <2> QED BY <2>2, <2>3, ListsJoin
<1> HIDE DEF k, g, r
<1> QED BY <1>1, <1>2, <1>3, <1>4, ListsJoin

LEMMA CompiledInsertList ==
  ASSUME NEW d, NEW t, NEW src, ~CompileInsert(d, t, src).refused
  PROVE  IsList(CompileInsert(d, t, src).list)
<1> DEFINE slots == SlotsOf(d, t)
<1> DEFINE a == SourceChecks(slots, src, ReachKey(slots))
<1> DEFINE b == When(ReachKey(slots), CheckNew({"reach"}))
<1> DEFINE c == NewPartitionChecks(slots)
<1> DEFINE o == TreeRow(d, t).ordersrc
<1> DEFINE f == FrozenGuard(o)
<1> DEFINE g == Project("stage", t, src, o)
<1> DEFINE h == CheckNew({"shadow"})
<1> DEFINE e1 == Tree("present_check", t)
<1> DEFINE e2 == Tree("insert_rows", t)
<1> DEFINE e3 == Tree("insert_partitions", t)
<1> DEFINE e4 == Tree("drop_staged", t)
<1>1. CompileInsert(d, t, src).list = f \o a \o g \o b \o h \o e1 \o c \o e2 \o e3 \o e4
  BY DEF CompileInsert, Refused, Compiled
<1>2. IsList(a) /\ IsList(b) /\ IsList(c)
  BY SourceChecksList, StagingList, StatementLists, WhenList
<1>3. /\ IsList(f) /\ IsList(g) /\ IsList(h)
      /\ IsList(e1) /\ IsList(e2) /\ IsList(e3) /\ IsList(e4)
  BY StatementLists
<1> HIDE DEF a, b, c, f, g, h, e1, e2, e3, e4
<1> QED BY <1>1, <1>2, <1>3, ListsJoin

LEMMA CompiledReplaceList ==
  ASSUME NEW d, NEW t, NEW src, ~CompileReplace(d, t, src).refused
  PROVE  IsList(CompileReplace(d, t, src).list)
<1> DEFINE slots == SlotsOf(d, t)
<1> DEFINE a == SourceChecks(slots, src, ReachKey(slots))
<1> DEFINE b == When(ReachKey(slots), CheckNew({"reach"}))
<1> DEFINE c == NewPartitionChecks(slots)
<1> DEFINE o == TreeRow(d, t).ordersrc
<1> DEFINE f == FrozenGuard(o)
<1> DEFINE g == Project("stage", t, src, o)
<1> DEFINE h == CheckNew({"shadow"})
<1> DEFINE e1 == Tree("stage_epochs", t)
<1> DEFINE e2 == Tree("delete_rows", t)
<1> DEFINE e3 == Tree("delete_partitions", t)
<1> DEFINE e4 == Tree("insert_rows", t)
<1> DEFINE e5 == Tree("insert_partitions", t)
<1> DEFINE e6 == Tree("drop_staged", t)
<1>1. CompileReplace(d, t, src).list = f \o a \o g \o b \o h \o c \o e1 \o e2 \o e3 \o e4 \o e5 \o e6
  BY DEF CompileReplace, Refused, Compiled
<1>2. IsList(a) /\ IsList(b) /\ IsList(c)
  BY SourceChecksList, StagingList, StatementLists, WhenList
<1>3. /\ IsList(f) /\ IsList(g) /\ IsList(h) /\ IsList(e1) /\ IsList(e2)
      /\ IsList(e3) /\ IsList(e4) /\ IsList(e5) /\ IsList(e6)
  BY StatementLists
<1> HIDE DEF a, b, c, f, g, h, e1, e2, e3, e4, e5, e6
<1> QED BY <1>1, <1>2, <1>3, ListsJoin

LEMMA CompiledDeleteList ==
  ASSUME NEW d, NEW t, NEW keys, ~CompileDelete(d, t, keys).refused
  PROVE  IsList(CompileDelete(d, t, keys).list)
<1> DEFINE a == StageGone(t, keys)
<1> DEFINE g1 == Tree("delete_rows", t)
<1> DEFINE g2 == Tree("delete_partitions", t)
<1> DEFINE e == Tree("drop_staged", t)
<1>1. CompileDelete(d, t, keys).list = a \o g1 \o g2 \o e
  BY DEF CompileDelete, Refused, Compiled, StageGone
<1>2. IsList(a) /\ IsList(g1) /\ IsList(g2) /\ IsList(e)
  BY StatementLists, OneList DEF StageGone
<1> HIDE DEF a, g1, g2, e
<1> QED BY <1>1, <1>2, ListsJoin

LEMMA CompiledCheckList ==
  ASSUME NEW d, NEW t, ~CompileCheck(d, t).refused
  PROVE  IsList(CompileCheck(d, t).list)
<1> DEFINE slots == SlotsOf(d, t)
<1> DEFINE row == TreeRow(d, t)
<1> DEFINE stored == row.storage = "materialized"
<1> DEFINE rel == [kind |-> IF stored THEN "table" ELSE "proj", m |-> Fold[t]]
<1> DEFINE A(art, defect, r) == Assertion(t, art, defect, r)
<1> DEFINE O(slot) == When(slot \in OverrideSlots(slots), A(OArtifact[slot], slot, rel))
<1> DEFINE a == When(~stored /\ "ORDER" \in slots, A("assert_order", "order", [kind |-> "sql", src |-> row.source]))
<1> DEFINE b == A("assert_p13", "p13", rel)
<1> DEFINE c == When(stored, Refreshes(t, rel))
<1>1. CompileCheck(d, t).list = a \o b \o c \o O("SIZE") \o O("PARENT") \o O("CHILDREN") \o O("NEXT")
  BY DEF CompileCheck, Refused, Compiled, Refreshes
<1>2. \A art, defect, r : IsList(A(art, defect, r))
  BY StatementLists, OneList, ListsJoin DEF Assertion
<1>3. IsList(Refreshes(t, rel))
  BY OneList DEF Refreshes
<1> HIDE DEF A
<1>4. IsList(a) /\ IsList(b) /\ IsList(c) /\ IsList(O("SIZE")) /\ IsList(O("PARENT")) /\ IsList(O("CHILDREN"))
      /\ IsList(O("NEXT"))
  BY <1>2, <1>3, WhenList
<1> HIDE DEF a, b, c, O
<1> QED BY <1>1, <1>4, ListsJoin

LEMMA CompiledList ==
  ASSUME NEW d, NEW p, NEW s \in Session, NEW c \in Calls[s], ~Compile(d, p, c).refused
  PROVE  IsList(Compile(d, p, c).list)
<1>1. c.verb \in {"tree_ddl_create", "tree_ddl_drop", "tree_ddl_alter", "tree_insert", "tree_replace", "tree_delete",
                  "tree_check"}
  BY CallsAssumption
<1>2. CASE c.verb = "tree_ddl_create"
  BY <1>2, CompiledCreateList DEF Compile
<1>3. CASE c.verb = "tree_ddl_drop"
  BY <1>3, CompiledDropList DEF Compile
<1>4. CASE c.verb = "tree_ddl_alter"
  BY <1>4, CompiledAlterList DEF Compile
<1>5. CASE c.verb = "tree_insert"
  BY <1>5, CompiledInsertList DEF Compile
<1>6. CASE c.verb = "tree_replace"
  BY <1>6, CompiledReplaceList DEF Compile
<1>7. CASE c.verb = "tree_delete"
  BY <1>7, CompiledDeleteList DEF Compile
<1>8. CASE c.verb = "tree_check"
  BY <1>8, CompiledCheckList DEF Compile
<1> QED BY <1>1, <1>2, <1>3, <1>4, <1>5, <1>6, <1>7, <1>8

\* What a call makes of the cell of its tree, from d to e in the transaction n.
Works(d, e, c, n) ==
  LET C == CellOf(d, Fold[c.t])  D == CellOf(e, Fold[c.t]) IN
  /\ c.verb = "tree_ddl_create" => C = NoCell
  /\ c.verb = "tree_ddl_drop"   => D = NoCell
  /\ c.verb = "tree_ddl_alter"  => Altering(C, D)
  /\ c.verb = "tree_insert"     => Inserting(C, D, c.t, Contents(d, c.src), n)
  /\ c.verb = "tree_replace"    => Replacing(C, D, c.t, Contents(d, c.src), n)
  /\ c.verb = "tree_delete"     => Deleting(C, D, c.roots)
  /\ c.verb = "tree_check"      => Checking(d, e, c.t)

\* Any call's list, run from a database whose cell is the one it was compiled
\* from, changes that cell alone and leaves it tidy.
LEMMA CompiledTidies ==
  ASSUME NEW d0, \A m : Tidy(CellOf(d0, m)), NEW p0, NEW s \in Session, NEW c \in Calls[s],
         ~Compile(d0, p0, c).refused, NEW n, NEW P, Lone => \A p \in P : p = p0, NEW x, NEW y,
         DOMAIN x.d = Relation, x.tmp = NoTemp, SourcesTidy(x.d), CellOf(x.d, Fold[c.t]) = CellOf(d0, Fold[c.t]),
         Runs(Compile(d0, p0, c).list, n, P, x, y)
  PROVE  Within(x.d, y.d, Fold[c.t]) /\ Tidy(CellOf(y.d, Fold[c.t])) /\ Works(x.d, y.d, c, n)
<1>1. c.verb \in {"tree_ddl_create", "tree_ddl_drop", "tree_ddl_alter", "tree_insert", "tree_replace", "tree_delete",
                  "tree_check"}
  BY CallsAssumption
<1>2. Tidy(CellOf(d0, Fold[c.t])) /\ (Lone => \A p, r \in P : p = r)
  OBVIOUS
<1>3. CASE c.verb = "tree_ddl_create"
  <2> DEFINE spec == c.spec
  <2> DEFINE t == c.t
  <2>1. Compile(d0, p0, c) = CompileCreate(d0, p0, t, spec)
    BY <1>3 DEF Compile
  <2>2. spec.slots \subseteq Slot
    BY <1>3, CallsAssumption
  <2>3. KeysOnParents => spec.like = NULL /\ (HasKey(spec.slots) => ~LevelBasis(spec.slots))
    BY <1>3 DEF KeysOnParents
  <2> HIDE DEF spec, t
  <2>4. ~CompileCreate(d0, p0, t, spec).refused /\ Runs(CompileCreate(d0, p0, t, spec).list, n, P, x, y)
    BY <2>1
  <2>5. CellOf(x.d, Fold[t]) = CellOf(d0, Fold[t])
    BY DEF t
  <2>6. Within(x.d, y.d, Fold[t]) /\ Tidy(CellOf(y.d, Fold[t])) /\ CellOf(x.d, Fold[t]) = NoCell
    BY <2>2, <2>3, <2>4, <2>5, CreateTidies
  <2> QED BY <1>3, <2>6 DEF t, Works
<1>4. CASE c.verb = "tree_ddl_drop"
  <2>1. /\ Within(x.d, y.d, Fold[c.t]) /\ Tidy(CellOf(y.d, Fold[c.t]))
        /\ CellOf(y.d, Fold[c.t]) = NoCell
    BY <1>4, DropTidies DEF Compile
  <2> QED BY <1>4, <2>1 DEF Works
<1>5. CASE c.verb = "tree_ddl_alter"
  <2>1. c.sem = NULL \/ c.sem.slots \subseteq SSlot
    BY <1>5, CallsAssumption
  <2>2. Compile(d0, p0, c) = CompileAlter(d0, c.t, c.sem)
    BY <1>5 DEF Compile
  <2> DEFINE t == c.t
  <2> DEFINE sem == c.sem
  <2>3. /\ ~CompileAlter(d0, t, sem).refused /\ Runs(CompileAlter(d0, t, sem).list, n, P, x, y)
        /\ (sem = NULL \/ sem.slots \subseteq SSlot) /\ Tidy(CellOf(d0, Fold[t]))
        /\ CellOf(x.d, Fold[t]) = CellOf(d0, Fold[t])
    BY <1>2, <2>1, <2>2
  <2> HIDE DEF t, sem
  <2>4. /\ Within(x.d, y.d, Fold[t]) /\ Tidy(CellOf(y.d, Fold[t]))
        /\ Altering(CellOf(x.d, Fold[t]), CellOf(y.d, Fold[t]))
    BY <1>2, <2>3, AlterTidies
  <2> QED BY <1>5, <2>4 DEF Works, t
<1>6. CASE c.verb = "tree_insert"
  <2>1. c.src # NULL /\ OnePerRoot(Contents(x.d, c.src))
    BY <1>6, CallsAssumption DEF SourcesTidy
  <2>2. Compile(d0, p0, c) = CompileInsert(d0, c.t, c.src)
    BY <1>6 DEF Compile
  <2>3. /\ Within(x.d, y.d, Fold[c.t]) /\ Tidy(CellOf(y.d, Fold[c.t]))
        /\ Inserting(CellOf(x.d, Fold[c.t]), CellOf(y.d, Fold[c.t]), c.t, Contents(x.d, c.src), n)
    BY <1>2, <2>1, <2>2, InsertTidies
  <2> QED BY <1>6, <2>3 DEF Works
<1>7. CASE c.verb = "tree_replace"
  <2>1. c.src # NULL /\ OnePerRoot(Contents(x.d, c.src))
    BY <1>7, CallsAssumption DEF SourcesTidy
  <2>2. Compile(d0, p0, c) = CompileReplace(d0, c.t, c.src)
    BY <1>7 DEF Compile
  <2>3. /\ Within(x.d, y.d, Fold[c.t]) /\ Tidy(CellOf(y.d, Fold[c.t]))
        /\ Replacing(CellOf(x.d, Fold[c.t]), CellOf(y.d, Fold[c.t]), c.t, Contents(x.d, c.src), n)
    BY <1>2, <2>1, <2>2, ReplaceTidies
  <2> QED BY <1>7, <2>3 DEF Works
<1>8. CASE c.verb = "tree_delete"
  <2>1. /\ Within(x.d, y.d, Fold[c.t]) /\ Tidy(CellOf(y.d, Fold[c.t]))
        /\ Deleting(CellOf(x.d, Fold[c.t]), CellOf(y.d, Fold[c.t]), c.roots)
    BY <1>2, <1>8, DeleteTidies DEF Compile
  <2> QED BY <1>8, <2>1 DEF Works
<1>9. CASE c.verb = "tree_check"
  <2>1. /\ Within(x.d, y.d, Fold[c.t]) /\ Tidy(CellOf(y.d, Fold[c.t]))
        /\ Checking(x.d, y.d, c.t)
    BY <1>2, <1>9, CheckTidies DEF Compile
  <2> QED BY <1>9, <2>1 DEF Works
<1> QED BY <1>1, <1>3, <1>4, <1>5, <1>6, <1>7, <1>8, <1>9

-----------------------------------------------------------------------------
(* What a step makes of the committed database.                            *)

\* COMMIT of a transaction that changed one cell, which nobody else did, is that
\* change.
LEMMA MergeWithin ==
  ASSUME NEW d, NEW b, NEW v, NEW m, Within(b, v, m), CellOf(b, m) = CellOf(d, m)
  PROVE  Within(d, Merge(d, b, v), m) /\ CellOf(Merge(d, b, v), m) = CellOf(v, m)
<1> DEFINE e == Merge(d, b, v)
<1>1. DOMAIN e = Relation
  BY MergeDomain
<1>2. \A rel \in Relation : e[rel] = (d[rel] \ (b[rel] \ v[rel])) \cup (v[rel] \ b[rel])
  BY DEF Merge, Deleted, Inserted
<1> HIDE DEF e
<1>3. e["source"] = d["source"]
  BY <1>2 DEF Within, Relation
<1>4. ASSUME NEW rel \in Cells
      PROVE  /\ \A r : (r \in b[rel] <=> r \in v[rel]) \/ Owner(rel, r) = m
             /\ Cell(b, rel, m) = Cell(d, rel, m)
  <2>1. Cell(b, rel, m) = Cell(d, rel, m)
    BY CellIn
  <2>2. ASSUME NEW r, Owner(rel, r) # m PROVE r \in b[rel] <=> r \in v[rel]
    <3>1. Cell(v, rel, Owner(rel, r)) = Cell(b, rel, Owner(rel, r))
      BY <2>2 DEF Within
    <3> QED BY <3>1 DEF Cell
  <2> QED BY <2>1, <2>2
<1>5. ASSUME NEW rel \in Cells
      PROVE  /\ \A k : k # m => Cell(e, rel, k) = Cell(d, rel, k)
             /\ Cell(e, rel, m) = Cell(v, rel, m)
  <2>1. rel \in Relation
    BY DEF Cells
  <2>2. e[rel] = (d[rel] \ (b[rel] \ v[rel])) \cup (v[rel] \ b[rel])
    BY <1>2, <2>1
  <2>3. \A r : Owner(rel, r) = m => (r \in b[rel] <=> r \in d[rel])
    BY <1>4 DEF Cell
  <2>4. \A r : (r \in b[rel] <=> r \in v[rel]) \/ Owner(rel, r) = m
    BY <1>4
  <2>5. \A r : Owner(rel, r) # m => (r \in e[rel] <=> r \in d[rel])
    BY <2>2, <2>4
  <2>6. \A r : Owner(rel, r) = m => (r \in e[rel] <=> r \in v[rel])
    BY <2>2, <2>3
  <2> QED BY <2>5, <2>6 DEF Cell
<1>6. CellOf(e, m) = CellOf(v, m)
  BY <1>5 DEF CellOf
<1>7. Within(d, e, m)
  BY <1>1, <1>3, <1>5 DEF Within
<1> QED BY <1>6, <1>7 DEF e

\* The cells are those of the relations other than the sources.
LEMMA SameCells ==
  ASSUME NEW d, NEW e, \A rel \in Cells : e[rel] = d[rel]
  PROVE  \A m : CellOf(e, m) = CellOf(d, m)
BY DEF CellOf, Cell

LEMMA OtherCells ==
  ASSUME NEW d, NEW e, NEW m, Within(d, e, m), NEW k, k # m
  PROVE  CellOf(e, k) = CellOf(d, k)
BY DEF CellOf, Within

LEMMA SameSources ==
  ASSUME NEW d, NEW e, e["source"] = d["source"], SourcesTidy(d)
  PROVE  SourcesTidy(e)
BY DEF SourcesTidy, Contents, Select

\* A session's own DML keeps one partition per ROOT in a source.
Resourced(d, c) ==
  [d EXCEPT !["source"] =
     {r \in @ : r.src # c.src} \cup {[src |-> c.src, root |-> p.root, part |-> p.part] : p \in c.parts}]

LEMMA ChangedSourcesTidy ==
  ASSUME NEW d, DOMAIN d = Relation, SourcesTidy(d), NEW c \in Changes
  PROVE  SourcesTidy(Resourced(d, c)) /\ \A m : CellOf(Resourced(d, c), m) = CellOf(d, m)
<1> DEFINE e == Resourced(d, c)
<1> DEFINE new == {[src |-> c.src, root |-> p.root, part |-> p.part] : p \in c.parts}
<1> USE DEF Resourced
<1>1. e["source"] = {r \in d["source"] : r.src # c.src} \cup new
  BY DEF Relation
<1>2. \A src : Contents(d, src) = {[root |-> r.root, part |-> r.part] : r \in {x \in d["source"] : x.src = src}}
  BY DEF Contents, Select, Matches
<1>3. \A src : Contents(e, src) = {[root |-> r.root, part |-> r.part] : r \in {x \in e["source"] : x.src = src}}
  BY DEF Contents, Select, Matches
<1>4. ASSUME NEW src, src # c.src PROVE OnePerRoot(Contents(e, src))
  <2>1. {x \in e["source"] : x.src = src} = {x \in d["source"] : x.src = src}
    BY <1>1, <1>4
  <2> QED BY <1>2, <1>3, <2>1 DEF SourcesTidy
<1>5. OnePerRoot(Contents(e, c.src))
  <2>1. {x \in e["source"] : x.src = c.src} = new
    BY <1>1
  <2>2. Contents(e, c.src) = {[root |-> r.root, part |-> r.part] : r \in new}
    BY <1>3, <2>1
  <2>3. \A p \in Contents(e, c.src) : \E r \in c.parts : p = [root |-> r.root, part |-> r.part]
    <3> TAKE p \in Contents(e, c.src)
    <3>1. PICK y \in new : p = [root |-> y.root, part |-> y.part]
      BY <2>2
    <3>2. PICK r \in c.parts : y = [src |-> c.src, root |-> r.root, part |-> r.part]
      BY <3>1
    <3> QED BY <3>1, <3>2
  <2>4. \A p, q \in c.parts : p.root = q.root => p = q
    BY ContentsAssumption DEF OnePerRoot
  <2>5. ASSUME NEW p \in Contents(e, c.src), NEW q \in Contents(e, c.src), p.root = q.root PROVE p = q
    <3>1. PICK r \in c.parts : p = [root |-> r.root, part |-> r.part]
      BY <2>3
    <3>2. PICK y \in c.parts : q = [root |-> y.root, part |-> y.part]
      BY <2>3
    <3> QED BY <2>4, <2>5, <3>1, <3>2
  <2> QED BY <2>5 DEF OnePerRoot
<1>6. \A rel \in Cells : e[rel] = d[rel]
  BY DEF Cells, Relation
<1> QED BY <1>4, <1>5, <1>6, SameCells DEF SourcesTidy

\* A row a user rewrites by hand keeps its ROOT and its count, which is all that
\* is left to agree about.
LEMMA EditedTidy ==
  ASSUME NEW C, DOMAIN C = Cells, Tidy(C), NEW r \in C["rows"], NEW p \in Damage, p.n = r.part.n
  PROVE  Tidy(Put(C, "rows", (C["rows"] \ {r}) \cup {[r EXCEPT !.part = p]}))
<1> DEFINE x == [r EXCEPT !.part = p]
<1> DEFINE rows == (C["rows"] \ {r}) \cup {x}
<1> DEFINE D == Put(C, "rows", rows)
<1>1. PICK q : C["trees"] = {q} /\ TidyTree(C, q)
  BY RelationsAreCells DEF Tidy, NoCell
<1>2. /\ Shaped(C, q) /\ SlotsTidy(C, q) /\ TextsTidy(C, q) /\ RowsTidy(C, q) /\ RowsSound(C) /\ VerdictsTidy(C, q)
  BY <1>1 DEF TidyTree
<1>3. "rows" \in Cells /\ \A rel \in Cells : rel # "rows" => D[rel] = C[rel]
  BY RelationsAreCells DEF Put
<1>4. D["rows"] = rows /\ DOMAIN D = Cells
  BY <1>3 DEF Put
<1>5. {"m", "v", "root", "part", "arb"} \subseteq DOMAIN r
  BY <1>2 DEF Shaped
<1>6. DOMAIN x = DOMAIN r /\ x.m = r.m /\ x.v = r.v /\ x.root = r.root /\ x.arb = r.arb /\ x.part = p
  BY <1>5
<1> HIDE DEF D, x
<1>7. /\ D["trees"] = C["trees"] /\ D["slots"] = C["slots"] /\ D["predicates"] = C["predicates"]
      /\ D["compiled"] = C["compiled"] /\ D["partitions"] = C["partitions"] /\ D["assertions"] = C["assertions"]
      /\ D["tables"] = C["tables"] /\ D["macros"] = C["macros"]
  BY <1>3, RelationsAreCells
<1>8. Shaped(D, q)
  BY <1>2, <1>4, <1>6, <1>7 DEF Shaped, TreeKept
<1>9. SlotsTidy(D, q) /\ TextsTidy(D, q)
  BY <1>2, <1>7 DEF SlotsTidy, TextsTidy, SlotsIn, PredsIn
<1>10. RowsTidy(D, q)
  <2>1. Stores(q)
    BY <1>2 DEF RowsTidy
  <2>2. PICK b : C["tables"] = TablesOnFile(Fold[q.t], b) /\ \A y \in C["rows"] : y.v = b
    BY <1>2, <2>1 DEF RowsTidy
  <2>3. \A y \in rows : y.v = b
    BY <1>6, <2>2
  <2>4. OnePerRoot(C["rows"]) /\ OnePerRoot(C["partitions"])
    BY <1>2, <2>1 DEF RowsTidy
  <2>5. OnePerRoot(rows)
    BY <1>6, <2>4 DEF OnePerRoot
  <2>6. /\ \A y \in C["partitions"] : \E z \in C["rows"] : z.root = y.root /\ z.part.n = y.n
        /\ \A z \in C["rows"] : \E y \in C["partitions"] : z.root = y.root /\ z.part.n = y.n
    BY <1>2, <2>1 DEF RowsTidy
  <2>7. x.part.n = r.part.n
    BY <1>6
  <2>8. \A y \in C["partitions"] : \E z \in rows : z.root = y.root /\ z.part.n = y.n
    <3> TAKE y \in C["partitions"]
    <3>1. PICK z \in C["rows"] : z.root = y.root /\ z.part.n = y.n
      BY <2>6
    <3> QED BY <1>6, <2>7, <3>1
  <2>9. \A z \in rows : \E y \in C["partitions"] : z.root = y.root /\ z.part.n = y.n
    BY <1>6, <2>6, <2>7
  <2> QED BY <1>4, <1>7, <2>1, <2>2, <2>3, <2>4, <2>5, <2>8, <2>9 DEF RowsTidy
<1>11. RowsSound(D)
  <2>1. Damage # {}
    OBVIOUS
  <2>2. Lone => \A y \in rows : ~y.arb
    BY <1>2, <1>6 DEF RowsSound
  <2> QED BY <1>4, <2>1, <2>2 DEF RowsSound
<1>13. VerdictsTidy(D, q)
  BY <1>2, <1>7 DEF VerdictsTidy, SlotsIn
<1>12. Tidy(D)
  BY <1>1, <1>7, <1>8, <1>9, <1>10, <1>11, <1>13 DEF Tidy, TidyTree
<1> QED BY <1>12 DEF D, x

LEMMA EditedCells ==
  ASSUME NEW d, DOMAIN d = Relation, \A m : Tidy(CellOf(d, m)), NEW r \in d["rows"], NEW p \in Damage,
         p.n = r.part.n, NEW e, e = [d EXCEPT !["rows"] = (@ \ {r}) \cup {[r EXCEPT !.part = p]}]
  PROVE  \A m : Tidy(CellOf(e, m))
<1> DEFINE x == [r EXCEPT !.part = p]
<1> DEFINE C == CellOf(d, r.m)
<1>1. e["rows"] = (d["rows"] \ {r}) \cup {x} /\ \A rel \in Cells \ {"rows"} : e[rel] = d[rel]
  BY DEF Cells, Relation
<1>2. DOMAIN C = Cells /\ r \in C["rows"]
  BY CellIn, RelationsAreCells DEF Cell, Owner
<1>3. "m" \in DOMAIN r
  <2>1. PICK q : TidyTree(C, q)
    BY <1>2, RelationsAreCells DEF Tidy, NoCell
  <2> QED BY <1>2, <2>1 DEF TidyTree, Shaped
<1>4. x.m = r.m
  BY <1>3
<1> HIDE DEF x
<1>5. ASSUME NEW m, m # r.m PROVE CellOf(e, m) = CellOf(d, m)
  <2>1. Cell(e, "rows", m) = Cell(d, "rows", m)
    BY <1>1, <1>4, <1>5 DEF Cell, Owner
  <2> QED BY <1>1, <2>1 DEF CellOf, Cell
<1>6. CellOf(e, r.m) = Put(C, "rows", (C["rows"] \ {r}) \cup {x})
  <2>1. Cell(e, "rows", r.m) = (Cell(d, "rows", r.m) \ {r}) \cup {x}
    BY <1>1, <1>4 DEF Cell, Owner
  <2>2. C["rows"] = Cell(d, "rows", r.m)
    BY CellIn, RelationsAreCells
  <2>3. \A rel \in Cells \ {"rows"} : Cell(e, rel, r.m) = Cell(d, rel, r.m)
    BY <1>1 DEF Cell
  <2> QED BY <2>1, <2>2, <2>3, RelationsAreCells DEF CellOf, Put
<1>7. Tidy(Put(C, "rows", (C["rows"] \ {r}) \cup {[r EXCEPT !.part = p]}))
  BY <1>2, EditedTidy
<1> QED BY <1>5, <1>6, <1>7 DEF x

-----------------------------------------------------------------------------
(* A call under way.                                                       *)

At(d, w) == [d |-> d, tmp |-> w]

\* The values the setting may take while a list runs.
Settings(p) == IF Lone THEN {p} ELSE BOOLEAN

\* The call c was compiled from a tidy database, d0, whose cell of c's tree is
\* still that of d.
Vouches(d0, p0, c, d, p) ==
  /\ \A m : Tidy(CellOf(d0, m))
  /\ ~Compile(d0, p0, c).refused
  /\ CellOf(d0, Fold[c.t]) = CellOf(d, Fold[c.t])
  /\ Lone => p0 = p

\* Its list, when it is yet to run, ...
Begun(d, p, c, l) ==
  \E d0, p0 : Vouches(d0, p0, c, d, p) /\ l = Compile(d0, p0, c).list

\* ... and what is left of it in transaction n, whose snapshot is b and whose
\* database and temporary tables are v and w.
Running(d, p, c, l, n, b, v, w) ==
  \E d0, p0 :
    /\ Vouches(d0, p0, c, d, p)
    /\ SourcesTidy(b) /\ CellOf(b, Fold[c.t]) = CellOf(d, Fold[c.t])
    /\ IsList(l)
    /\ \A y : Runs(l, n, Settings(p0), At(v, w), y) => Runs(Compile(d0, p0, c).list, n, Settings(p0), At(b, NoTemp), y)

LEMMA BegunStays ==
  ASSUME NEW d, NEW p, NEW c, NEW l, Begun(d, p, c, l),
         NEW e, CellOf(e, Fold[c.t]) = CellOf(d, Fold[c.t]), NEW q, Lone => q = p
  PROVE  Begun(e, q, c, l)
BY DEF Begun, Vouches

LEMMA RunningStays ==
  ASSUME NEW d, NEW p, NEW c, NEW l, NEW n, NEW b, NEW v, NEW w, Running(d, p, c, l, n, b, v, w),
         NEW e, CellOf(e, Fold[c.t]) = CellOf(d, Fold[c.t]), NEW q, Lone => q = p
  PROVE  Running(e, q, c, l, n, b, v, w)
<1>1. PICK d0, p0 :
        /\ Vouches(d0, p0, c, d, p)
        /\ SourcesTidy(b) /\ CellOf(b, Fold[c.t]) = CellOf(d, Fold[c.t])
        /\ IsList(l)
        /\ \A y : Runs(l, n, Settings(p0), At(v, w), y) =>
                    Runs(Compile(d0, p0, c).list, n, Settings(p0), At(b, NoTemp), y)
  BY DEF Running
<1>2. Vouches(d0, p0, c, e, q)
  BY <1>1 DEF Vouches
<1>3. CellOf(b, Fold[c.t]) = CellOf(e, Fold[c.t])
  BY <1>1
<1> QED BY <1>1, <1>2, <1>3 DEF Running

\* CompileStatements.
LEMMA Compiles ==
  ASSUME NEW d, \A m : Tidy(CellOf(d, m)), NEW p, NEW c, ~Compile(d, p, c).refused
  PROVE  Begun(d, p, c, Compile(d, p, c).list)
BY DEF Begun, Vouches

\* BeginTransaction.
LEMMA Begins ==
  ASSUME NEW d, SourcesTidy(d), NEW p, NEW s \in Session, NEW c \in Calls[s], NEW l, Begun(d, p, c, l), NEW n
  PROVE  Running(d, p, c, l, n, d, d, NoTemp)
<1>1. PICK d0, p0 : Vouches(d0, p0, c, d, p) /\ l = Compile(d0, p0, c).list
  BY DEF Begun
<1>2. IsList(l)
  BY <1>1, CompiledList DEF Vouches
<1> QED BY <1>1, <1>2 DEF Running

\* RunStatement.
LEMMA RunsOn ==
  ASSUME NEW d, NEW p \in BOOLEAN, NEW c, NEW l, l # <<>>, NEW n, NEW b, NEW v, NEW w,
         Running(d, p, c, l, n, b, v, w), ~Raises(v, w, Head(l), p)
  PROVE  Running(d, p, c, Tail(l), n, b, Effect(v, w, Head(l), n, p), Staged(v, w, Head(l), p))
<1> DEFINE v1 == Effect(v, w, Head(l), n, p)
<1> DEFINE w1 == Staged(v, w, Head(l), p)
<1>1. PICK d0, p0 :
        /\ Vouches(d0, p0, c, d, p)
        /\ SourcesTidy(b) /\ CellOf(b, Fold[c.t]) = CellOf(d, Fold[c.t])
        /\ IsList(l)
        /\ \A y : Runs(l, n, Settings(p0), At(v, w), y) =>
                    Runs(Compile(d0, p0, c).list, n, Settings(p0), At(b, NoTemp), y)
  BY DEF Running
<1>2. p \in Settings(p0)
  BY <1>1 DEF Settings, Vouches
<1>3. Does(At(v, w), Head(l), n, p, At(v1, w1))
  BY DEF Does, At
<1>4. IsList(Tail(l))
  BY <1>1, ListRest
<1> HIDE DEF v1, w1
<1>5. ASSUME NEW y, Runs(Tail(l), n, Settings(p0), At(v1, w1), y)
      PROVE  Runs(Compile(d0, p0, c).list, n, Settings(p0), At(b, NoTemp), y)
  <2> DEFINE P == Settings(p0)
  <2> DEFINE x == At(v, w)
  <2> DEFINE z == At(v1, w1)
  <2>1. Does(x, Head(l), n, p, z) /\ Runs(Tail(l), n, P, z, y) /\ p \in P
    BY <1>2, <1>3, <1>5
  <2> HIDE DEF P, x, z
  <2>2. Runs(l, n, P, x, y)
    BY <1>1, <2>1, RunsMore
  <2> QED BY <1>1, <2>2 DEF P, x
<1>6. Running(d, p, c, Tail(l), n, b, v1, w1)
  BY <1>1, <1>4, <1>5 DEF Running
<1> QED BY <1>6 DEF v1, w1

\* Commit.
LEMMA RunsOut ==
  ASSUME NEW d, NEW p, NEW s \in Session, NEW c \in Calls[s], NEW n, NEW b, DOMAIN b = Relation, NEW v, NEW w,
         Running(d, p, c, <<>>, n, b, v, w)
  PROVE  /\ Within(b, v, Fold[c.t]) /\ Tidy(CellOf(v, Fold[c.t])) /\ CellOf(b, Fold[c.t]) = CellOf(d, Fold[c.t])
         /\ Works(b, v, c, n)
<1> DEFINE l == <<>>
<1> DEFINE m == Fold[c.t]
<1>1. PICK d0, p0 :
        /\ Vouches(d0, p0, c, d, p)
        /\ SourcesTidy(b) /\ CellOf(b, m) = CellOf(d, m)
        /\ \A y : Runs(l, n, Settings(p0), At(v, w), y) =>
                    Runs(Compile(d0, p0, c).list, n, Settings(p0), At(b, NoTemp), y)
  BY DEF Running
<1> DEFINE P == Settings(p0)
<1> DEFINE x == At(b, NoTemp)
<1> DEFINE y == At(v, w)
<1>2. Runs(l, n, P, y, y)
  BY RunsNone
<1>3. Runs(Compile(d0, p0, c).list, n, P, x, y)
  BY <1>1, <1>2
<1>4. x.d = b /\ x.tmp = NoTemp /\ y.d = v
  BY DEF At
<1>5. Lone => \A r \in P : r = p0
  BY DEF Settings
<1>6. /\ \A k : Tidy(CellOf(d0, k)) /\ ~Compile(d0, p0, c).refused
      /\ CellOf(d0, m) = CellOf(d, m)
  BY <1>1 DEF Vouches
<1> HIDE DEF P, x, y
<1>7. DOMAIN x.d = Relation /\ SourcesTidy(x.d) /\ CellOf(x.d, m) = CellOf(d0, m)
  BY <1>1, <1>4, <1>6
<1>8. Within(x.d, y.d, m) /\ Tidy(CellOf(y.d, m)) /\ Works(x.d, y.d, c, n)
  BY <1>3, <1>4, <1>5, <1>6, <1>7, CompiledTidies
<1> QED BY <1>1, <1>4, <1>8

\* What a session whose list is used up has made of the database it began with.
LEMMA SessionRunsOut ==
  ASSUME NEW s \in Session, call[s] \in Calls[s], DOMAIN base[s] = Relation,
         Running(db, pio, call[s], <<>>, tx[s], base[s], view[s], temp[s])
  PROVE  /\ Within(base[s], view[s], Fold[call[s].t]) /\ Tidy(CellOf(view[s], Fold[call[s].t]))
         /\ CellOf(base[s], Fold[call[s].t]) = CellOf(db, Fold[call[s].t]) /\ Works(base[s], view[s], call[s], tx[s])
<1>1. \A c \in Calls[s] : \A n, b, v, w : DOMAIN b = Relation /\ Running(db, pio, c, <<>>, n, b, v, w)
        => /\ Within(b, v, Fold[c.t]) /\ Tidy(CellOf(v, Fold[c.t])) /\ CellOf(b, Fold[c.t]) = CellOf(db, Fold[c.t])
           /\ Works(b, v, c, n)
  BY RunsOut
<1> QED BY <1>1

-----------------------------------------------------------------------------
(* The committed database is tidy, whatever the sessions do.               *)

\* Inductive, while sessions keep apart: the sources and every cell are tidy, and
\* each list under way is the rest of one compiled from a tidy database, whose
\* cell of the call's tree nobody has changed since.
Plan(s) ==
  /\ pc[s] # "idle" => call[s] \in Calls[s]
  /\ pc[s] = "begin" => Begun(db, pio, call[s], todo[s])
  /\ pc[s] = "run" => Running(db, pio, call[s], todo[s], tx[s], base[s], view[s], temp[s])
Planned ==
  /\ SourcesTidy(db) /\ \A m : Tidy(CellOf(db, m))
  /\ \A s \in Session : Plan(s)

LEMMA EmptyTidy ==
  ASSUME NEW d, \A rel \in Cells : d[rel] = {}
  PROVE  \A m : Tidy(CellOf(d, m))
<1>1. \A m : CellOf(d, m) = NoCell
  BY DEF CellOf, Cell, NoCell
<1> QED BY <1>1 DEF Tidy

LEMMA InitPlanned == Init => Planned
<1> SUFFICES ASSUME Init PROVE Planned
  OBVIOUS
<1>1. /\ db["source"] = Contents0 /\ \A rel \in Cells : db[rel] = {}
  BY DEF Init, EmptyDb, Cells, Relation
<1>2. \A s \in Session : pc[s] = "idle"
  BY DEF Init
<1>3. ASSUME NEW src, NEW p \in Contents(db, src), NEW q \in Contents(db, src), p.root = q.root PROVE p = q
  <2>1. Contents(db, src) = {[root |-> r.root, part |-> r.part] : r \in {x \in Contents0 : x.src = src}}
    BY <1>1 DEF Contents, Select, Matches
  <2>2. PICK r \in Contents0 : r.src = src /\ p = [root |-> r.root, part |-> r.part]
    BY <2>1
  <2>3. PICK y \in Contents0 : y.src = src /\ q = [root |-> y.root, part |-> y.part]
    BY <2>1
  <2>4. r = y
    BY <1>3, <2>2, <2>3, ContentsAssumption
  <2> QED BY <2>2, <2>3, <2>4
<1>4. SourcesTidy(db)
  BY <1>3 DEF SourcesTidy, OnePerRoot
<1> QED BY <1>1, <1>2, <1>4, EmptyTidy DEF Planned, Plan

\* A session that does not move keeps its plan while its cell stays.
LEMMA PlanStays ==
  ASSUME NEW s \in Session, Plan(s),
         /\ pc'[s] = pc[s] /\ call'[s] = call[s] /\ todo'[s] = todo[s] /\ tx'[s] = tx[s]
         /\ base'[s] = base[s] /\ view'[s] = view[s] /\ temp'[s] = temp[s],
         ~Resting(s) => CellOf(db', Fold[call[s].t]) = CellOf(db, Fold[call[s].t]) /\ (Lone => pio' = pio)
  PROVE  Plan(s)'
<1>1. CASE pc[s] = "begin"
  <2>1. ~Resting(s)
    BY <1>1 DEF Resting
  <2>2. Begun(db', pio', call[s], todo[s])
    BY <1>1, <2>1, BegunStays DEF Plan
  <2> QED BY <1>1, <2>2 DEF Plan
<1>2. CASE pc[s] = "run"
  <2>1. ~Resting(s)
    BY <1>2 DEF Resting
  <2>2. Running(db', pio', call[s], todo[s], tx[s], base[s], view[s], temp[s])
    BY <1>2, <2>1, RunningStays DEF Plan
  <2> QED BY <1>2, <2>2 DEF Plan
<1>3. CASE pc[s] \notin {"begin", "run"}
  BY <1>3 DEF Plan
<1> QED BY <1>1, <1>2, <1>3

\* Two sessions that keep apart work on cells of their own.
LEMMA ApartCells ==
  ASSUME Apart, NEW s \in Session, NEW r \in Session, r # s, NEW c \in Calls[s], NEW e \in Calls[r]
  PROVE  Fold[c.t] # Fold[e.t]
BY DEF Apart, Lone

LEMMA NextPlanned == Apart /\ TypeOK /\ Planned /\ [Next]_vars => Planned'
<1> SUFFICES ASSUME Apart, TypeOK, Planned, [Next]_vars PROVE Planned'
  OBVIOUS
<1> DEFINE Still(s) ==
  /\ pc'[s] = pc[s] /\ call'[s] = call[s] /\ todo'[s] = todo[s] /\ tx'[s] = tx[s]
  /\ base'[s] = base[s] /\ view'[s] = view[s] /\ temp'[s] = temp[s]
<1>0. /\ SourcesTidy(db) /\ \A m : Tidy(CellOf(db, m))
      /\ \A s \in Session : Plan(s)
      /\ DOMAIN db = Relation /\ pio \in BOOLEAN
      /\ DOMAIN pc = Session /\ DOMAIN call = Session /\ DOMAIN todo = Session /\ DOMAIN tx = Session
      /\ DOMAIN base = Session /\ DOMAIN view = Session /\ DOMAIN temp = Session
      /\ \A s \in Session : DOMAIN base[s] = Relation
  BY DEF Planned, TypeOK
<1>1. ASSUME db' = db, Lone => pio' = pio, NEW s \in Session, \A r \in Session : r # s => Still(r), Plan(s)'
      PROVE  Planned'
  <2>1. \A r \in Session : r # s => Plan(r)'
    BY <1>0, <1>1, PlanStays
  <2> QED BY <1>0, <1>1, <2>1 DEF Planned
<1>2. ASSUME NEW s \in Session, BeginExplicit(s) \/ EndExplicit(s) PROVE Planned'
  <2>1. UNCHANGED <<db, pio, pc, call, todo, tx, base, view, temp>>
    BY <1>2 DEF BeginExplicit, EndExplicit, local
  <2>2. Plan(s)'
    BY <1>0, <2>1, PlanStays
  <2> QED BY <1>1, <2>1, <2>2
<1>3. ASSUME NEW s \in Session, ChangeSource(s) PROVE Planned'
  <2>1. UNCHANGED <<pio, pc, call, todo, tx, base, view, temp>>
    BY <1>3 DEF ChangeSource, local
  <2>2. PICK c \in Changes :
          db' = [db EXCEPT !["source"] =
                   {r \in @ : r.src # c.src} \cup {[src |-> c.src, root |-> p.root, part |-> p.part] : p \in c.parts}]
    BY <1>3 DEF ChangeSource
  <2>3. SourcesTidy(db') /\ \A m : CellOf(db', m) = CellOf(db, m)
    <3>1. DOMAIN db = Relation /\ SourcesTidy(db)
      BY <1>0
    <3>2. db' = Resourced(db, c)
      BY <2>2 DEF Resourced
    <3> QED BY <3>1, <3>2, ChangedSourcesTidy
  <2>4. \A r \in Session : Plan(r)'
    BY <1>0, <2>1, <2>3, PlanStays
  <2> QED BY <1>0, <2>3, <2>4 DEF Planned
<1>4. ASSUME NEW s \in Session, EditStored(s) PROVE Planned'
  <2>1. UNCHANGED <<pio, pc, call, todo, tx, base, view, temp>>
    BY <1>4 DEF EditStored, local
  <2>2. PICK r \in db["rows"], p \in Damage :
          p.n = r.part.n /\ db' = [db EXCEPT !["rows"] = (@ \ {r}) \cup {[r EXCEPT !.part = p]}]
    BY <1>4 DEF EditStored
  <2>3. \A m : Tidy(CellOf(db', m))
    BY <1>0, <2>2, EditedCells
  <2>4. SourcesTidy(db')
    <3>1. db'["source"] = db["source"]
      BY <1>0, <2>2 DEF Relation
    <3> QED BY <1>0, <3>1, SameSources
  <2>5. \A k \in Session : Resting(k)
    BY <1>4, <2>2 DEF EditStored, Apart, Lone
  <2>6. \A k \in Session : Plan(k)'
    BY <1>0, <2>1, <2>5, PlanStays
  <2> QED BY <2>3, <2>4, <2>6 DEF Planned
<1>5. ASSUME NEW s \in Session, SetOption(s) PROVE Planned'
  <2>1. UNCHANGED <<db, pc, call, todo, tx, base, view, temp>>
    BY <1>5 DEF SetOption, local
  <2>2. Lone => \A k \in Session : Resting(k)
    BY <1>5 DEF SetOption, Lone
  <2>3. \A k \in Session : Plan(k)'
    BY <1>0, <2>1, <2>2, PlanStays
  <2> QED BY <1>0, <2>1, <2>3 DEF Planned
<1>6. ASSUME NEW s \in Session, VerbBind(s) PROVE Planned'
  <2>1. UNCHANGED <<db, pio, todo, tx, base, view, temp>> /\ pc' = [pc EXCEPT ![s] = "bound"]
    BY <1>6 DEF VerbBind, local
  <2>2. PICK c \in Calls[s] : call' = [call EXCEPT ![s] = c]
    BY <1>6 DEF VerbBind
  <2>3. Plan(s)'
    BY <1>0, <2>1, <2>2 DEF Plan
  <2> QED BY <1>0, <1>1, <2>1, <2>2, <2>3
<1>7. ASSUME NEW s \in Session, Unbind(s) \/ VerbInit(s) \/ EndScan(s) \/ RequireAutoCommit(s) PROVE Planned'
  <2>1. UNCHANGED <<db, pio, call, todo, tx, base, view, temp>>
    BY <1>7 DEF Unbind, VerbInit, EndScan, RequireAutoCommit, local
  <2>2. pc[s] # "idle" /\ \E at \in {"idle", "scan", "compile"} : pc' = [pc EXCEPT ![s] = at]
    BY <1>7 DEF Unbind, VerbInit, EndScan, RequireAutoCommit, Return
  <2>3. Plan(s)'
    BY <1>0, <2>1, <2>2 DEF Plan
  <2> QED BY <1>0, <1>1, <2>1, <2>2, <2>3
<1>8. ASSUME NEW s \in Session, CompileStatements(s) PROVE Planned'
  <2>1. UNCHANGED <<db, pio, call, tx, base, view, temp>> /\ pc[s] = "compile"
    BY <1>8 DEF CompileStatements
  <2>2. CASE Return(s, "refused") /\ UNCHANGED todo
    <3>1. pc' = [pc EXCEPT ![s] = "idle"] /\ todo' = todo
      BY <2>2 DEF Return
    <3>2. Plan(s)'
      BY <1>0, <3>1 DEF Plan
    <3> QED BY <1>0, <1>1, <2>1, <3>1, <3>2
  <2>3. CASE /\ ~Compile(db, pio, call[s]).refused
             /\ todo' = [todo EXCEPT ![s] = Compile(db, pio, call[s]).list]
             /\ pc' = [pc EXCEPT ![s] = "begin"]
    <3>1. Begun(db, pio, call[s], Compile(db, pio, call[s]).list)
      BY <1>0, <2>3, Compiles
    <3>2. todo'[s] = Compile(db, pio, call[s]).list /\ pc'[s] = "begin"
      BY <1>0, <2>3
    <3>3. call[s] \in Calls[s]
      BY <1>0, <2>1 DEF Plan
    <3>4. Plan(s)'
      BY <2>1, <3>1, <3>2, <3>3 DEF Plan
    <3> QED BY <1>0, <1>1, <2>1, <2>3, <3>4
  <2> QED BY <1>8, <2>2, <2>3 DEF CompileStatements
<1>9. ASSUME NEW s \in Session, BeginTransaction(s) PROVE Planned'
  <2>1. UNCHANGED <<db, pio, call, todo>> /\ pc[s] = "begin" /\ pc' = [pc EXCEPT ![s] = "run"]
    BY <1>9 DEF BeginTransaction
  <2>2. /\ base' = [base EXCEPT ![s] = db] /\ view' = [view EXCEPT ![s] = db]
        /\ temp' = [temp EXCEPT ![s] = NoTemp] /\ tx' = [tx EXCEPT ![s] = begun + 1]
    BY <1>9 DEF BeginTransaction
  <2>3. call[s] \in Calls[s] /\ Begun(db, pio, call[s], todo[s])
    BY <1>0, <2>1 DEF Plan
  <2>4. Running(db, pio, call[s], todo[s], begun + 1, db, db, NoTemp)
    BY <1>0, <2>3, Begins
  <2>5. base'[s] = db /\ view'[s] = db /\ temp'[s] = NoTemp /\ tx'[s] = begun + 1 /\ pc'[s] = "run"
    BY <1>0, <2>1, <2>2
  <2>6. Plan(s)'
    BY <2>1, <2>3, <2>4, <2>5 DEF Plan
  <2> QED BY <1>0, <1>1, <2>1, <2>2, <2>6
<1>10. ASSUME NEW s \in Session, RunStatement(s) PROVE Planned'
  <2> DEFINE st == Head(todo[s])
  <2>1. UNCHANGED <<db, pio, pc, call, base, tx>> /\ pc[s] = "run" /\ todo[s] # <<>>
    BY <1>10 DEF RunStatement
  <2>2. /\ view' = [view EXCEPT ![s] = Effect(@, temp[s], st, tx[s], pio)]
        /\ temp' = [temp EXCEPT ![s] = Staged(view[s], @, st, pio)]
        /\ todo' = [todo EXCEPT ![s] = Tail(@)]
    BY <1>10 DEF RunStatement
  <2>3. /\ view'[s] = Effect(view[s], temp[s], st, tx[s], pio) /\ temp'[s] = Staged(view[s], temp[s], st, pio)
        /\ todo'[s] = Tail(todo[s])
    BY <1>0, <2>2
  <2>4. call[s] \in Calls[s] /\ Running(db, pio, call[s], todo[s], tx[s], base[s], view[s], temp[s])
    BY <1>0, <2>1 DEF Plan
  <2>5. ~Raises(view[s], temp[s], Head(todo[s]), pio)
    BY <1>10 DEF RunStatement
  <2>6. Running(db, pio, call[s], Tail(todo[s]), tx[s], base[s], Effect(view[s], temp[s], st, tx[s], pio),
                Staged(view[s], temp[s], st, pio))
    BY <1>0, <2>1, <2>4, <2>5, RunsOn
  <2>7. Plan(s)'
    BY <2>1, <2>3, <2>4, <2>6 DEF Plan
  <2> QED BY <1>0, <1>1, <2>1, <2>2, <2>7
<1>11. ASSUME NEW s \in Session, RollBack(s) \/ CommitFails(s) PROVE Planned'
  <2>1. UNCHANGED <<db, pio, call>> /\ Return(s, "error") /\ Release(s)
    BY <1>11 DEF RollBack, CommitFails
  <2>2. \A r \in Session : r # s => Still(r)
    BY <1>0, <2>1 DEF Return, Release
  <2>3. Plan(s)'
    BY <1>0, <2>1 DEF Return, Plan
  <2> QED BY <1>1, <2>1, <2>2, <2>3
<1>12. ASSUME NEW s \in Session, Commit(s) PROVE Planned'
  <2> DEFINE m == Fold[call[s].t]
  <2>1. /\ UNCHANGED <<pio, call>> /\ Release(s) /\ pc[s] = "run" /\ todo[s] = <<>>
        /\ db' = Merge(db, base[s], view[s]) /\ pc' = [pc EXCEPT ![s] = "scan"]
    BY <1>12 DEF Commit
  <2>2. call[s] \in Calls[s] /\ Running(db, pio, call[s], <<>>, tx[s], base[s], view[s], temp[s])
    BY <1>0, <2>1 DEF Plan
  <2>3. Within(base[s], view[s], m) /\ Tidy(CellOf(view[s], m)) /\ CellOf(base[s], m) = CellOf(db, m)
    <3>1. DOMAIN base[s] = Relation
      BY <1>0
    <3> QED BY <2>2, <3>1, SessionRunsOut
  <2>4. Within(db, db', m) /\ CellOf(db', m) = CellOf(view[s], m)
    BY <2>1, <2>3, MergeWithin
  <2>5. \A k : Tidy(CellOf(db', k))
    BY <1>0, <2>3, <2>4, OtherCells
  <2>6. SourcesTidy(db')
    BY <1>0, <2>4, SameSources DEF Within
  <2>7. \A r \in Session : r # s => Still(r)
    BY <1>0, <2>1 DEF Release
  <2>8. ASSUME NEW r \in Session, r # s PROVE Plan(r)'
    <3>1. ~Resting(r) => call[r] \in Calls[r]
      BY <1>0 DEF Plan, Resting
    <3>2. ~Resting(r) => Fold[call[r].t] # m
      BY <2>2, <2>8, <3>1, ApartCells
    <3>3. ~Resting(r) => CellOf(db', Fold[call[r].t]) = CellOf(db, Fold[call[r].t])
      BY <2>4, <3>2, OtherCells
    <3> QED BY <1>0, <2>1, <2>7, <2>8, <3>3, PlanStays
  <2>9. Plan(s)'
    BY <1>0, <2>1, <2>2 DEF Plan
  <2> QED BY <2>5, <2>6, <2>8, <2>9 DEF Planned
<1>13. CASE Crash
  <2>1. db' = db /\ \A s \in Session : pc'[s] = "idle"
    BY <1>13 DEF Crash
  <2> QED BY <1>0, <2>1 DEF Planned, Plan
<1>14. CASE UNCHANGED vars
  <2>1. UNCHANGED <<db, pio, pc, call, todo, tx, base, view, temp>>
    BY <1>14 DEF vars, local
  <2>2. \A s \in Session : Plan(s)'
    BY <1>0, <2>1, PlanStays
  <2> QED BY <1>0, <2>1, <2>2 DEF Planned
<1> QED BY <1>2, <1>3, <1>4, <1>5, <1>6, <1>7, <1>8, <1>9, <1>10, <1>11, <1>12, <1>13, <1>14 DEF Next, Step

LEMMA PlannedAlways ==
  ASSUME Apart
  PROVE  Spec => []Planned
BY TypeCorrect, InitPlanned, NextPlanned, PTL DEF Spec

-----------------------------------------------------------------------------
(* What a tidy database is.                                                *)

\* A registered tree, its cell and what the catalog says of it.
LEMMA TreeIn ==
  ASSUME NEW d, \A m : Tidy(CellOf(d, m)), NEW q \in d["trees"]
  PROVE  LET C == CellOf(d, Fold[q.t]) IN
         C["trees"] = {q} /\ TidyTree(C, q) /\ SlotsOf(d, q.t) = SlotsIn(C) /\ PredsOf(d, q.t) = PredsIn(C)
<1> DEFINE C == CellOf(d, Fold[q.t])
<1> DEFINE t == q.t
<1>1. Registered(d, t) /\ Tidy(CellOf(d, Fold[t]))
  BY DEF Registered
<1>2. q \in C["trees"]
  BY CellIn, RelationsAreCells DEF Cell, Owner
<1> HIDE DEF t
<1>3. /\ CellOf(d, Fold[t])["trees"] = {TreeRow(d, t)} /\ TidyTree(CellOf(d, Fold[t]), TreeRow(d, t))
      /\ SlotsOf(d, t) = SlotsIn(CellOf(d, Fold[t])) /\ PredsOf(d, t) = PredsIn(CellOf(d, Fold[t]))
  BY <1>1, TidyReads
<1>4. /\ C["trees"] = {TreeRow(d, t)} /\ TidyTree(C, TreeRow(d, t))
      /\ SlotsOf(d, t) = SlotsIn(C) /\ PredsOf(d, t) = PredsIn(C)
  BY <1>3 DEF t
<1> HIDE DEF C
<1>5. TreeRow(d, t) = q
  BY <1>2, <1>4
<1> QED BY <1>4, <1>5 DEF t, C

\* The tree a row belongs to.
LEMMA RowIn ==
  ASSUME NEW d, \A m : Tidy(CellOf(d, m)), NEW rel \in Cells, NEW r \in d[rel]
  PROVE  LET C == CellOf(d, Owner(rel, r)) IN
         \E q \in d["trees"] : Fold[q.t] = Owner(rel, r) /\ C["trees"] = {q} /\ TidyTree(C, q) /\ r \in C[rel]
<1> DEFINE m == Owner(rel, r)
<1> DEFINE C == CellOf(d, m)
<1>1. r \in C[rel] /\ C["trees"] = Cell(d, "trees", m)
  BY CellIn, RelationsAreCells DEF Cell
<1>2. NoCell[rel] = {}
  BY DEF NoCell
<1>3. Tidy(C)
  OBVIOUS
<1> HIDE DEF C
<1>4. PICK q : C["trees"] = {q} /\ TidyTree(C, q)
  BY <1>1, <1>2, <1>3 DEF Tidy
<1>5. q \in Cell(d, "trees", m)
  BY <1>1, <1>4
<1>6. q \in d["trees"] /\ Fold[q.t] = m
  BY <1>5 DEF Cell, Owner
<1> QED BY <1>1, <1>4, <1>6 DEF C

\* A tidy catalog has one row per generated name.
LEMMA TidyShares ==
  ASSUME NEW d, \A m : Tidy(CellOf(d, m)), NEW q \in d["trees"], NEW r \in d["trees"], Fold[q.t] = Fold[r.t]
  PROVE  q = r
<1>1. CellOf(d, Fold[q.t])["trees"] = {q}
  BY TreeIn
<1>2. CellOf(d, Fold[r.t])["trees"] = {r}
  BY TreeIn
<1> QED BY <1>1, <1>2

\* Two registered trees never share a generated table or macro: create refuses a
\* name that another tree's equals up to case, and nothing renames one.
THEOREM ObjectsAreNotShared == ASSUME Apart PROVE Spec => []NoSharedObjects
<1>1. Planned => NoSharedObjects
  BY TidyShares DEF Planned, NoSharedObjects
<1> QED BY <1>1, PlannedAlways, PTL

\* Nothing survives the tree it belongs to: no catalog row, table or macro, drop's
\* list and every create that fails part-way included.
THEOREM NothingIsOrphaned == ASSUME Apart PROVE Spec => []NoOrphans
<1>1. ASSUME Planned PROVE NoOrphans
  <2>0. \A m : Tidy(CellOf(db, m))
    BY <1>1 DEF Planned
  <2>1. ASSUME NEW rel \in {"slots", "predicates", "compiled", "partitions", "assertions"}, NEW r \in db[rel]
        PROVE  Registered(db, r.t)
    <3>1. rel \in Cells /\ rel \in TreeKept /\ Owner(rel, r) = Fold[r.t]
      BY RelationsAreCells DEF TreeKept, Owner
    <3>2. PICK q \in db["trees"] : TidyTree(CellOf(db, Owner(rel, r)), q) /\ r \in CellOf(db, Owner(rel, r))[rel]
      BY <2>0, <2>1, <3>1, RowIn
    <3>3. r.t = q.t
      BY <3>1, <3>2 DEF TidyTree, Shaped
    <3> QED BY <3>3 DEF Registered
  <2>2. ASSUME NEW r \in db["tables"] PROVE \E q \in db["trees"] : Fold[q.t] = r.m /\ Stores(q)
    <3>1. "tables" \in Cells /\ Owner("tables", r) = r.m
      BY RelationsAreCells DEF Owner
    <3>2. PICK q \in db["trees"] : Fold[q.t] = r.m /\ TidyTree(CellOf(db, r.m), q) /\ r \in CellOf(db, r.m)["tables"]
      BY <2>0, <2>2, <3>1, RowIn
    <3> QED BY <3>2 DEF TidyTree, RowsTidy
  <2>3. ASSUME NEW r \in db["macros"] PROVE \E q \in db["trees"] : Fold[q.t] = r.m /\ Concrete(q)
    <3>1. "macros" \in Cells /\ Owner("macros", r) = r.m
      BY RelationsAreCells DEF Owner
    <3>2. PICK q \in db["trees"] : Fold[q.t] = r.m /\ TidyTree(CellOf(db, r.m), q) /\ r \in CellOf(db, r.m)["macros"]
      BY <2>0, <2>3, <3>1, RowIn
    <3> QED BY <3>2 DEF TidyTree, TextsTidy
  <2> QED BY <2>1, <2>2, <2>3 DEF NoOrphans
<1> QED BY <1>1, PlannedAlways, PTL

\* One row per declared slot, though alter deletes and re-inserts the S slots and
\* create brings those of the tree it is LIKE.
THEOREM SlotsHaveOneRow == ASSUME Apart PROVE Spec => []OneRowPerSlot
<1>1. ASSUME Planned PROVE OneRowPerSlot
  <2> SUFFICES ASSUME NEW x \in db["slots"], NEW y \in db["slots"], x.t = y.t, x.s = y.s PROVE x = y
    BY DEF OneRowPerSlot
  <2>0. \A m : Tidy(CellOf(db, m))
    BY <1>1 DEF Planned
  <2>1. "slots" \in Cells /\ Owner("slots", x) = Fold[x.t] /\ Owner("slots", y) = Fold[x.t]
    BY RelationsAreCells DEF Owner
  <2>2. PICK q : TidyTree(CellOf(db, Fold[x.t]), q) /\ x \in CellOf(db, Fold[x.t])["slots"]
    BY <2>0, <2>1, RowIn
  <2>3. y \in CellOf(db, Fold[x.t])["slots"]
    BY <2>0, <2>1, RowIn
  <2> QED BY <2>2, <2>3 DEF TidyTree, SlotsTidy
<1> QED BY <1>1, PlannedAlways, PTL

\* has_semantic, which tree_match reads to allow an S clause, says what the tree's
\* slots say, through LIKE and through every alter.
THEOREM FlagSaysTheSlots == ASSUME Apart PROVE Spec => []SemanticFlag
<1>1. ASSUME Planned PROVE SemanticFlag
  <2> SUFFICES ASSUME NEW q \in db["trees"] PROVE q.sem = Declares(SlotsOf(db, q.t), PredsOf(db, q.t))
    BY DEF SemanticFlag
  <2> DEFINE C == CellOf(db, Fold[q.t])
  <2>1. TidyTree(C, q) /\ SlotsOf(db, q.t) = SlotsIn(C) /\ PredsOf(db, q.t) = PredsIn(C)
    BY <1>1, TreeIn DEF Planned
  <2> QED BY <2>1 DEF TidyTree, SlotsTidy
<1> QED BY <1>1, PlannedAlways, PTL

\* One partition on file per ROOT of a tree.
THEOREM RootsHaveOneRow == ASSUME Apart PROVE Spec => []OneRowPerRoot
<1>1. ASSUME Planned PROVE OneRowPerRoot
  <2> SUFFICES ASSUME NEW x \in db["partitions"], NEW y \in db["partitions"], x.t = y.t, x.root = y.root PROVE x = y
    BY DEF OneRowPerRoot
  <2>0. \A m : Tidy(CellOf(db, m))
    BY <1>1 DEF Planned
  <2>1. "partitions" \in Cells /\ Owner("partitions", x) = Fold[x.t] /\ Owner("partitions", y) = Fold[x.t]
    BY RelationsAreCells DEF Owner
  <2> DEFINE C == CellOf(db, Fold[x.t])
  <2>2. PICK q : TidyTree(C, q) /\ x \in C["partitions"]
    BY <2>0, <2>1, RowIn
  <2>3. y \in C["partitions"]
    BY <2>0, <2>1, RowIn
  <2>4. OnePerRoot(C["partitions"])
    BY <2>2 DEF TidyTree, RowsTidy, OnePerRoot
  <2> QED BY <2>2, <2>3, <2>4 DEF OnePerRoot
<1> QED BY <1>1, PlannedAlways, PTL

\* What a tree keeps on file is its cell's.
LEMMA RowsOnFile ==
  ASSUME NEW d, NEW rel \in TreeKept, NEW q, NEW C, C = CellOf(d, Fold[q.t]), TidyTree(C, q)
  PROVE  TreeRows(d, rel, q.t) = C[rel]
<1>1. rel \in Cells /\ \A r : Owner(rel, r) = Fold[r.t]
  BY RelationsAreCells DEF TreeKept, Owner
<1>2. C[rel] = Cell(d, rel, Fold[q.t])
  BY <1>1, CellIn
<1>3. \A r \in C[rel] : r.t = q.t
  BY DEF TidyTree, Shaped
<1>4. \A r : r \in C[rel] <=> r \in d[rel] /\ r.t = q.t
  BY <1>1, <1>2, <1>3 DEF Cell
<1>5. \A r : r \in TreeRows(d, rel, q.t) <=> r \in d[rel] /\ r.t = q.t
  BY SelectTree DEF TreeRows
<1> QED BY <1>4, <1>5

\* The macro that serves a tree and both recorded artifacts come from the slots the
\* catalog holds now, after any sequence of creates and alters.
THEOREM TextsFollowTheSlots == ASSUME Apart PROVE Spec => []CompiledAgrees
<1>1. ASSUME Planned PROVE CompiledAgrees
  <2> SUFFICES ASSUME NEW q \in db["trees"], Concrete(q)
               PROVE  LET slots == SlotsOf(db, q.t)
                          text  == ServedBy(q.storage, q.t, slots, q.source)
                      IN  /\ {r.text : r \in Entry(db, "macros", Fold[q.t])} = {text}
                          /\ {[art |-> r.art, text |-> r.text] : r \in TreeRows(db, "compiled", q.t)} =
                               {[art |-> "projection", text |-> Projection(slots, q.source)],
                                [art |-> "attribute_columns", text |-> text]}
    BY DEF CompiledAgrees
  <2> DEFINE C == CellOf(db, Fold[q.t])
  <2> DEFINE slots == SlotsOf(db, q.t)
  <2> DEFINE text == ServedBy(q.storage, q.t, slots, q.source)
  <2> DEFINE proj == Projection(slots, q.source)
  <2>1. TidyTree(C, q) /\ SlotsOf(db, q.t) = SlotsIn(C)
    BY <1>1, TreeIn DEF Planned
  <2>2. Entry(db, "macros", Fold[q.t]) = C["macros"]
    BY EntryIsCell, CellIn, RelationsAreCells
  <2>3. TreeRows(db, "compiled", q.t) = C["compiled"]
    BY <2>1, RowsOnFile DEF TreeKept
  <2>4. /\ C["macros"] # {} /\ \A r \in C["macros"] : r.text = text
        /\ \E r \in C["compiled"] : r.art = "projection"
        /\ \E r \in C["compiled"] : r.art = "attribute_columns"
        /\ \A r \in C["compiled"] : \/ r.art = "projection" /\ r.text = proj
                                    \/ r.art = "attribute_columns" /\ r.text = text
    BY <2>1 DEF TidyTree, TextsTidy
  <2> HIDE DEF C, text, proj
  <2>5. {r.text : r \in C["macros"]} = {text}
    BY <2>4
  <2>6. {[art |-> r.art, text |-> r.text] : r \in C["compiled"]} =
          {[art |-> "projection", text |-> proj], [art |-> "attribute_columns", text |-> text]}
    <3> DEFINE kept == {[art |-> r.art, text |-> r.text] : r \in C["compiled"]}
    <3>1. \A r \in C["compiled"] : r.art = "projection" => r.text = proj
      BY <2>4
    <3>2. \A r \in C["compiled"] : r.art = "attribute_columns" => r.text = text
      BY <2>4
    <3>3. [art |-> "projection", text |-> proj] \in kept
      BY <2>4, <3>1
    <3>4. [art |-> "attribute_columns", text |-> text] \in kept
      BY <2>4, <3>2
    <3>5. \A k \in kept : k = [art |-> "projection", text |-> proj] \/ k = [art |-> "attribute_columns", text |-> text]
      BY <2>4
    <3> HIDE DEF kept
    <3>6. kept = {[art |-> "projection", text |-> proj], [art |-> "attribute_columns", text |-> text]}
      BY <3>3, <3>4, <3>5
    <3> QED BY <3>6 DEF kept
  <2> QED BY <2>2, <2>3, <2>5, <2>6 DEF text, proj
<1> QED BY <1>1, PlannedAlways, PTL

\* What a stored tree's table holds is its cell's rows.
LEMMA StoredRows ==
  ASSUME NEW d, \A m : Tidy(CellOf(d, m)), NEW q \in d["trees"], Stores(q)
  PROVE  LET C == CellOf(d, Fold[q.t]) IN
         Stored(d, Fold[q.t]) = C["rows"] /\ HasTable(d, Fold[q.t]) /\ TidyTree(C, q) /\ SlotsOf(d, q.t) = SlotsIn(C)
<1> DEFINE m == Fold[q.t]
<1> DEFINE C == CellOf(d, m)
<1>1. TidyTree(C, q) /\ SlotsOf(d, q.t) = SlotsIn(C)
  BY TreeIn
<1>2. PICK b : C["tables"] = TablesOnFile(m, b) /\ \A r \in C["rows"] : r.v = b
  BY <1>1 DEF TidyTree, RowsTidy
<1>3. C["tables"] = Cell(d, "tables", m) /\ C["rows"] = Cell(d, "rows", m)
  BY CellIn, RelationsAreCells
<1>4. Cell(d, "tables", m) = TablesOnFile(m, b) /\ \A r \in Cell(d, "rows", m) : r.v = b
  BY <1>2, <1>3
<1>5. Stored(d, m) = Cell(d, "rows", m) /\ HasTable(d, m)
  BY <1>4, StoredIsCell, Zenon
<1> QED BY <1>1, <1>3, <1>5

\* tree_state.partitions describes the stored rows: the roots of the table, each
\* with the number of rows it has there.
THEOREM PartitionsDescribeRows == ASSUME Apart PROVE Spec => []PartitionsMatchRows
<1>1. ASSUME Planned PROVE PartitionsMatchRows
  <2> SUFFICES ASSUME NEW q \in db["trees"], Stores(q)
               PROVE  /\ HasTable(db, Fold[q.t])
                      /\ {[root |-> p.root, n |-> p.n] : p \in TreeRows(db, "partitions", q.t)} =
                           {[root |-> r.root, n |-> r.part.n] : r \in Stored(db, Fold[q.t])}
    BY DEF PartitionsMatchRows
  <2> DEFINE C == CellOf(db, Fold[q.t])
  <2>1. Stored(db, Fold[q.t]) = C["rows"] /\ HasTable(db, Fold[q.t]) /\ TidyTree(C, q)
    BY <1>1, StoredRows DEF Planned
  <2>2. TreeRows(db, "partitions", q.t) = C["partitions"]
    BY <2>1, RowsOnFile DEF TreeKept
  <2>3. /\ \A p \in C["partitions"] : \E r \in C["rows"] : r.root = p.root /\ r.part.n = p.n
        /\ \A r \in C["rows"] : \E p \in C["partitions"] : r.root = p.root /\ r.part.n = p.n
    BY <2>1 DEF TidyTree, RowsTidy
  <2> HIDE DEF C
  <2>4. {[root |-> p.root, n |-> p.n] : p \in C["partitions"]} = {[root |-> r.root, n |-> r.part.n] : r \in C["rows"]}
    <3> DEFINE A == {[root |-> p.root, n |-> p.n] : p \in C["partitions"]}
    <3> DEFINE B == {[root |-> r.root, n |-> r.part.n] : r \in C["rows"]}
    <3>1. ASSUME NEW p \in C["partitions"] PROVE [root |-> p.root, n |-> p.n] \in B
      <4>1. PICK r \in C["rows"] : r.root = p.root /\ r.part.n = p.n
        BY <2>3
      <4> QED BY <4>1
    <3>2. ASSUME NEW r \in C["rows"] PROVE [root |-> r.root, n |-> r.part.n] \in A
      <4>1. PICK p \in C["partitions"] : r.root = p.root /\ r.part.n = p.n
        BY <2>3
      <4> QED BY <4>1
    <3>3. A \subseteq B
      BY <3>1
    <3>4. B \subseteq A
      BY <3>2
    <3> QED BY <3>3, <3>4
  <2> QED BY <2>1, <2>2, <2>4
<1> QED BY <1>1, PlannedAlways, PTL

\* While nobody writes a table by hand, no partition is stored that the tree's
\* declaration would refuse, whichever verb brought it and whatever alter made of
\* the declaration since.
THEOREM StoredIsAsDeclared == ASSUME Apart, Damage = {} PROVE Spec => []StoredConforms
<1>1. ASSUME Planned PROVE StoredConforms
  <2> SUFFICES ASSUME NEW q \in db["trees"], Stores(q), NEW r \in Stored(db, Fold[q.t])
               PROVE  r.part.bad \cap Enforced(SlotsOf(db, q.t)) = {}
    BY DEF StoredConforms
  <2> DEFINE C == CellOf(db, Fold[q.t])
  <2>1. Stored(db, Fold[q.t]) = C["rows"] /\ TidyTree(C, q) /\ SlotsOf(db, q.t) = SlotsIn(C)
    BY <1>1, StoredRows DEF Planned
  <2>2. Clean(C["rows"], Enforced(SlotsIn(C)))
    BY <2>1 DEF TidyTree, RowsSound
  <2> HIDE DEF C
  <2>3. r \in C["rows"]
    BY <2>1
  <2> QED BY <2>1, <2>2, <2>3 DEF Clean
<1> QED BY <1>1, PlannedAlways, PTL

\* A declared UNIQUE KEY is unique in every stored partition, where trees declare
\* it for the walk from the parents: insert and replace ask only there (ReachKey).
THEOREM KeysStayUnique == ASSUME Apart, Damage = {}, KeysOnParents PROVE Spec => []KeysAreUnique
<1>1. ASSUME Planned PROVE KeysAreUnique
  <2> SUFFICES ASSUME NEW q \in db["trees"], Stores(q), NEW r \in Stored(db, Fold[q.t]), HasKey(SlotsOf(db, q.t))
               PROVE  "key" \notin r.part.bad
    BY Zenon DEF KeysAreUnique, HasKey
  <2> DEFINE C == CellOf(db, Fold[q.t])
  <2>1. Stored(db, Fold[q.t]) = C["rows"] /\ TidyTree(C, q) /\ SlotsOf(db, q.t) = SlotsIn(C)
    BY <1>1, StoredRows DEF Planned
  <2>2. Clean(C["rows"], {"key"})
    BY <2>1 DEF TidyTree, RowsSound
  <2> HIDE DEF C
  <2>3. r \in C["rows"]
    BY <2>1
  <2> QED BY <2>2, <2>3 DEF Clean
<1> QED BY <1>1, PlannedAlways, PTL

\* A session on its own never stores an order taken from a scan that need not keep
\* one: create refuses and the frozen guard raises (FrozenGuard).
THEOREM OrdersAreKept == ASSUME Lone PROVE Spec => []NoArbitraryOrder
<1>1. Apart
  BY DEF Apart
<1>2. ASSUME Planned PROVE NoArbitraryOrder
  <2> SUFFICES ASSUME NEW r \in db["rows"] PROVE ~r.arb
    BY DEF NoArbitraryOrder
  <2>0. \A m : Tidy(CellOf(db, m))
    BY <1>2 DEF Planned
  <2>1. "rows" \in Cells
    BY RelationsAreCells
  <2>2. PICK q : TidyTree(CellOf(db, Owner("rows", r)), q) /\ r \in CellOf(db, Owner("rows", r))["rows"]
    BY <2>0, <2>1, RowIn
  <2> QED BY <2>2 DEF TidyTree, RowsSound
<1>3. Spec => []Planned
  BY <1>1, PlannedAlways
<1> QED BY <1>2, <1>3, PTL

-----------------------------------------------------------------------------
(* A verb changes its own tree and no other.                               *)

\* No verb is compiled for a name another tree's equals up to case: the tree is
\* there, or create found none.
LEMMA CompiledFor ==
  ASSUME NEW d, NEW p, NEW s \in Session, NEW c \in Calls[s], ~Compile(d, p, c).refused
  PROVE  Registered(d, c.t) \/ (~Registered(d, c.t) /\ ~Collides(d, c.t))
<1>1. c.verb \in {"tree_ddl_create", "tree_ddl_drop", "tree_ddl_alter", "tree_insert", "tree_replace", "tree_delete",
                  "tree_check"}
  BY CallsAssumption
<1>2. CASE c.verb = "tree_ddl_create"
  BY <1>2, CreateIs DEF Compile
<1>3. CASE c.verb \in {"tree_ddl_drop", "tree_ddl_alter"}
  BY <1>3 DEF Compile, CompileDrop, CompileAlter, Refused
<1>4. CASE c.verb = "tree_insert"
  BY <1>4 DEF Compile, CompileInsert, HasContext, Refused
<1>5. CASE c.verb = "tree_replace"
  BY <1>5 DEF Compile, CompileReplace, HasContext, Refused
<1>6. CASE c.verb = "tree_delete"
  BY <1>6 DEF Compile, CompileDelete, HasContext, Refused
<1>7. CASE c.verb = "tree_check"
  BY <1>7 DEF Compile, CompileCheck, HasContext, Refused
<1> QED BY <1>1, <1>2, <1>3, <1>4, <1>5, <1>6, <1>7

\* So while its list runs, no other tree is in its cell.
LEMMA RunningAlone ==
  ASSUME NEW d, \A m : Tidy(CellOf(d, m)), NEW p, NEW s \in Session, NEW c \in Calls[s], NEW l, NEW n, NEW b, NEW v, NEW w,
         Running(d, p, c, l, n, b, v, w), NEW q \in d["trees"], Fold[q.t] = Fold[c.t]
  PROVE  q.t = c.t
<1> DEFINE m == Fold[c.t]
<1>1. PICK d0, p0 : Vouches(d0, p0, c, d, p)
  BY DEF Running
<1>2. /\ Tidy(CellOf(d0, m)) /\ ~Compile(d0, p0, c).refused /\ CellOf(d0, m) = CellOf(d, m)
  BY <1>1 DEF Vouches
<1>3. CellOf(d, m)["trees"] = {q}
  BY TreeIn
<1>4. CASE Registered(d0, c.t)
  <2>1. TreeRow(d0, c.t).t = c.t /\ CellOf(d0, m)["trees"] = {TreeRow(d0, c.t)}
    BY <1>2, <1>4, TidyReads
  <2> QED BY <1>2, <1>3, <2>1
<1>5. CASE ~Registered(d0, c.t) /\ ~Collides(d0, c.t)
  <2>1. CellOf(d0, m) = NoCell
    BY <1>2, <1>5, TidyEmpty
  <2>2. NoCell["trees"] = {}
    BY RelationsAreCells DEF NoCell
  <2> QED BY <1>2, <1>3, <2>1, <2>2
<1>6. Registered(d0, c.t) \/ (~Registered(d0, c.t) /\ ~Collides(d0, c.t))
  BY <1>2, CompiledFor
<1> QED BY <1>4, <1>5, <1>6

\* A tree whose cell stays keeps its rows and its generated objects.
LEMMA SameTree ==
  ASSUME NEW d, NEW e, NEW t, CellOf(e, Fold[t]) = CellOf(d, Fold[t])
  PROVE  TreeState(e, t) = TreeState(d, t) /\ GeneratedState(e, t) = GeneratedState(d, t)
<1>1. \A rel \in Cells : Cell(e, rel, Fold[t]) = Cell(d, rel, Fold[t])
  BY CellIn
<1>2. ASSUME NEW rel \in {"trees", "slots", "predicates", "compiled", "partitions", "assertions"}
      PROVE  TreeRows(e, rel, t) = TreeRows(d, rel, t)
  <2>1. rel \in Cells /\ \A r : Owner(rel, r) = Fold[r.t]
    BY RelationsAreCells DEF Owner
  <2>2. \A r : r.t = t => (r \in e[rel] <=> r \in d[rel])
    BY <1>1, <2>1 DEF Cell
  <2>3. TreeRows(e, rel, t) = {r \in e[rel] : r.t = t} /\ TreeRows(d, rel, t) = {r \in d[rel] : r.t = t}
    BY SelectTree DEF TreeRows
  <2> QED BY <2>2, <2>3
<1>3. ASSUME NEW rel \in {"tables", "macros", "rows"}
      PROVE  Entry(e, rel, Fold[t]) = Entry(d, rel, Fold[t])
  BY <1>1, EntryIsCell, RelationsAreCells
<1> QED BY <1>2, <1>3 DEF TreeState, GeneratedState

\* A call answers "ok" by its COMMIT and by nothing else.
LEMMA CommittedCommits ==
  ASSUME TypeOK, Answered, [Next]_vars, NEW s \in Session, Committed(s)
  PROVE  Commit(s)
<1> USE DEF TypeOK, Committed
<1>1. pc[s] = "run" /\ result[s] # "ok"
  BY DEF Answered, Resting
<1>2. ASSUME NEW t \in Session,
             BeginExplicit(t) \/ EndExplicit(t) \/ ChangeSource(t) \/ EditStored(t) \/ SetOption(t)
             \/ VerbBind(t) \/ Unbind(t) \/ VerbInit(t) \/ EndScan(t) \/ BeginTransaction(t) \/ RunStatement(t)
             \/ RequireAutoCommit(t) \/ CompileStatements(t) \/ RollBack(t) \/ CommitFails(t)
      PROVE  result'[s] # "ok"
  BY <1>1, <1>2 DEF BeginExplicit, EndExplicit, ChangeSource, EditStored, SetOption, VerbBind, Unbind, VerbInit, EndScan,
                    BeginTransaction, RunStatement, RequireAutoCommit, CompileStatements, RollBack, CommitFails, Return, Idle
<1>3. ASSUME NEW t \in Session, Commit(t) PROVE t = s
  BY <1>1, <1>3 DEF Commit
<1>4. CASE Crash
  BY <1>4 DEF Crash
<1>5. CASE UNCHANGED vars
  BY <1>1, <1>5 DEF vars
<1> QED BY <1>2, <1>3, <1>4, <1>5 DEF Next, Step

\* What a session's COMMIT makes of the committed database.
LEMMA CommitTurns ==
  ASSUME TypeOK, Planned, NEW s \in Session, Commit(s)
  PROVE  Within(db, db', Fold[call[s].t]) /\ CellOf(db', Fold[call[s].t]) = CellOf(view[s], Fold[call[s].t])
<1>1. pc[s] = "run" /\ todo[s] = <<>> /\ db' = Merge(db, base[s], view[s])
  BY DEF Commit
<1>2. call[s] \in Calls[s] /\ Running(db, pio, call[s], <<>>, tx[s], base[s], view[s], temp[s])
  BY <1>1 DEF Planned, Plan
<1>3. DOMAIN base[s] = Relation
  BY DEF TypeOK
<1>4. Within(base[s], view[s], Fold[call[s].t]) /\ CellOf(base[s], Fold[call[s].t]) = CellOf(db, Fold[call[s].t])
  BY <1>2, <1>3, SessionRunsOut
<1> QED BY <1>1, <1>4, MergeWithin

\* A verb changes its own tree and no other registered one, neither a tree LIKE it
\* nor one whose name differs by case, whatever other sessions commit meanwhile.
THEOREM VerbsKeepToTheirTree == ASSUME Apart PROVE Spec => OthersUntouched
<1>1. TypeOK /\ Answered /\ Planned /\ [Next]_vars =>
        [\A s \in Session : Committed(s) =>
           \A q \in db["trees"] : q.t # call[s].t =>
             TreeState(db', q.t) = TreeState(db, q.t) /\ GeneratedState(db', q.t) = GeneratedState(db, q.t)]_vars
  <2> SUFFICES ASSUME TypeOK, Answered, Planned, [Next]_vars, NEW s \in Session, Committed(s),
                      NEW q \in db["trees"], q.t # call[s].t
               PROVE  TreeState(db', q.t) = TreeState(db, q.t) /\ GeneratedState(db', q.t) = GeneratedState(db, q.t)
    OBVIOUS
  <2>1. Commit(s)
    BY CommittedCommits
  <2>2. Within(db, db', Fold[call[s].t])
    BY <2>1, CommitTurns
  <2>3. call[s] \in Calls[s] /\ Running(db, pio, call[s], todo[s], tx[s], base[s], view[s], temp[s])
    BY <2>1 DEF Commit, Planned, Plan
  <2>4. Fold[q.t] # Fold[call[s].t]
    BY <2>3, RunningAlone DEF Planned
  <2> QED BY <2>2, <2>4, OtherCells, SameTree
<1> QED BY <1>1, TypeCorrect, InitAnswered, NextAnswered, PlannedAlways, PTL DEF Spec, OthersUntouched

-----------------------------------------------------------------------------
(* What a COMMIT makes of its tree.                                        *)

\* No source changes while a list runs: the one session there is is busy, or nobody
\* changes any.
Settled == Lone \/ MaxEdits = 0

\* Then a transaction reads the sources that are committed.
Sourced == \A s \in Session : pc[s] = "run" => base[s]["source"] = db["source"]

LEMMA NextSourced == Settled /\ TypeOK /\ Planned /\ Sourced /\ [Next]_vars => Sourced'
<1> SUFFICES ASSUME Settled, TypeOK, Planned, Sourced, [Next]_vars, NEW r \in Session, pc'[r] = "run"
             PROVE  base'[r]["source"] = db'["source"]
  BY DEF Sourced
<1> USE DEF TypeOK
<1>1. ASSUME NEW s \in Session, ChangeSource(s) PROVE FALSE
  <2>1. pc' = pc /\ Resting(s) /\ edits < MaxEdits
    BY <1>1 DEF ChangeSource
  <2>2. s # r
    BY <2>1 DEF Resting
  <2>3. MaxEdits # 0
    BY <2>1
  <2> QED BY <2>2, <2>3 DEF Settled, Lone
<1>2. ASSUME NEW s \in Session, EditStored(s) PROVE base'[r]["source"] = db'["source"]
  <2>1. pc' = pc /\ base' = base /\ db'["source"] = db["source"]
    BY <1>2 DEF EditStored, local, Relation
  <2> QED BY <2>1 DEF Sourced
<1>3. ASSUME NEW s \in Session, BeginTransaction(s) PROVE base'[r]["source"] = db'["source"]
  <2>1. CASE r = s
    BY <1>3, <2>1 DEF BeginTransaction
  <2>2. CASE r # s
    BY <1>3, <2>2 DEF BeginTransaction, Sourced
  <2> QED BY <2>1, <2>2
<1>4. ASSUME NEW s \in Session, Commit(s) PROVE base'[r]["source"] = db'["source"]
  <2>1. r # s /\ pc[r] = "run" /\ base'[r] = base[r]
    BY <1>4 DEF Commit, Release
  <2>2. db'["source"] = db["source"]
    BY <1>4, CommitTurns DEF Within
  <2> QED BY <2>1, <2>2 DEF Sourced
<1>5. ASSUME NEW s \in Session, RollBack(s) \/ CommitFails(s) PROVE base'[r]["source"] = db'["source"]
  <2>1. r # s /\ pc[r] = "run" /\ base'[r] = base[r] /\ db' = db
    BY <1>5 DEF RollBack, CommitFails, Return, Release
  <2> QED BY <2>1 DEF Sourced
<1>6. ASSUME NEW s \in Session,
             \/ BeginExplicit(s) \/ EndExplicit(s) \/ SetOption(s) \/ VerbBind(s) \/ Unbind(s) \/ VerbInit(s)
             \/ EndScan(s) \/ RequireAutoCommit(s) \/ CompileStatements(s) \/ RunStatement(s)
      PROVE  base'[r]["source"] = db'["source"]
  <2>1. db' = db /\ base' = base
    BY <1>6 DEF BeginExplicit, EndExplicit, SetOption, VerbBind, Unbind, VerbInit, EndScan, RequireAutoCommit,
                CompileStatements, RunStatement, local
  <2>2. pc[r] = "run"
    BY <1>6 DEF BeginExplicit, EndExplicit, SetOption, VerbBind, Unbind, VerbInit, EndScan, RequireAutoCommit,
                CompileStatements, RunStatement, Return, Idle
  <2> QED BY <2>1, <2>2 DEF Sourced
<1>7. CASE Crash
  BY <1>7 DEF Crash
<1>8. CASE UNCHANGED vars
  BY <1>8 DEF vars, local, Sourced
<1> QED BY <1>1, <1>2, <1>3, <1>4, <1>5, <1>6, <1>7, <1>8 DEF Next, Step

LEMMA SourcedAlways ==
  ASSUME Apart, Settled
  PROVE  Spec => []Sourced
<1>1. Init => Sourced
  BY DEF Init, Sourced
<1> QED BY <1>1, TypeCorrect, PlannedAlways, NextSourced, PTL DEF Spec

\* The rows a table's name finds are its cell's.
LEMMA SameStored ==
  ASSUME NEW d, NEW e, NEW m, CellOf(e, m) = CellOf(d, m)
  PROVE  Stored(e, m) = Stored(d, m)
<1>1. /\ Cell(e, "rows", m) = Cell(d, "rows", m)
      /\ Cell(e, "tables", m) = Cell(d, "tables", m)
  BY CellIn, RelationsAreCells
<1>2. \A r : r.m = m => (r \in e["rows"] <=> r \in d["rows"])
  BY <1>1 DEF Cell, Owner
<1>3. \A v : [m |-> m, by |-> v] \in e["tables"] <=> [m |-> m, by |-> v] \in d["tables"]
  BY <1>1 DEF Cell, Owner
<1> QED BY <1>2, <1>3 DEF Stored

LEMMA TidyStored ==
  ASSUME NEW d, NEW m, Tidy(CellOf(d, m))
  PROVE  Stored(d, m) = CellOf(d, m)["rows"]
<1> DEFINE C == CellOf(d, m)
<1>1. C["rows"] = Cell(d, "rows", m) /\ C["trees"] = Cell(d, "trees", m)
  BY CellIn, RelationsAreCells
<1>2. CASE C["rows"] = {}
  <2>1. \A r \in d["rows"] : r.m # m
    BY <1>1, <1>2 DEF Cell, Owner
  <2> QED BY <1>2, <2>1 DEF Stored
<1>3. CASE C["rows"] # {}
  <2>1. C # NoCell
    BY <1>3, RelationsAreCells DEF NoCell
  <2>2. PICK q : C["trees"] = {q} /\ TidyTree(C, q)
    BY <2>1 DEF Tidy
  <2>3. Stores(q) /\ Fold[q.t] = m
    BY <1>1, <1>3, <2>2 DEF TidyTree, RowsTidy, Cell, Owner
  <2> QED BY <2>2, <2>3, TidyTable
<1> QED BY <1>2, <1>3

\* A COMMIT does to the committed database what its call's list did to the one its
\* transaction began from, and no other tree is in that cell.
LEMMA CommitWorks ==
  ASSUME TypeOK, Planned, Sourced, NEW s \in Session, Commit(s)
  PROVE  LET m == Fold[call[s].t] IN
         /\ call[s] \in Calls[s] /\ Within(db, db', m) /\ Tidy(CellOf(db', m))
         /\ Works(db, db', call[s], tx[s])
         /\ \A q \in db["trees"] : Fold[q.t] = m => q.t = call[s].t
<1>0. /\ Within(db, db', Fold[call[s].t])
      /\ CellOf(db', Fold[call[s].t]) = CellOf(view[s], Fold[call[s].t])
  BY CommitTurns
<1> DEFINE c == call[s]
<1> DEFINE m == Fold[c.t]
<1> DEFINE b == base[s]
<1> DEFINE v == view[s]
<1> DEFINE n == tx[s]
<1>1. pc[s] = "run" /\ todo[s] = <<>>
  BY DEF Commit
<1>2. c \in Calls[s] /\ Running(db, pio, c, <<>>, n, b, v, temp[s])
  BY <1>1 DEF Planned, Plan
<1>3. DOMAIN b = Relation /\ b["source"] = db["source"]
  BY <1>1 DEF TypeOK, Sourced
<1>4. Within(b, v, m) /\ Tidy(CellOf(v, m)) /\ CellOf(b, m) = CellOf(db, m) /\ Works(b, v, c, n)
  BY <1>2, <1>3, SessionRunsOut
<1>5. Within(db, db', m) /\ CellOf(db', m) = CellOf(v, m)
  BY <1>0
<1>6. \A q \in db["trees"] : Fold[q.t] = m => q.t = c.t
  <2>1. \A k : Tidy(CellOf(db, k))
    BY DEF Planned
  <2> HIDE DEF b, v, n
  <2> TAKE q \in db["trees"]
  <2> HAVE Fold[q.t] = m
  <2> QED BY <1>2, <2>1, RunningAlone
<1>7. \A src : Contents(b, src) = Contents(db, src)
  BY <1>3, ContentsStay
<1>8. c.verb = "tree_check" => Checking(db, db', c.t)
  <2> SUFFICES ASSUME c.verb = "tree_check" PROVE Checking(db, db', c.t)
    OBVIOUS
  <2>1. Checking(b, v, c.t)
    BY <1>4 DEF Works
  <2>2. \A q \in CellOf(db, m)["trees"] : Reads(db', q) = Reads(v, q)
    <3> TAKE q \in CellOf(db, m)["trees"]
    <3>1. Fold[q.t] = m
      BY CellIn, RelationsAreCells DEF Cell, Owner
    <3>2. Stored(db', m) = Stored(v, m)
      BY <1>5, SameStored
    <3>3. v["source"] = db'["source"]
      BY <1>3, <1>4, <1>5 DEF Within
    <3> QED BY <3>1, <3>2, <3>3, ContentsStay DEF Reads
  <2>3. CellOf(b, Fold[c.t]) = CellOf(db, Fold[c.t]) /\ CellOf(v, Fold[c.t]) = CellOf(db', Fold[c.t])
    BY <1>4, <1>5
  <2> DEFINE C == CellOf(db, Fold[c.t])
  <2> HIDE DEF b, v, c
  <2> QED BY <2>1, <2>2, <2>3 DEF Checking, m
<1>9. Works(db, db', c, n)
  <2> HIDE DEF b, v, n, c, m
  <2> QED BY <1>4, <1>5, <1>7, <1>8 DEF Works, m
<1> QED BY <1>2, <1>4, <1>5, <1>6, <1>9

\* Insert, replace and delete touch the roots they name and no other row, as long as
\* the sources they read stay.
THEOREM IngestKeepsToItsRoots == ASSUME Apart, Settled PROVE Spec => IngestIsPartitionWise
<1>1. TypeOK /\ Answered /\ Planned /\ Sourced /\ [Next]_vars =>
        [\A s \in Session : Committed(s) =>
           LET old == Held(db, call[s].t)  new == Held(db', call[s].t) IN
           /\ Verb(s) = "tree_insert"  => new = old \cup Contents(db, call[s].src)
           /\ Verb(s) = "tree_replace" =>
                new = Outside(old, Roots(Contents(db, call[s].src))) \cup Contents(db, call[s].src)
           /\ Verb(s) = "tree_delete"  => new = Outside(old, call[s].roots)]_vars
  <2> SUFFICES ASSUME TypeOK, Answered, Planned, Sourced, [Next]_vars, NEW s \in Session, Committed(s)
               PROVE  LET old == Held(db, call[s].t)  new == Held(db', call[s].t) IN
                      /\ Verb(s) = "tree_insert"  => new = old \cup Contents(db, call[s].src)
                      /\ Verb(s) = "tree_replace" =>
                           new = Outside(old, Roots(Contents(db, call[s].src))) \cup Contents(db, call[s].src)
                      /\ Verb(s) = "tree_delete"  => new = Outside(old, call[s].roots)
    OBVIOUS
  <2> DEFINE c == call[s]
  <2> DEFINE m == Fold[c.t]
  <2> DEFINE C == CellOf(db, m)
  <2> DEFINE D == CellOf(db', m)
  <2> DEFINE parts == Contents(db, c.src)
  <2>1. Commit(s)
    BY CommittedCommits
  <2>2. Works(db, db', c, tx[s]) /\ Tidy(D)
    BY <2>1, CommitWorks
  <2>3. Tidy(C)
    BY DEF Planned
  <2>4. Held(db, c.t) = Pairs(C["rows"]) /\ Held(db', c.t) = Pairs(D["rows"])
    BY <2>2, <2>3, TidyStored DEF Held, Pairs
  <2>5. Pairs(parts) = parts
    BY DEF Pairs, Contents
  <2> HIDE DEF C, D, parts
  <2>6. /\ c.verb = "tree_insert"  => Inserting(C, D, c.t, parts, tx[s])
        /\ c.verb = "tree_replace" => Replacing(C, D, c.t, parts, tx[s])
        /\ c.verb = "tree_delete"  => Deleting(C, D, c.roots)
    BY <2>2 DEF Works, C, D, parts
  <2>7. \A held, keys : Outside(held, keys) = Keeping(held, keys)
    BY DEF Outside, Keeping
  <2> QED BY <2>4, <2>5, <2>6, <2>7 DEF Inserting, Grew, Replacing, Deleting, Verb, parts
<1> QED BY <1>1, TypeCorrect, InitAnswered, NextAnswered, PlannedAlways, SourcedAlways, PTL
     DEF Spec, IngestIsPartitionWise

\* A partition on file, in its tree's cell.
LEMMA PartitionIn ==
  ASSUME NEW d, \A m : Tidy(CellOf(d, m)), NEW p \in d["partitions"]
  PROVE  LET C == CellOf(d, Fold[p.t]) IN
         /\ p \in C["partitions"] /\ p.epoch \in Nat
         /\ \E q \in d["trees"] : q.t = p.t /\ C["trees"] = {q} /\ TidyTree(C, q)
         /\ \A z \in C["partitions"] : z.t = p.t /\ (z.root = p.root => z = p)
<1> DEFINE C == CellOf(d, Fold[p.t])
<1>1. "partitions" \in Cells /\ Owner("partitions", p) = Fold[p.t]
  BY RelationsAreCells DEF Owner
<1>2. PICK q \in d["trees"] : C["trees"] = {q} /\ TidyTree(C, q) /\ p \in C["partitions"]
  BY <1>1, RowIn
<1> HIDE DEF C
<1>3. \A z \in C["partitions"] : z.t = q.t /\ OnFile(z)
  BY <1>2 DEF TidyTree, Shaped, TreeKept
<1>4. \A z \in C["partitions"] : z.root = p.root => z = p
  BY <1>2 DEF TidyTree, RowsTidy, OnePerRoot
<1> QED BY <1>2, <1>3, <1>4 DEF OnFile, C

\* What a call makes of the epochs of its tree.
LEMMA WorksOnEpochs ==
  ASSUME NEW d, NEW e, NEW c, NEW n, Works(d, e, c, n),
         c.verb \in {"tree_ddl_create", "tree_ddl_drop", "tree_ddl_alter", "tree_insert", "tree_replace", "tree_delete",
                     "tree_check"},
         NEW p \in CellOf(d, Fold[c.t])["partitions"], p.epoch \in Nat,
         \A z \in CellOf(d, Fold[c.t])["partitions"] : z.root = p.root => z = p,
         NEW q \in CellOf(e, Fold[c.t])["partitions"], q.root = p.root
  PROVE  q.epoch = p.epoch + (IF c.verb = "tree_replace" /\ p.root \in Roots(Contents(d, c.src)) THEN 1 ELSE 0)
<1> DEFINE C == CellOf(d, Fold[c.t])
<1> DEFINE D == CellOf(e, Fold[c.t])
<1> DEFINE parts == Contents(d, c.src)
<1>0. NoCell["partitions"] = {}
  BY RelationsAreCells DEF NoCell
<1>1. /\ c.verb = "tree_ddl_create" => C = NoCell
      /\ c.verb = "tree_ddl_drop"   => D = NoCell
      /\ c.verb = "tree_ddl_alter"  => Altering(C, D)
      /\ c.verb = "tree_insert"     => Inserting(C, D, c.t, parts, n)
      /\ c.verb = "tree_replace"    => Replacing(C, D, c.t, parts, n)
      /\ c.verb = "tree_delete"     => Deleting(C, D, c.roots)
      /\ c.verb = "tree_check"      => Dated(C, D)
  BY DEF Works, Checking
<1>2. /\ p \in C["partitions"] /\ q \in D["partitions"]
      /\ \A z \in C["partitions"] : z.root = p.root => z = p
  OBVIOUS
<1> HIDE DEF C, D, parts
<1>3. \A epochs : q \in PartsOnFile(c.t, parts, epochs, n) =>
        q.root \in Roots(parts) /\ q.epoch = NextEpoch(epochs, q.root)
  <2> TAKE epochs
  <2> HAVE q \in PartsOnFile(c.t, parts, epochs, n)
  <2>1. PICK w \in parts : q = Stamp(NewPart(c.t, w.root, w.part.n, NextEpoch(epochs, w.root)), n)
    BY DEF PartsOnFile
  <2>2. q.root = w.root /\ q.epoch = NextEpoch(epochs, w.root)
    BY <2>1, StampedPart
  <2> QED BY <2>2 DEF Roots
<1>4. CASE c.verb \in {"tree_ddl_create", "tree_ddl_drop"}
  BY <1>0, <1>1, <1>2, <1>4
<1>5. CASE c.verb = "tree_ddl_alter"
  BY <1>1, <1>2, <1>5 DEF Altering
<1>6. CASE c.verb = "tree_insert"
  <2>1. q \in C["partitions"] \/ q \in PartsOnFile(c.t, parts, {}, n)
    BY <1>1, <1>2, <1>6 DEF Inserting, Grew
  <2>2. p.root \notin Roots(parts)
    BY <1>1, <1>2, <1>6 DEF Inserting
  <2>3. q = p
    BY <1>2, <1>3, <2>1, <2>2
  <2> QED BY <1>6, <2>3
<1>7. CASE c.verb = "tree_replace"
  <2> DEFINE gone == {z \in C["partitions"] : z.root \in Roots(parts)}
  <2> DEFINE E == Epochs(gone)
  <2>1. q \in Keeping(C["partitions"], Roots(parts)) \/ q \in PartsOnFile(c.t, parts, E, n)
    BY <1>1, <1>2, <1>7 DEF Replacing
  <2> HIDE DEF E
  <2>2. CASE p.root \notin Roots(parts)
    <3>1. q \in C["partitions"]
      BY <1>3, <2>1, <2>2 DEF Keeping
    <3> QED BY <1>2, <2>2, <3>1 DEF parts
  <2>3. CASE p.root \in Roots(parts)
    <3>1. q \in PartsOnFile(c.t, parts, E, n)
      BY <2>1, <2>3 DEF Keeping
    <3>2. q.epoch = NextEpoch(E, p.root)
      BY <1>3, <3>1
    <3> DEFINE r == [root |-> p.root, epoch |-> p.epoch]
    <3>3. r \in E /\ r.root = p.root /\ r.epoch = p.epoch
      BY <1>2, <2>3 DEF E, Epochs
    <3>4. \A x \in E : x.root = p.root => x = r
      BY <1>2 DEF E, Epochs
    <3> HIDE DEF r
    <3>5. (CHOOSE x \in E : x.root = p.root) = r /\ p.root \in Roots(E)
      BY <3>3, <3>4 DEF Roots
    <3>6. q.epoch = p.epoch + 1
      BY <3>2, <3>3, <3>5 DEF NextEpoch
    <3> QED BY <1>7, <2>3, <3>6 DEF parts
  <2> QED BY <2>2, <2>3
<1>8. CASE c.verb = "tree_delete"
  BY <1>1, <1>2, <1>8 DEF Deleting
<1>9. CASE c.verb = "tree_check"
  <2>1. PICK z \in C["partitions"] : SamePart(q, z)
    BY <1>1, <1>2, <1>9 DEF Dated
  <2>2. z = p /\ q.epoch = p.epoch
    BY <1>2, <2>1 DEF SamePart
  <2> QED BY <1>9, <2>2
<1> QED BY <1>4, <1>5, <1>6, <1>7, <1>8, <1>9

\* A stored partition's epoch is the number of times it was replaced, plus one: no
\* other verb, of any session, moves it.
THEOREM EpochsAreReplacements == ASSUME Apart, Settled PROVE Spec => EpochsCountReplacements
<1>1. TypeOK /\ Answered /\ Planned /\ Sourced /\ Planned' /\ [Next]_vars =>
        [\A s \in Session : Committed(s) =>
           \A p \in db["partitions"], q \in db'["partitions"] :
             p.t = q.t /\ p.root = q.root =>
               q.epoch = p.epoch + (IF Verb(s) = "tree_replace" /\ p.t = call[s].t
                                       /\ p.root \in Roots(Contents(db, call[s].src)) THEN 1 ELSE 0)]_vars
  <2> SUFFICES ASSUME TypeOK, Answered, Planned, Sourced, Planned', [Next]_vars, NEW s \in Session, Committed(s),
                      NEW p \in db["partitions"], NEW q \in db'["partitions"], p.t = q.t, p.root = q.root
               PROVE  q.epoch = p.epoch + (IF Verb(s) = "tree_replace" /\ p.t = call[s].t
                                              /\ p.root \in Roots(Contents(db, call[s].src)) THEN 1 ELSE 0)
    OBVIOUS
  <2> DEFINE c == call[s]
  <2> DEFINE C == CellOf(db, Fold[p.t])
  <2> DEFINE D == CellOf(db', Fold[p.t])
  <2>1. Commit(s)
    BY CommittedCommits
  <2>2. /\ c \in Calls[s] /\ Within(db, db', Fold[c.t]) /\ Works(db, db', c, tx[s])
        /\ \A r \in db["trees"] : Fold[r.t] = Fold[c.t] => r.t = c.t
    BY <2>1, CommitWorks
  <2>3. /\ \A m : Tidy(CellOf(db, m))
        /\ \A m : Tidy(CellOf(db', m))
    BY DEF Planned
  <2>4. /\ p \in C["partitions"] /\ p.epoch \in Nat
        /\ \E r \in db["trees"] : r.t = p.t
        /\ \A z \in C["partitions"] : z.t = p.t /\ (z.root = p.root => z = p)
    BY <2>3, PartitionIn
  <2>5. q \in D["partitions"]
    BY <2>3, PartitionIn
  <2>6. c.verb \in {"tree_ddl_create", "tree_ddl_drop", "tree_ddl_alter", "tree_insert", "tree_replace", "tree_delete",
                    "tree_check"}
    BY <2>2, CallsAssumption
  <2>7. CASE Fold[p.t] = Fold[c.t]
    <3>1. p.t = c.t
      BY <2>2, <2>4, <2>7
    <3>2. /\ p \in CellOf(db, Fold[c.t])["partitions"]
          /\ \A z \in CellOf(db, Fold[c.t])["partitions"] : z.root = p.root => z = p
          /\ q \in CellOf(db', Fold[c.t])["partitions"]
      BY <2>4, <2>5, <2>7
    <3> HIDE DEF c
    <3>3. q.epoch = p.epoch + (IF c.verb = "tree_replace" /\ p.root \in Roots(Contents(db, c.src)) THEN 1 ELSE 0)
      BY <2>2, <2>4, <2>6, <3>2, WorksOnEpochs
    <3> QED BY <3>1, <3>3 DEF Verb, c
  <2>8. CASE Fold[p.t] # Fold[c.t]
    <3>1. D = C
      BY <2>2, <2>8, OtherCells
    <3>2. q = p /\ p.t # c.t
      BY <2>4, <2>5, <2>8, <3>1
    <3> QED BY <2>4, <3>2
  <2> QED BY <2>7, <2>8
<1> QED BY <1>1, TypeCorrect, InitAnswered, NextAnswered, PlannedAlways, SourcedAlways, PTL
     DEF Spec, EpochsCountReplacements

\* No two claims of a tree share an artifact.
LEMMA ClaimsDiffer ==
  ASSUME NEW q, NEW slots, NEW a \in Checked(q, slots), NEW b \in Checked(q, slots), a.art = b.art
  PROVE  a.defect = b.defect
<1>1. OverrideSlots(slots) \subseteq {"SIZE", "PARENT", "CHILDREN", "NEXT"}
  BY DEF OverrideSlots, OSlot
<1>2. /\ OArtifact["SIZE"] = "assert_o_size" /\ OArtifact["PARENT"] = "assert_o_parent"
      /\ OArtifact["CHILDREN"] = "assert_o_children" /\ OArtifact["NEXT"] = "assert_o_next"
  BY DEF OArtifact
<1>3. \A x \in Checked(q, slots) :
        \/ x = [art |-> "assert_p13", defect |-> "p13"]
        \/ x = [art |-> "assert_order", defect |-> "order"]
        \/ \E o \in OverrideSlots(slots) : x = [art |-> OArtifact[o], defect |-> o]
  BY DEF Checked
<1>4. \A x \in Checked(q, slots) :
        \/ x.art = "assert_p13" /\ x.defect = "p13"
        \/ x.art = "assert_order" /\ x.defect = "order"
        \/ x.art = "assert_o_size" /\ x.defect = "SIZE"
        \/ x.art = "assert_o_parent" /\ x.defect = "PARENT"
        \/ x.art = "assert_o_children" /\ x.defect = "CHILDREN"
        \/ x.art = "assert_o_next" /\ x.defect = "NEXT"
  <2> TAKE x \in Checked(q, slots)
  <2>1. CASE x = [art |-> "assert_p13", defect |-> "p13"] \/ x = [art |-> "assert_order", defect |-> "order"]
    BY <2>1
  <2>2. CASE \E o \in OverrideSlots(slots) : x = [art |-> OArtifact[o], defect |-> o]
    <3>1. PICK o \in {"SIZE", "PARENT", "CHILDREN", "NEXT"} : x = [art |-> OArtifact[o], defect |-> o]
      BY <1>1, <2>2
    <3>2. x.art = OArtifact[o] /\ x.defect = o
      BY <3>1
    <3> QED BY <1>2, <3>2
  <2> QED BY <1>3, <2>1, <2>2
<1> QED BY <1>4

\* A check that tells the claims A of a tidy tree q leaves one verdict on each.
LEMMA ToldEach ==
  ASSUME NEW q, NEW C, TidyTree(C, q), NEW D, NEW W, Told(C, D, Checked(q, SlotsIn(C)), W)
  PROVE  /\ \A x, y \in D["assertions"] : x.art = y.art => x = y
         /\ {[art |-> x.art, status |-> x.status] : x \in D["assertions"]} =
              {[art |-> a.art, status |-> Says(W, a.defect)] : a \in Checked(q, SlotsIn(C))}
<1> DEFINE A == Checked(q, SlotsIn(C))
<1>1. \A r \in C["assertions"] : r.art \in Arts(A)
  BY DEF TidyTree, VerdictsTidy, Claimed, Arts
<1>2. \A a, b \in A : a.art = b.art => a.defect = b.defect
  BY ClaimsDiffer
<1> HIDE DEF A
<1>3. Told(C, D, A, W)
  BY DEF A
<1>4. \A r \in D["assertions"] : \E a \in A : r.art = a.art /\ r.status = Says(W, a.defect)
  BY <1>1, <1>3 DEF Told
<1>5. \A r \in D["assertions"] : r.art \in Arts(A)
  BY <1>4 DEF Arts
<1>6. \A x, y \in D["assertions"] : x.art = y.art => x = y
  BY <1>3, <1>5 DEF Told
<1>7. ASSUME NEW a \in A
      PROVE  \E r \in D["assertions"] : r.art = a.art /\ r.status = Says(W, a.defect)
  <2>1. PICK r \in D["assertions"] : r.art = a.art
    BY <1>3 DEF Told
  <2>2. PICK b \in A : r.art = b.art /\ r.status = Says(W, b.defect)
    BY <1>4
  <2> QED BY <1>2, <2>1, <2>2
<1>8. {[art |-> x.art, status |-> x.status] : x \in D["assertions"]} =
        {[art |-> a.art, status |-> Says(W, a.defect)] : a \in A}
  BY <1>4, <1>7
<1> QED BY <1>6, <1>8 DEF A

\* The partitions' verdicts, taken together, are the tree's.
LEMMA FreshAgrees ==
  ASSUME NEW D, NEW q, TidyTree(D, q), Stores(q), Fresh(D, D["rows"])
  PROVE  Says(D["rows"], "p13") = "ok" <=> \A p \in D["partitions"] : p.ok
<1>1. \A r \in D["rows"] : \E p \in D["partitions"] : r.root = p.root
  BY DEF TidyTree, RowsTidy
<1>2. \A p \in D["partitions"] : p.ok <=> \A r \in D["rows"] : r.root = p.root => "p13" \notin r.part.bad
  BY DEF Fresh, Seen
<1>3. Says(D["rows"], "p13") = "ok" <=> \A r \in D["rows"] : "p13" \notin r.part.bad
  BY DEF Says
<1>4. ASSUME \A p \in D["partitions"] : p.ok, NEW r \in D["rows"] PROVE "p13" \notin r.part.bad
  BY <1>1, <1>2, <1>4
<1>5. ASSUME \A r \in D["rows"] : "p13" \notin r.part.bad, NEW p \in D["partitions"] PROVE p.ok
  BY <1>2, <1>5
<1> QED BY <1>3, <1>4, <1>5

\* A check is of a tree that is there.
LEMMA CheckedTree ==
  ASSUME NEW d, \A m : Tidy(CellOf(d, m)), NEW p, NEW s \in Session, NEW c \in Calls[s], c.verb = "tree_check",
         NEW l, NEW n, NEW b, NEW v, NEW w, Running(d, p, c, l, n, b, v, w)
  PROVE  Registered(d, c.t)
<1> DEFINE m == Fold[c.t]
<1>1. PICK d0, p0 : Vouches(d0, p0, c, d, p)
  BY DEF Running
<1>2. Tidy(CellOf(d0, m)) /\ ~Compile(d0, p0, c).refused /\ CellOf(d0, m) = CellOf(d, m)
  BY <1>1 DEF Vouches
<1>3. Registered(d0, c.t)
  BY <1>2 DEF Compile, CompileCheck, HasContext, Refused
<1>4. TreeRow(d0, c.t).t = c.t /\ CellOf(d, m)["trees"] = {TreeRow(d0, c.t)}
  BY <1>2, <1>3, TidyReads
<1>5. CellOf(d, m)["trees"] \subseteq d["trees"]
  BY CellIn, RelationsAreCells DEF Cell
<1> QED BY <1>4, <1>5 DEF Registered

\* After a check every claim of the tree has one verdict, true of what the tree holds,
\* and the partitions' verdicts agree with the tree's.
THEOREM ChecksAreTrue == ASSUME Apart, Settled PROVE Spec => CheckTellsTheTruth
<1>1. TypeOK /\ Answered /\ Planned /\ Sourced /\ [Next]_vars =>
        [\A s \in Session : Committed(s) /\ Verb(s) = "tree_check" =>
           LET t == call[s].t
               q == TreeRow(db, t)
               after == TreeRows(db', "assertions", t)
           IN  /\ \A x \in after, y \in after : x.art = y.art => x = y
               /\ {[art |-> x.art, status |-> x.status] : x \in after} =
                    {[art |-> c.art, status |-> Judged(db', q, c.defect)] : c \in Checked(q, SlotsOf(db, t))}
               /\ Stores(q) =>
                    (Judged(db', q, "p13") = "ok" <=> \A p \in TreeRows(db', "partitions", t) : p.ok)]_vars
  <2> SUFFICES ASSUME TypeOK, Answered, Planned, Sourced, [Next]_vars,
                      NEW s \in Session, Committed(s), Verb(s) = "tree_check"
               PROVE  LET t == call[s].t
                          q == TreeRow(db, t)
                          after == TreeRows(db', "assertions", t)
                      IN  /\ \A x \in after, y \in after : x.art = y.art => x = y
                          /\ {[art |-> x.art, status |-> x.status] : x \in after} =
                               {[art |-> c.art, status |-> Judged(db', q, c.defect)] : c \in Checked(q, SlotsOf(db, t))}
                          /\ Stores(q) =>
                               (Judged(db', q, "p13") = "ok" <=> \A p \in TreeRows(db', "partitions", t) : p.ok)
    OBVIOUS
  <2> DEFINE e == db'
  <2> DEFINE call1 == call[s]
  <2> DEFINE t == call1.t
  <2> DEFINE q == TreeRow(db, t)
  <2> DEFINE C == CellOf(db, Fold[t])
  <2> DEFINE D == CellOf(e, Fold[t])
  <2> DEFINE W == Reads(e, q)
  <2>1. Commit(s)
    BY CommittedCommits
  <2>2. Works(db, db', call[s], tx[s]) /\ Tidy(CellOf(db', Fold[call[s].t])) /\ call[s].verb = "tree_check"
    BY <2>1, CommitWorks DEF Verb
  <2>3. Registered(db, call[s].t) /\ \A m : Tidy(CellOf(db, m))
    <3>1. \A m : Tidy(CellOf(db, m))
      BY DEF Planned
    <3>2. call[s] \in Calls[s] /\ Running(db, pio, call[s], todo[s], tx[s], base[s], view[s], temp[s])
      BY <2>1 DEF Commit, Planned, Plan
    <3> QED BY <2>2, <3>1, <3>2, CheckedTree
  <2>4. Checking(db, e, t) /\ Tidy(D)
    BY <2>2 DEF Works
  <2>5. Registered(db, t) /\ Tidy(C)
    BY <2>3
  <2> HIDE DEF e, call1
  <2>6. q.t = t /\ C["trees"] = {q} /\ TidyTree(C, q) /\ SlotsOf(db, t) = SlotsIn(C)
    BY <2>5, TidyReads
  <2>7. D["trees"] = {q} /\ Told(C, D, Checked(q, SlotsIn(C)), W) /\ (Stores(q) => Fresh(D, W))
    BY <2>4, <2>6 DEF Checking
  <2>8. TidyTree(D, q)
    BY <2>4, <2>7, TidyAgain, CellIn
  <2>9. /\ TreeRows(e, "assertions", t) = D["assertions"] /\ TreeRows(e, "partitions", t) = D["partitions"]
    <3>1. \A rel \in {"assertions", "partitions"} : \A r \in D[rel] : r.t = t
      BY <2>6, <2>8 DEF TidyTree, Shaped, TreeKept
    <3>2. \A rel \in {"assertions", "partitions"} : \A r : r \in D[rel] <=> r \in e[rel] /\ Fold[r.t] = Fold[t]
      BY CellIn, RelationsAreCells DEF Cell, Owner
    <3>3. \A rel : TreeRows(e, rel, t) = {r \in e[rel] : r.t = t}
      BY SelectTree DEF TreeRows
    <3> HIDE DEF D
    <3> QED BY <3>1, <3>2, <3>3
  <2>10. \A defect : Judged(e, q, defect) = Says(W, defect)
    BY DEF Judged, Says, Reads
  <2>11. Stores(q) => W = D["rows"]
    BY <2>4, <2>6, TidyStored DEF Reads
  <2> HIDE DEF C, D, W, q, t
  <2>12. /\ \A x, y \in D["assertions"] : x.art = y.art => x = y
         /\ {[art |-> x.art, status |-> x.status] : x \in D["assertions"]} =
              {[art |-> a.art, status |-> Says(W, a.defect)] : a \in Checked(q, SlotsIn(C))}
    BY <2>6, <2>7, ToldEach
  <2>13. Stores(q) => (Says(W, "p13") = "ok" <=> \A p \in D["partitions"] : p.ok)
    BY <2>7, <2>8, <2>11, FreshAgrees
  <2>14. {[art |-> a.art, status |-> Says(W, a.defect)] : a \in Checked(q, SlotsIn(C))} =
           {[art |-> a.art, status |-> Judged(e, q, a.defect)] : a \in Checked(q, SlotsOf(db, t))}
    BY <2>6, <2>10
  <2>15. /\ \A x, y \in TreeRows(e, "assertions", t) : x.art = y.art => x = y
         /\ {[art |-> x.art, status |-> x.status] : x \in TreeRows(e, "assertions", t)} =
              {[art |-> a.art, status |-> Judged(e, q, a.defect)] : a \in Checked(q, SlotsOf(db, t))}
         /\ Stores(q) => (Judged(e, q, "p13") = "ok" <=> \A p \in TreeRows(e, "partitions", t) : p.ok)
    BY <2>9, <2>10, <2>12, <2>13, <2>14
  <2> QED BY <2>15 DEF q, t, call1, e
<1> QED BY <1>1, TypeCorrect, InitAnswered, NextAnswered, PlannedAlways, SourcedAlways, PTL
     DEF Spec, CheckTellsTheTruth

=============================================================================
