----------------------------- MODULE MatchProofs -----------------------------
(***************************************************************************)
(* What is proved of LOAD and of tree_match for every value of the         *)
(* constants: any embedded files, readers, selectors, edits and verbs.     *)
(***************************************************************************)
EXTENDS MatchProperties, StatementLemmas

-----------------------------------------------------------------------------
(* The script.                                                             *)

Object == {"types", "spec", "tables", "rows", "macros"} \X (0 .. 10)
EmbeddedStatement ==
  [op : {"create", "ensure", "language", "setting", "parser"}, obj : Object, needs : SUBSET Object]

Types  == <<"types", 0>>
Specs  == <<"spec", 0>>
Tables == <<"tables", 1>>

Makes(s) == {s[i].obj : i \in DOMAIN s}

\* Nothing in s needs what a later statement of s makes, when there is given.
InOrder(s, given) == \A i \in DOMAIN s : s[i].needs \subseteq given \cup {s[j].obj : j \in 1 .. i - 1}

\* Statements that are not CREATE TYPE and make no type.
Repeatable(s) == \A i \in DOMAIN s : s[i].op # "create" /\ s[i].obj \notin {Types, Specs}

\* Statements one behind the other.
LEMMA Behind ==
  ASSUME NEW S, NEW m \in S
  PROVE  /\ <<>> \o <<m>> = <<m>>
         /\ \A s \in Seq(S) : s \o <<>> = s
         /\ \A a \in S : LET s == <<a>> \o <<m>> IN s \in Seq(S) /\ Len(s) = 2 /\ s[1] = a /\ s[2] = m
         /\ \A a, b \in S : LET s == <<a, b>> \o <<m>> IN
              s \in Seq(S) /\ Len(s) = 3 /\ s[1] = a /\ s[2] = b /\ s[3] = m
         /\ \A a, b, c \in S : LET s == <<a, b, c>> \o <<m>> IN
              s \in Seq(S) /\ Len(s) = 4 /\ s[1] = a /\ s[2] = b /\ s[3] = c /\ s[4] = m
<1>1. <<>> \o <<m>> = <<m>> /\ \A s \in Seq(S) : s \o <<>> = s
  OBVIOUS
<1>2. \A a \in S : LET s == <<a>> \o <<m>> IN s \in Seq(S) /\ Len(s) = 2 /\ s[1] = a /\ s[2] = m
  OBVIOUS
<1>3. \A a, b \in S : LET s == <<a, b>> \o <<m>> IN
        s \in Seq(S) /\ Len(s) = 3 /\ s[1] = a /\ s[2] = b /\ s[3] = m
  OBVIOUS
<1>4. \A a, b, c \in S : LET s == <<a, b, c>> \o <<m>> IN
        s \in Seq(S) /\ Len(s) = 4 /\ s[1] = a /\ s[2] = b /\ s[3] = c /\ s[4] = m
  OBVIOUS
<1> QED BY <1>1, <1>2, <1>3, <1>4

LEMMA MakesStatements ==
  ASSUME NEW op \in {"create", "ensure", "language", "setting", "parser"},
         NEW what \in {"types", "spec", "tables", "rows", "macros"}, NEW f \in 0 .. 10, NEW needs \in SUBSET Object
  PROVE  /\ Make(op, what, f, needs) \in EmbeddedStatement /\ Make(op, what, f, needs).op = op
         /\ Make(op, what, f, needs).obj = <<what, f>> /\ Make(op, what, f, needs).needs = needs
BY DEF Make, EmbeddedStatement, Object

\* The file of the types.
LEMMA FirstFile ==
  LET s == Statements(0) IN
  /\ s \in Seq(EmbeddedStatement) /\ Len(s) = 3
  /\ s[1] = Make("create", "types", 0, {}) /\ s[2] = Make("create", "spec", 0, {Types})
  /\ s[3] = Make("ensure", "macros", 0, {})
<1> DEFINE a == Make("create", "types", 0, {})
<1> DEFINE b == Make("create", "spec", 0, {Types})
<1> DEFINE m == Make("ensure", "macros", 0, {})
<1>1. a \in EmbeddedStatement /\ b \in EmbeddedStatement /\ m \in EmbeddedStatement
  <2>1. {Types} \in SUBSET Object /\ {} \in SUBSET Object
    BY DEF Object, Types
  <2> QED BY <2>1, MakesStatements
<1>2. Statements(0) = (<<a, b>> \o <<m>>) \o <<>>
  BY DEF Statements, Types
<1> HIDE DEF a, b, m
<1>3. Statements(0) = <<a, b>> \o <<m>>
  BY <1>1, <1>2, Behind
<1>4. LET s == <<a, b>> \o <<m>> IN
      s \in Seq(EmbeddedStatement) /\ Len(s) = 3 /\ s[1] = a /\ s[2] = b /\ s[3] = m
  BY <1>1, Behind
<1>5. LET s == Statements(0) IN
      s \in Seq(EmbeddedStatement) /\ Len(s) = 3 /\ s[1] = a /\ s[2] = b /\ s[3] = m
  BY <1>3, <1>4
<1> QED BY <1>5 DEF a, b, m

\* A file behind it needs the tables at most, which the next one makes.
LEMMA FilesFollow ==
  ASSUME NEW f \in 1 .. 10
  PROVE  /\ Statements(f) \in Seq(EmbeddedStatement) /\ Repeatable(Statements(f))
         /\ InOrder(Statements(f), IF f = 1 THEN {} ELSE {Tables})
         /\ f = 1 => Tables \in Makes(Statements(f))
<1> DEFINE m == Make("ensure", "macros", f, {})
<1> DEFINE t == Make("ensure", "tables", 1, {})
<1> DEFINE l == Make("language", "rows", 1, {Tables})
<1> DEFINE d == Make("setting", "rows", 1, {Tables})
<1> DEFINE r == Make("ensure", "rows", 7, {Tables, <<"macros", 7>>})
<1> DEFINE p == Make("parser", "rows", 10, {Tables})
<1>1. {Tables} \in SUBSET Object /\ {Tables, <<"macros", 7>>} \in SUBSET Object /\ {} \in SUBSET Object
  BY DEF Object, Tables
<1>2. /\ m \in EmbeddedStatement /\ m.op = "ensure" /\ m.obj = <<"macros", f>> /\ m.needs = {}
      /\ t \in EmbeddedStatement /\ t.op = "ensure" /\ t.obj = Tables /\ t.needs = {}
      /\ l \in EmbeddedStatement /\ l.op = "language" /\ l.obj = <<"rows", 1>> /\ l.needs = {Tables}
      /\ d \in EmbeddedStatement /\ d.op = "setting" /\ d.obj = <<"rows", 1>> /\ d.needs = {Tables}
      /\ r \in EmbeddedStatement /\ r.op = "ensure" /\ r.obj = <<"rows", 7>> /\ r.needs = {Tables, <<"macros", 7>>}
      /\ p \in EmbeddedStatement /\ p.op = "parser" /\ p.obj = <<"rows", 10>> /\ p.needs = {Tables}
  BY <1>1, MakesStatements DEF Tables
<1>3. Statements(f) = ((IF f = 1 THEN <<t, l, d>> ELSE <<>>) \o <<m>>)
                      \o (IF f = 7 THEN <<r>> ELSE IF f = 10 THEN <<p>> ELSE <<>>)
  BY DEF Statements, Tables
<1> HIDE DEF m, t, l, d, r, p
<1>4. m.obj \notin {Types, Specs} /\ t.obj \notin {Types, Specs} /\ l.obj \notin {Types, Specs}
      /\ d.obj \notin {Types, Specs} /\ r.obj \notin {Types, Specs} /\ p.obj \notin {Types, Specs}
  BY <1>2 DEF Types, Specs, Tables
<1>5. CASE f = 1
  <2> DEFINE s == <<t, l, d>> \o <<m>>
  <2>1. Statements(f) = s
    <3>1. s \in Seq(EmbeddedStatement)
      BY <1>2, Behind
    <3> QED BY <1>2, <1>3, <1>5, <3>1, Behind
  <2>2. s \in Seq(EmbeddedStatement) /\ Len(s) = 4 /\ s[1] = t /\ s[2] = l /\ s[3] = d /\ s[4] = m
    BY <1>2, Behind
  <2> HIDE DEF s
  <2>3. \A i \in DOMAIN s : i = 1 \/ i = 2 \/ i = 3 \/ i = 4
    BY <2>2
  <2>4. Repeatable(s) /\ Tables \in Makes(s)
    <3>1. 1 \in DOMAIN s
      BY <2>2
    <3> QED BY <1>2, <1>4, <2>2, <2>3, <3>1 DEF Repeatable, Makes
  <2>5. InOrder(s, {})
    <3>1. \A i \in DOMAIN s : i # 1 => 1 \in 1 .. i - 1
      BY <2>2
    <3>2. /\ s[1].needs = {} /\ s[1].obj = Tables /\ s[4].needs = {}
          /\ s[2].needs = {Tables} /\ s[3].needs = {Tables}
      BY <1>2, <2>2
    <3>3. ASSUME NEW i \in DOMAIN s PROVE s[i].needs \subseteq {} \cup {s[j].obj : j \in 1 .. i - 1}
      <4>1. CASE i = 1 \/ i = 4
        BY <3>2, <4>1
      <4>2. CASE i = 2 \/ i = 3
        BY <3>1, <3>2, <4>2
      <4> QED BY <2>3, <4>1, <4>2
    <3> QED BY <3>3 DEF InOrder
  <2> QED BY <1>5, <2>1, <2>2, <2>4, <2>5
<1>6. CASE f = 7
  <2> DEFINE s == <<m>> \o <<r>>
  <2>1. Statements(f) = s
    BY <1>2, <1>3, <1>6, Behind
  <2>2. s \in Seq(EmbeddedStatement) /\ Len(s) = 2 /\ s[1] = m /\ s[2] = r
    BY <1>2, Behind
  <2> HIDE DEF s
  <2>3. \A i \in DOMAIN s : i = 1 \/ i = 2
    BY <2>2
  <2>4. Repeatable(s)
    BY <1>2, <1>4, <2>2, <2>3 DEF Repeatable
  <2>5. InOrder(s, {Tables})
    <3>1. 1 \in 1 .. 2 - 1 /\ s[1].obj = <<"macros", 7>>
      BY <1>2, <1>6, <2>2
    <3>2. s[1].needs = {} /\ s[2].needs = {Tables, <<"macros", 7>>}
      BY <1>2, <2>2
    <3> DEFINE macro == <<"macros", 7>>
    <3> HIDE DEF macro
    <3>3. s[2].needs = {Tables, macro} /\ s[1].obj = macro
      BY <3>1, <3>2 DEF macro
    <3>4. ASSUME NEW i \in DOMAIN s PROVE s[i].needs \subseteq {Tables} \cup {s[j].obj : j \in 1 .. i - 1}
      <4>1. CASE i = 1
        BY <3>2, <4>1
      <4>2. CASE i = 2
        BY <3>1, <3>3, <4>2
      <4> QED BY <2>3, <4>1, <4>2
    <3> QED BY <3>4 DEF InOrder
  <2> QED BY <1>6, <2>1, <2>2, <2>4, <2>5
<1>7. CASE f = 10
  <2> DEFINE s == <<m>> \o <<p>>
  <2>1. Statements(f) = s
    BY <1>2, <1>3, <1>7, Behind
  <2>2. s \in Seq(EmbeddedStatement) /\ Len(s) = 2 /\ s[1] = m /\ s[2] = p
    BY <1>2, Behind
  <2> HIDE DEF s
  <2>3. \A i \in DOMAIN s : i = 1 \/ i = 2
    BY <2>2
  <2>4. Repeatable(s) /\ InOrder(s, {Tables})
    BY <1>2, <1>4, <2>2, <2>3 DEF Repeatable, InOrder
  <2> QED BY <1>7, <2>1, <2>2, <2>4
<1>8. CASE f \notin {1, 7, 10}
  <2>1. <<m>> \in Seq(EmbeddedStatement) /\ Statements(f) = <<m>>
    <3>1. <<m>> \in Seq(EmbeddedStatement)
      BY <1>2
    <3>2. Statements(f) = (<<>> \o <<m>>) \o <<>>
      BY <1>3, <1>8
    <3>3. <<>> \o <<m>> = <<m>> /\ <<m>> \o <<>> = <<m>>
      BY <1>2, <3>1, Behind
    <3> QED BY <3>1, <3>2, <3>3
  <2>2. Repeatable(<<m>>) /\ InOrder(<<m>>, {Tables})
    <3>1. \A i \in DOMAIN <<m>> : i = 1 /\ <<m>>[i] = m
      OBVIOUS
    <3> QED BY <1>2, <1>4, <3>1 DEF Repeatable, InOrder
  <2> QED BY <1>8, <2>1, <2>2
<1> QED BY <1>5, <1>6, <1>7, <1>8

\* What the statements of a script are that starts with the types.
WellOrdered(s) ==
  /\ s \in Seq(EmbeddedStatement) /\ Len(s) >= 3
  /\ s[1] = Make("create", "types", 0, {}) /\ s[2] = Make("create", "spec", 0, {Types})
  /\ \A i \in DOMAIN s : i > 2 => s[i].op # "create" /\ s[i].obj \notin {Types, Specs}
  /\ InOrder(s, {})

LEMMA FileZero == WellOrdered(Statements(0))
<1> DEFINE s == Statements(0)
<1>1. /\ s \in Seq(EmbeddedStatement) /\ Len(s) = 3
      /\ s[1] = Make("create", "types", 0, {}) /\ s[2] = Make("create", "spec", 0, {Types})
      /\ s[3] = Make("ensure", "macros", 0, {})
  BY FirstFile
<1>2. s[1].needs = {} /\ s[1].obj = Types /\ s[2].needs = {Types} /\ s[3].needs = {}
      /\ s[3].op = "ensure" /\ s[3].obj \notin {Types, Specs}
  BY <1>1 DEF Make, Types, Specs
<1> HIDE DEF s
<1>3. \A i \in DOMAIN s : i = 1 \/ i = 2 \/ i = 3
  BY <1>1
<1>4. InOrder(s, {})
  <2>1. 1 \in 1 .. 2 - 1
    OBVIOUS
  <2> QED BY <1>2, <1>3, <2>1 DEF InOrder
<1>5. \A i \in DOMAIN s : i > 2 => i = 3
  BY <1>3
<1>6. WellOrdered(s)
  BY <1>1, <1>2, <1>4, <1>5 DEF WellOrdered
<1> QED BY <1>6 DEF s

LEMMA FileAppended ==
  ASSUME NEW s, WellOrdered(s), NEW t \in Seq(EmbeddedStatement), Repeatable(t),
         NEW given, given \subseteq Makes(s), InOrder(t, given)
  PROVE  WellOrdered(s \o t) /\ Makes(s) \cup Makes(t) \subseteq Makes(s \o t)
<1> DEFINE r == s \o t
<1>1. s \in Seq(EmbeddedStatement) /\ Len(s) \in Nat /\ Len(s) >= 3 /\ Len(t) \in Nat
      /\ DOMAIN s = 1 .. Len(s) /\ DOMAIN t = 1 .. Len(t)
  BY DEF WellOrdered
<1>2. /\ r \in Seq(EmbeddedStatement) /\ Len(r) = Len(s) + Len(t) /\ DOMAIN r = 1 .. Len(s) + Len(t)
      /\ \A i \in 1 .. Len(s) : r[i] = s[i]
      /\ \A i \in 1 .. Len(t) : r[Len(s) + i] = t[i]
  BY <1>1
<1> HIDE DEF r
<1>3. \A i \in DOMAIN r : i \in DOMAIN s \/ \E j \in DOMAIN t : i = Len(s) + j
  <2> TAKE i \in DOMAIN r
  <2>1. CASE i <= Len(s)
    BY <1>1, <1>2, <2>1
  <2>2. CASE i > Len(s)
    <3>1. i - Len(s) \in DOMAIN t /\ i = Len(s) + (i - Len(s))
      BY <1>1, <1>2, <2>2
    <3> QED BY <3>1
  <2> QED BY <1>1, <1>2, <2>1, <2>2
<1>4. \A i \in DOMAIN s : i \in DOMAIN r /\ r[i] = s[i]
  BY <1>1, <1>2
<1>5. \A i \in DOMAIN t : Len(s) + i \in DOMAIN r /\ r[Len(s) + i] = t[i]
  BY <1>1, <1>2
<1>6. ASSUME NEW i \in DOMAIN r, i > 2 PROVE r[i].op # "create" /\ r[i].obj \notin {Types, Specs}
  <2>1. CASE i \in DOMAIN s
    <3>1. s[i].op # "create" /\ s[i].obj \notin {Types, Specs}
      BY <1>6, <2>1 DEF WellOrdered
    <3> QED BY <1>4, <2>1, <3>1
  <2>2. ASSUME NEW k \in DOMAIN t, i = Len(s) + k PROVE r[i].op # "create" /\ r[i].obj \notin {Types, Specs}
    <3>1. t[k].op # "create" /\ t[k].obj \notin {Types, Specs}
      BY DEF Repeatable
    <3> QED BY <1>5, <2>2, <3>1
  <2> QED BY <1>3, <2>1, <2>2
<1>7. ASSUME NEW i \in DOMAIN r PROVE r[i].needs \subseteq {r[j].obj : j \in 1 .. i - 1}
  <2>1. CASE i \in DOMAIN s
    <3>1. r[i].needs \subseteq {s[j].obj : j \in 1 .. i - 1}
      BY <1>4, <2>1 DEF WellOrdered, InOrder
    <3>2. \A j \in 1 .. i - 1 : r[j] = s[j]
      BY <1>1, <1>2, <2>1
    <3> QED BY <3>1, <3>2
  <2>2. ASSUME NEW k \in DOMAIN t, i = Len(s) + k PROVE r[i].needs \subseteq {r[j].obj : j \in 1 .. i - 1}
    <3>1. r[i].needs \subseteq Makes(s) \cup {t[j].obj : j \in 1 .. k - 1}
      BY <1>5, <2>2 DEF InOrder
    <3>2. \A j \in DOMAIN s : j \in 1 .. i - 1 /\ r[j] = s[j]
      BY <1>1, <1>2, <2>2
    <3>3. \A j \in 1 .. k - 1 : Len(s) + j \in 1 .. i - 1 /\ r[Len(s) + j] = t[j]
      BY <1>1, <1>2, <2>2
    <3>4. \A x \in Makes(s) : \E j \in 1 .. i - 1 : x = r[j].obj
      BY <3>2 DEF Makes
    <3>5. \A x \in {t[j].obj : j \in 1 .. k - 1} : \E j \in 1 .. i - 1 : x = r[j].obj
      BY <3>3
    <3> QED BY <3>1, <3>4, <3>5
  <2> QED BY <1>3, <2>1, <2>2
<1>8. Makes(s) \cup Makes(t) \subseteq Makes(r)
  BY <1>4, <1>5 DEF Makes
<1>9. r[1] = s[1] /\ r[2] = s[2]
  BY <1>1, <1>2
<1>10. InOrder(r, {})
  BY <1>7 DEF InOrder
<1>11. WellOrdered(r)
  BY <1>1, <1>2, <1>6, <1>9, <1>10 DEF WellOrdered
<1> QED BY <1>8, <1>11 DEF r

\* However the build wrote the files down, the types come first and the tables next.
LEMMA LoadOrderIs ==
  /\ DOMAIN LoadOrder = 1 .. Len(Embedded) /\ Len(Embedded) \in Nat /\ Len(Embedded) >= 2
  /\ LoadOrder[1] = 0 /\ LoadOrder[2] = 1
  /\ \A k \in 3 .. Len(Embedded) : LoadOrder[k] \in 1 .. 10
<1> DEFINE N == Len(Embedded)
<1> DEFINE F == Range(Embedded)
<1> DEFINE before(f) == {g \in F : g < f}
<1> DEFINE is(k, f) == Cardinality(before(f)) = k - 1
<1>1. N \in Nat /\ DOMAIN Embedded = 1 .. N /\ F \subseteq 0 .. 10 /\ {0, 1} \subseteq F
  BY EmbeddedAssumption DEF Range
<1>2. IsFiniteSet(F) /\ Cardinality(F) = N
  <2> DEFINE D == 1 .. N
  <2>1. IsFiniteSet(D) /\ Cardinality(D) = N
    <3>1. 1 \in Int /\ N \in Int
      BY <1>1
    <3>2. IsFiniteSet(D) /\ Cardinality(D) = IF 1 > N THEN 0 ELSE N - 1 + 1
      BY <3>1, FS_Interval
    <3> QED BY <1>1, <3>2
  <2> DEFINE at == [f \in F |-> CHOOSE i \in D : Embedded[i] = f]
  <2>2. \A f \in F : at[f] \in D /\ Embedded[at[f]] = f
    BY <1>1 DEF Range
  <2>3. at \in [F -> D]
    BY <2>2
  <2>4. \A f, g \in F : at[f] = at[g] => f = g
    <3> HIDE DEF at, F
    <3> QED BY <2>2
  <2>5. \A i \in D : \E f \in F : at[f] = i
    <3> TAKE i \in D
    <3>1. Embedded[i] \in F
      BY <1>1 DEF Range
    <3>2. at[Embedded[i]] \in D /\ Embedded[at[Embedded[i]]] = Embedded[i]
      <4> HIDE DEF at, F
      <4> QED BY <2>2, <3>1
    <3>3. at[Embedded[i]] = i
      <4> HIDE DEF at, F
      <4> QED BY <1>1, <3>2, EmbeddedAssumption
    <3> QED BY <3>1, <3>3
  <2> HIDE DEF at, D, F
  <2> QED BY <2>1, <2>3, <2>4, <2>5, SameCount
<1>3. \A k \in 1 .. N : LoadOrder[k] = CHOOSE f \in F : is(k, f)
  BY <1>1 DEF LoadOrder
<1>4. \A k \in 1 .. N : \E f \in F : is(k, f)
  <2> DEFINE R == {p \in F \X F : p[1] < p[2]}
  <2> DEFINE pos == [f \in F |-> Cardinality(Before(R, F, f))]
  <2> HIDE DEF F
  <2>1. TotalOrder(R, F)
    BY <1>1 DEF TotalOrder
  <2>2. \A f \in F : Before(R, F, f) = before(f)
    BY DEF Before
  <2> HIDE DEF R
  <2>3. \A f \in F : pos[f] = Cardinality(Before(R, F, f))
    OBVIOUS
  <2> HIDE DEF pos
  <2>4. \A k \in 0 .. Cardinality(F) - 1 : \E f \in F : pos[f] = k
    BY <1>2, <2>1, <2>3, RanksAre
  <2>5. \A k \in 1 .. N : k - 1 \in 0 .. Cardinality(F) - 1
    BY <1>1, <1>2
  <2>6. \A f \in F : Cardinality(before(f)) = pos[f]
    BY <2>2, <2>3
  <2> HIDE DEF before
  <2> QED BY <2>4, <2>5, <2>6
<1>5. \A k \in 1 .. N : LoadOrder[k] \in F /\ is(k, LoadOrder[k])
  <2> HIDE DEF F, is
  <2> QED BY <1>3, <1>4
<1>6. N >= 2
  <2>1. PICK i, j \in 1 .. N : Embedded[i] = 0 /\ Embedded[j] = 1
    BY <1>1 DEF Range
  <2> QED BY <1>1, <2>1
<1>7. ASSUME NEW f \in F, Cardinality(before(f)) = 0 PROVE f = 0
  <2>1. IsFiniteSet(before(f))
    <3>1. before(f) \in SUBSET F
      OBVIOUS
    <3> HIDE DEF before, F
    <3> QED BY <1>2, <3>1, FS_Subset
  <2>2. before(f) = {}
    <3> HIDE DEF before, F
    <3> QED BY <1>7, <2>1, FS_EmptySet
  <2> QED BY <1>1, <2>2
<1>8. before(0) = {} /\ before(1) = {0}
  BY <1>1
<1>9. Cardinality(before(0)) = 0 /\ Cardinality(before(1)) = 1
  BY <1>8, FS_EmptySet, FS_Singleton
<1>10. LoadOrder[1] = 0
  <2>1. 1 \in 1 .. N
    BY <1>1, <1>6
  <2> HIDE DEF F, before
  <2> QED BY <1>5, <1>7, <2>1
<1>11. LoadOrder[2] = 1
  <2>1. 2 \in 1 .. N /\ LoadOrder[2] \in F /\ Cardinality(before(LoadOrder[2])) = 1
    <3> HIDE DEF F, before
    <3>1. 2 \in 1 .. N
      BY <1>1, <1>6
    <3> QED BY <1>5, <3>1
  <2> DEFINE f == LoadOrder[2]
  <2>2. f \in 0 .. 10 /\ Cardinality(before(f)) = 1
    BY <1>1, <2>1
  <2> HIDE DEF f
  <2>3. f # 0
    <3> HIDE DEF before
    <3> QED BY <1>9, <2>2
  <2>4. PICK x : before(f) = {x}
    <3>1. IsFiniteSet(before(f))
      <4>1. before(f) \in SUBSET F
        OBVIOUS
      <4> HIDE DEF before, F
      <4> QED BY <1>2, <4>1, FS_Subset
    <3> HIDE DEF before
    <3> QED BY <2>2, <3>1, FS_Singleton
  <2>5. ~ (f > 1)
    <3> SUFFICES ASSUME f > 1 PROVE FALSE
      OBVIOUS
    <3>1. 0 \in before(f) /\ 1 \in before(f)
      BY <1>1, <2>2
    <3> HIDE DEF before
    <3> QED BY <2>4, <3>1
  <2> QED BY <2>2, <2>3, <2>5 DEF f
<1>12. ASSUME NEW k \in 3 .. N PROVE LoadOrder[k] \in 1 .. 10
  <2>1. k \in 1 .. N /\ LoadOrder[k] \in F /\ Cardinality(before(LoadOrder[k])) = k - 1
    <3> HIDE DEF F, before
    <3>1. k \in 1 .. N
      BY <1>1
    <3> QED BY <1>5, <3>1
  <2>2. LoadOrder[k] # 0
    <3> HIDE DEF F, before
    <3> QED BY <1>1, <1>9, <2>1
  <2> QED BY <1>1, <2>1, <2>2
<1>13. DOMAIN LoadOrder = 1 .. N
  BY <1>1 DEF LoadOrder
<1> HIDE DEF F
<1> QED BY <1>1, <1>6, <1>10, <1>11, <1>12, <1>13

\* FlattenSeq appends the files one by one.
Flattens(flat, seqs, n) ==
  /\ FlattenSeq(seqs) = flat[n] /\ flat[1] = seqs[1]
  /\ \A k \in 2 .. n : flat[k] = flat[k - 1] \o seqs[k]

LEMMA Flattened ==
  ASSUME NEW n \in Nat \ {0}, NEW seqs, Len(seqs) = n,
         \A k \in 1 .. n : seqs[k] \in Seq(EmbeddedStatement)
  PROVE  \E flat : Flattens(flat, seqs, n)
<1> DEFINE S == EmbeddedStatement
<1> DEFINE X == Nat \X Seq(S)
<1> DEFINE step == [x \in X |-> IF x[1] + 1 \in 1 .. n THEN <<x[1] + 1, x[2] \o seqs[x[1] + 1]>> ELSE x]
<1> DEFINE first == <<1, seqs[1]>>
<1>1. step \in [X -> X]
  <2> SUFFICES ASSUME NEW x \in X, x[1] + 1 \in 1 .. n
               PROVE  <<x[1] + 1, x[2] \o seqs[x[1] + 1]>> \in X
    OBVIOUS
  <2>1. x[1] \in Nat /\ x[2] \in Seq(S) /\ seqs[x[1] + 1] \in Seq(S)
    OBVIOUS
  <2> HIDE DEF S
  <2>2. x[2] \o seqs[x[1] + 1] \in Seq(S) /\ x[1] + 1 \in Nat
    BY <2>1
  <2> QED BY <2>2
<1>2. first \in X
  BY 1 \in 1 .. n
<1>3. \E f : Repeats(f, X, first, step, n - 1)
  <2>1. n - 1 \in Nat
    OBVIOUS
  <2> HIDE DEF X, step, first
  <2> QED BY <1>1, <1>2, <2>1, Iterates
<1>4. PICK f : f \in [0 .. n - 1 -> X] /\ f[0] = first /\ \A d \in 1 .. n - 1 : f[d] = step[f[d - 1]]
  BY <1>3 DEF Repeats
<1>5. \A d \in 0 .. n - 1 : f[d] \in X
  <2> HIDE DEF X
  <2> QED BY <1>4
<1>6. \A d \in 0 .. n - 1 : f[d][1] = d + 1
  <2> DEFINE Bad == {d \in 0 .. n - 1 : f[d][1] # d + 1}
  <2>1. SUFFICES ASSUME Bad # {} PROVE FALSE
    OBVIOUS
  <2>2. PICK d \in Bad : \A m \in Bad : d <= m
    <3>1. Bad \in SUBSET Nat
      OBVIOUS
    <3> HIDE DEF Bad
    <3> QED BY <2>1, <3>1, LeastNat
  <2>3. d \in 0 .. n - 1 /\ f[d][1] # d + 1
    BY <2>2
  <2>4. d # 0
    BY <1>4, <2>3
  <2>5. d \in 1 .. n - 1 /\ d - 1 \in 0 .. n - 1 /\ ~ (d <= d - 1)
    BY <2>3, <2>4
  <2>6. f[d - 1][1] = d
    <3>1. d - 1 \notin Bad
      <4> HIDE DEF Bad
      <4> QED BY <2>2, <2>5
    <3>2. ASSUME NEW e \in 0 .. n - 1, e \notin Bad PROVE f[e][1] = e + 1
      BY <3>2
    <3> HIDE DEF Bad
    <3>3. f[d - 1][1] = d - 1 + 1
      BY <2>5, <3>1, <3>2
    <3> QED BY <2>5, <3>3
  <2>7. f[d] = <<f[d - 1][1] + 1, f[d - 1][2] \o seqs[f[d - 1][1] + 1]>>
    <3>1. f[d - 1] \in X /\ f[d] = step[f[d - 1]]
      <4> HIDE DEF X, step
      <4> QED BY <1>4, <1>5, <2>5
    <3>2. f[d - 1][1] + 1 \in 1 .. n
      BY <2>5, <2>6
    <3> HIDE DEF X
    <3> QED BY <3>1, <3>2, Zenon
  <2> QED BY <2>3, <2>6, <2>7
<1>7. ASSUME NEW d \in 1 .. n - 1 PROVE f[d][2] = f[d - 1][2] \o seqs[d + 1]
  <2>1. d - 1 \in 0 .. n - 1 /\ (d - 1) + 1 = d /\ d + 1 \in 1 .. n
    OBVIOUS
  <2>2. f[d - 1] \in X /\ f[d] = step[f[d - 1]] /\ f[d - 1][1] = d
    <3> HIDE DEF X, step
    <3>1. f[d - 1] \in X
      BY <1>5, <2>1
    <3>2. f[d] = step[f[d - 1]]
      BY <1>4
    <3>3. f[d - 1][1] = (d - 1) + 1
      BY <1>6, <2>1
    <3> QED BY <2>1, <3>1, <3>2, <3>3
  <2> DEFINE r == f[d - 1][2] \o seqs[d + 1]
  <2>3. f[d] = <<d + 1, r>>
    <3> HIDE DEF X
    <3> QED BY <2>1, <2>2, Zenon
  <2> HIDE DEF r, X, step, first
  <2>4. f[d][2] = r
    BY <2>3
  <2> QED BY <2>4 DEF r
<1> DEFINE g == [k \in 1 .. n |-> f[k - 1][2]]
<1> DEFINE flat == CHOOSE h : h = [k \in 1 .. n |-> IF k = 1 THEN seqs[k] ELSE h[k - 1] \o seqs[k]]
<1>8. g = [k \in 1 .. n |-> IF k = 1 THEN seqs[k] ELSE g[k - 1] \o seqs[k]]
  <2>1. ASSUME NEW k \in 1 .. n PROVE g[k] = IF k = 1 THEN seqs[k] ELSE g[k - 1] \o seqs[k]
    <3>1. CASE k = 1
      BY <1>4, <3>1
    <3>2. CASE k # 1
      <4>1. k - 1 \in 1 .. n /\ k - 1 \in 1 .. n - 1 /\ (k - 1) + 1 = k
        BY <3>2
      <4>2. f[k - 1][2] = f[(k - 1) - 1][2] \o seqs[k]
        BY <1>7, <4>1, Zenon
      <4> QED BY <3>2, <4>1, <4>2
    <3> QED BY <3>1, <3>2
  <2> HIDE DEF g
  <2>2. g = [k \in 1 .. n |-> g[k]]
    BY DEF g
  <2> QED BY <2>1, <2>2
<1>9. flat = [k \in 1 .. n |-> IF k = 1 THEN seqs[k] ELSE flat[k - 1] \o seqs[k]]
  <2> HIDE DEF g
  <2> QED BY <1>8, Zenon
<1>10. FlattenSeq(seqs) = flat[n]
  BY DEF FlattenSeq
<1> HIDE DEF flat
<1>11. flat[1] = seqs[1] /\ \A k \in 2 .. n : flat[k] = flat[k - 1] \o seqs[k]
  <2>1. 1 \in 1 .. n /\ \A k \in 2 .. n : k \in 1 .. n /\ k # 1
    OBVIOUS
  <2> QED BY <1>9, <2>1
<1> QED BY <1>10, <1>11 DEF Flattens

\* So the types are made first, once, and nothing in a file needs a later one, whatever
\* order the build wrote the files down in.
LEMMA ScriptIs == WellOrdered(Script)
<1> DEFINE N == Len(Embedded)
<1> DEFINE seqs == [k \in DOMAIN LoadOrder |-> Statements(LoadOrder[k])]
<1>1. /\ N \in Nat \ {0} /\ N >= 2 /\ DOMAIN LoadOrder = 1 .. N
      /\ LoadOrder[1] = 0 /\ LoadOrder[2] = 1 /\ \A k \in 3 .. N : LoadOrder[k] \in 1 .. 10
  BY LoadOrderIs
<1>2. \A k \in 2 .. N : LoadOrder[k] \in 1 .. 10 /\ (k # 2 => k \in 3 .. N)
  BY <1>1
<1>3. \A k \in 1 .. N : seqs[k] \in Seq(EmbeddedStatement)
  <2> TAKE k \in 1 .. N
  <2>1. CASE k = 1
    BY <1>1, <2>1, FirstFile
  <2>2. CASE k \in 2 .. N
    BY <1>1, <1>2, <2>2, FilesFollow
  <2> QED BY <2>1, <2>2
<1>4. Len(seqs) = N
  BY <1>1
<1>5. Script = FlattenSeq(seqs)
  BY DEF Script
<1> HIDE DEF N
<1>6. seqs[1] = Statements(0) /\ \A k \in 2 .. N : seqs[k] = Statements(LoadOrder[k])
  BY <1>1
<1> HIDE DEF seqs
<1>7. PICK flat : /\ FlattenSeq(seqs) = flat[N] /\ flat[1] = seqs[1]
                  /\ \A k \in 2 .. N : flat[k] = flat[k - 1] \o seqs[k]
  <2>1. N \in Nat \ {0}
    BY <1>1
  <2>2. \E flat : Flattens(flat, seqs, N)
    BY <1>3, <1>4, <2>1, Flattened
  <2> QED BY <2>2 DEF Flattens
<1> DEFINE ok(k) == WellOrdered(flat[k]) /\ (k >= 2 => Tables \in Makes(flat[k]))
<1> DEFINE Bad == {k \in 1 .. N : ~ ok(k)}
<1>8. SUFFICES ASSUME Bad # {} PROVE FALSE
  BY <1>1, <1>5, <1>7
<1>9. PICK k \in Bad : \A m \in Bad : k <= m
  <2>1. Bad \in SUBSET Nat
    OBVIOUS
  <2> HIDE DEF Bad
  <2> QED BY <1>8, <2>1, LeastNat
<1>10. k \in 1 .. N /\ ~ ok(k)
  BY <1>9
<1>11. k # 1
  <2>1. ok(1)
    BY <1>6, <1>7, FileZero
  <2> HIDE DEF ok
  <2> QED BY <1>10, <2>1
<1>12. k \in 2 .. N /\ k - 1 \in 1 .. N /\ ~ (k <= k - 1)
  <2> HIDE DEF ok, Bad
  <2> QED BY <1>1, <1>10, <1>11
<1>13. ok(k - 1)
  <2>1. k - 1 \notin Bad
    <3> HIDE DEF Bad
    <3> QED BY <1>9, <1>12
  <2> QED BY <1>12, <2>1
<1> DEFINE f == LoadOrder[k]
<1> DEFINE given == IF f = 1 THEN {} ELSE {Tables}
<1>14. f \in 1 .. 10 /\ (f # 1 => k - 1 >= 2) /\ (k = 2 => f = 1)
  BY <1>1, <1>2, <1>12
<1>15. flat[k] = flat[k - 1] \o Statements(f)
  BY <1>6, <1>7, <1>12
<1> HIDE DEF f
<1>16. /\ Statements(f) \in Seq(EmbeddedStatement) /\ Repeatable(Statements(f)) /\ InOrder(Statements(f), given)
       /\ f = 1 => Tables \in Makes(Statements(f))
  BY <1>14, FilesFollow
<1>17. given \subseteq Makes(flat[k - 1])
  BY <1>13, <1>14
<1>18. WellOrdered(flat[k]) /\ Makes(flat[k - 1]) \cup Makes(Statements(f)) \subseteq Makes(flat[k])
  <2> HIDE DEF given
  <2> QED BY <1>13, <1>15, <1>16, <1>17, FileAppended
<1>19. Tables \in Makes(flat[k])
  BY <1>13, <1>14, <1>16, <1>18
<1> QED BY <1>10, <1>18, <1>19

-----------------------------------------------------------------------------
(* LOAD.                                                                   *)

\* The objects of the statements that have run are there, until the process
\* ends; a function is there only after the last of them.
ScriptRan(n) == \A i \in DOMAIN Script : i < n => Script[i].obj \in objects

LoaderInv ==
  /\ load.pc = "script" => ScriptRan(load.at)
  /\ load.pc \in {"match", "macro", "loaded"} => RegisteredMeansLoaded /\ ScriptRan(Len(Script) + 1)
  /\ RegisteredMeansLoaded
  /\ load = [pc |-> load.pc, at |-> load.at, why |-> load.why]
  /\ load.at \in Nat \ {0}

LEMMA LoadKeepsInv == ASSUME LoaderInv, Load PROVE LoaderInv'
<1> Script \in Seq(EmbeddedStatement) BY ScriptIs DEF WellOrdered
<1> Len(Script) \in Nat /\ DOMAIN Script = 1 .. Len(Script) OBVIOUS
<1>1. CASE StartLoad
  BY <1>1 DEF LoaderInv, StartLoad, ScriptRan, RegisteredMeansLoaded
<1>2. CASE RunEmbedded
  <2>1. load.pc = "script" /\ load.at \in 1 .. Len(Script)
    BY <1>2 DEF RunEmbedded, LoaderInv
  <2>2. load'.pc = "script" /\ load'.at = load.at + 1 /\ load'.why = load.why
    BY <1>2, <2>1 DEF RunEmbedded, LoaderInv
  <2>3. objects' = objects \cup {Script[load.at].obj} /\ functions' = functions
    BY <1>2 DEF RunEmbedded
  <2>4. ScriptRan(load.at)'
    BY <2>1, <2>2, <2>3 DEF LoaderInv, ScriptRan
  <2>5. load' = [pc |-> load'.pc, at |-> load'.at, why |-> load'.why]
    BY <1>2 DEF RunEmbedded, LoaderInv
  <2> QED BY <2>1, <2>2, <2>3, <2>4, <2>5 DEF LoaderInv, RegisteredMeansLoaded, ScriptRan
<1>3. CASE EmbeddedFails \/ CreateTreeMatchFails
  <2>1. load'.pc = "failed" /\ load'.at = load.at /\ UNCHANGED <<objects, functions>>
    BY <1>3 DEF EmbeddedFails, CreateTreeMatchFails, Fails, LoaderInv
  <2>2. load' = [pc |-> load'.pc, at |-> load'.at, why |-> load'.why]
    BY <1>3 DEF EmbeddedFails, CreateTreeMatchFails, Fails, LoaderInv
  <2> QED BY <2>1, <2>2 DEF LoaderInv, RegisteredMeansLoaded
<1>4. CASE RegisterDuckentVerbs
  <2>1. load.pc = "script" /\ load.at > Len(Script) /\ objects' = objects
    BY <1>4 DEF RegisterDuckentVerbs
  <2>2. \A i \in DOMAIN Script : Script[i].obj \in objects
    BY <2>1 DEF LoaderInv, ScriptRan
  <2>3. load' = [load EXCEPT !.pc = "match"]
    BY <1>4 DEF RegisterDuckentVerbs
  <2>4. load'.pc = "match" /\ load'.at = load.at /\ load'.why = load.why
    BY <2>3 DEF LoaderInv
  <2>5. load' = [pc |-> load'.pc, at |-> load'.at, why |-> load'.why]
    BY <2>3 DEF LoaderInv
  <2> QED BY <2>1, <2>2, <2>4, <2>5 DEF LoaderInv, RegisteredMeansLoaded, ScriptRan
<1>5. CASE RegisterMatchFunction \/ CreateTreeMatch
  <2>1. load.pc \in {"match", "macro"} /\ objects \subseteq objects'
    BY <1>5 DEF RegisterMatchFunction, CreateTreeMatch
  <2>2. \A i \in DOMAIN Script : Script[i].obj \in objects'
    BY <2>1 DEF LoaderInv, ScriptRan
  <2>3. load'.pc \in {"macro", "loaded"} /\ load'.at = load.at
    BY <1>5 DEF RegisterMatchFunction, CreateTreeMatch, LoaderInv
  <2>4. load' = [pc |-> load'.pc, at |-> load'.at, why |-> load'.why]
    BY <1>5 DEF RegisterMatchFunction, CreateTreeMatch, LoaderInv
  <2> QED BY <2>2, <2>3, <2>4 DEF LoaderInv, RegisteredMeansLoaded, ScriptRan
<1> QED BY <1>1, <1>2, <1>3, <1>4, <1>5 DEF Load

\* An explicit COMMIT touches neither what LOAD keeps nor any call of tree_match.
LEMMA CommitKeeps ==
  \A s : CommitExplicit(s) => objects' = objects /\ functions' = functions /\ load' = load /\ match' = match
BY DEF CommitExplicit

\* Besides LOAD, only the end of the process touches what LOAD keeps.
LEMMA OthersKeepLoader ==
  ASSUME [Next]_vars
  PROVE  Load \/ (\E file \in BOOLEAN : ProcessEnds(file)) \/ UNCHANGED <<objects, functions, load>>
<1>1. CASE UNCHANGED vars
  BY <1>1 DEF vars, loaderVars
<1>2. CASE LoadStep \/ ProcessExit
  BY <1>2 DEF LoadStep, ProcessExit
<1>3. CASE EditCommitted \/ OtherVerb
  BY <1>3 DEF EditCommitted, OtherVerb, loaderVars
<1>4. ASSUME NEW s \in Reader, BeginExplicit(s) \/ EditInside(s) \/ CommitExplicit(s) \/ RollBackExplicit(s)
      PROVE  UNCHANGED <<objects, functions, load>>
  <2>1. BeginExplicit(s) \/ EditInside(s) \/ RollBackExplicit(s) => UNCHANGED loaderVars
    BY DEF BeginExplicit, EditInside, RollBackExplicit
  <2>2. CommitExplicit(s) => UNCHANGED <<objects, functions, load>>
    BY CommitKeeps
  <2> QED BY <1>4, <2>1, <2>2 DEF loaderVars
<1>5. ASSUME NEW s \in Reader, Ask(s) \/ MatchStep(s) \/ Execute(s) \/ Abandon(s)
      PROVE  UNCHANGED <<objects, functions, load>>
  BY <1>5, Zenon DEF Ask, MatchStep, Execute, Abandon, MatchBind, ResolveSelectorLanguage, ParserForTextSelector,
              CompileMatch, MatchShape, BoundOnly, MatchInOut, MatchInit, loaderVars
<1> QED BY <1>1, <1>2, <1>3, <1>4, <1>5 DEF Next

LEMMA LoaderInvAlways == Spec => []LoaderInv
<1>1. Init => LoaderInv
  BY DEF Init, LoaderInit, LoaderInv, NotLoaded, RegisteredMeansLoaded
<1>2. LoaderInv /\ [Next]_vars => LoaderInv'
  <2> SUFFICES ASSUME LoaderInv, [Next]_vars PROVE LoaderInv'
    OBVIOUS
  <2>1. CASE Load
    BY <2>1, LoadKeepsInv
  <2>2. ASSUME NEW file \in BOOLEAN, ProcessEnds(file) PROVE LoaderInv'
    BY <2>2 DEF ProcessEnds, LoaderInv, NotLoaded, RegisteredMeansLoaded
  <2>3. CASE UNCHANGED <<objects, functions, load>>
    BY <2>3 DEF LoaderInv, RegisteredMeansLoaded, ScriptRan
  <2> QED BY <2>1, <2>2, <2>3, OthersKeepLoader
<1> QED BY <1>1, <1>2, PTL DEF Spec

\* A function a session can call finds everything the embedded files make,
\* whatever fails, and however often LOAD is tried (LoadInternal).
THEOREM LoadIsAllOrNoFunctions == Spec => []RegisteredMeansLoaded
<1>1. LoaderInv => RegisteredMeansLoaded
  BY DEF LoaderInv
<1> QED BY <1>1, LoaderInvAlways, PTL

\* The two CREATE TYPEs go together, but for a crash or a fault between them, and a
\* LOAD that is past the first one made it.
RefusalInv ==
  /\ Specs \in objects => Types \in objects
  /\ load.pc = "script" /\ load.at = 2 => Specs \notin objects
  /\ load.why = "raised" => load.pc = "failed"
  /\ RefusedLoadChangesNothing

\* What the database refuses of a script is its first statement.
LEMMA OnlyTheTypesRaise ==
  ASSUME LoaderInv, RefusalInv, load.pc = "script", load.at <= Len(Script), Raising(Script[load.at])
  PROVE  load.at = 1 /\ Script[1].op = "create" /\ Script[1].obj \in objects
<1>1. /\ Script \in Seq(EmbeddedStatement)
      /\ Script[1] = Make("create", "types", 0, {}) /\ Script[2] = Make("create", "spec", 0, {Types})
      /\ \A i \in DOMAIN Script : i > 2 => Script[i].op # "create"
      /\ \A i \in DOMAIN Script : Script[i].needs \subseteq {Script[j].obj : j \in 1 .. i - 1}
  BY ScriptIs DEF WellOrdered, InOrder
<1>2. DOMAIN Script = 1 .. Len(Script) /\ Len(Script) \in Nat /\ load.at \in DOMAIN Script
  BY <1>1 DEF LoaderInv
<1>3. Script[load.at].needs \subseteq objects
  <2>1. \A j \in 1 .. load.at - 1 : Script[j].obj \in objects
    BY <1>2 DEF LoaderInv, ScriptRan
  <2> QED BY <1>1, <1>2, <2>1
<1>4. Script[load.at].op = "create" /\ Script[load.at].obj \in objects
  BY <1>3 DEF Raising
<1>5. load.at = 1 \/ load.at = 2
  BY <1>1, <1>2, <1>4
<1>6. ASSUME load.at = 2 PROVE FALSE
  <2>1. Script[2].obj = Specs
    BY <1>1 DEF Make, Specs
  <2>2. Specs \notin objects
    BY <1>6 DEF RefusalInv
  <2> QED BY <1>4, <1>6, <2>1, <2>2
<1> QED BY <1>4, <1>5, <1>6

LEMMA LoadKeepsRefusal == ASSUME LoaderInv, RefusalInv, Load PROVE RefusalInv'
<1> load = [pc |-> load.pc, at |-> load.at, why |-> load.why] /\ load.at \in Nat \ {0}
  BY DEF LoaderInv
<1>1. /\ Script \in Seq(EmbeddedStatement) /\ Len(Script) >= 3
      /\ Script[1] = Make("create", "types", 0, {}) /\ Script[2] = Make("create", "spec", 0, {Types})
      /\ \A i \in DOMAIN Script : i > 2 => Script[i].obj \notin {Types, Specs}
  BY ScriptIs DEF WellOrdered
<1>2. CASE StartLoad
  BY <1>2 DEF StartLoad, RefusalInv, RefusedLoadChangesNothing
<1>3. CASE RunEmbedded
  <2> DEFINE st == Script[load.at]
  <2>1. /\ load.pc = "script" /\ load.at \in DOMAIN Script /\ ~ Raising(st) /\ objects' = objects \cup {st.obj}
        /\ load'.pc = "script" /\ load'.at = load.at + 1 /\ load'.why = load.why
    BY <1>1, <1>3 DEF RunEmbedded
  <2>2. load.why # "raised"
    BY <2>1 DEF RefusalInv
  <2>3. CASE load.at = 1
    <3>1. st.obj = Types /\ Types \notin objects
      BY <1>1, <2>1, <2>3, SMTT(20) DEF Raising, Make, Types
    <3>2. Specs \notin objects'
      BY <2>1, <3>1 DEF RefusalInv, Types, Specs
    <3> QED BY <2>1, <2>2, <3>2 DEF RefusalInv, RefusedLoadChangesNothing
  <2>4. CASE load.at = 2
    <3>1. st.needs = {Types} /\ Types \in objects
      BY <1>1, <2>1, <2>4 DEF Raising, Make
    <3> QED BY <2>1, <2>2, <2>4, <3>1 DEF RefusalInv, RefusedLoadChangesNothing
  <2>5. CASE load.at > 2
    <3>1. st.obj \notin {Types, Specs}
      BY <1>1, <2>1, <2>5
    <3> HIDE DEF st
    <3> QED BY <2>1, <2>2, <2>5, <3>1 DEF RefusalInv, RefusedLoadChangesNothing
  <2> QED BY <2>3, <2>4, <2>5
<1>4. CASE EmbeddedFails
  <2>1. load.pc = "script" /\ load.at <= Len(Script) /\ load'.pc = "failed" /\ load'.at = load.at /\ objects' = objects
    BY <1>4 DEF EmbeddedFails, Fails
  <2>2. load'.why = "raised" => Raising(Script[load.at])
    BY <1>4 DEF EmbeddedFails, Fails
  <2>3. RefusedLoadChangesNothing'
    BY <2>1, <2>2, OnlyTheTypesRaise DEF RefusedLoadChangesNothing
  <2> QED BY <2>1, <2>3 DEF RefusalInv
<1>5. CASE RegisterDuckentVerbs \/ RegisterMatchFunction \/ CreateTreeMatch \/ CreateTreeMatchFails
  <2>1. /\ load.pc # "failed" /\ load'.pc # "script"
        /\ load'.why = load.why \/ load'.why = "fault"
        /\ objects' = objects \/ objects' = objects \cup {TreeMatchMacro}
    BY <1>5 DEF RegisterDuckentVerbs, RegisterMatchFunction, CreateTreeMatch, CreateTreeMatchFails, Fails
  <2>2. TreeMatchMacro \notin {Types, Specs}
    BY DEF TreeMatchMacro, Types, Specs
  <2>3. load'.why # "raised"
    BY <2>1 DEF RefusalInv
  <2> QED BY <2>1, <2>2, <2>3 DEF RefusalInv, RefusedLoadChangesNothing
<1> QED BY <1>2, <1>3, <1>4, <1>5 DEF Load

\* A LOAD that the database refuses is refused at its first statement, before it changed
\* anything, and only because an earlier LOAD got as far as the types; faults, retries
\* and ends of the process may come in any order (LoadEmbeddedMacros).
THEOREM RefusedLoadsChangeNothing == Spec => []RefusedLoadChangesNothing
<1>1. Init => RefusalInv
  BY DEF Init, LoaderInit, RefusalInv, NotLoaded, RefusedLoadChangesNothing
<1>2. LoaderInv /\ RefusalInv /\ [Next]_vars => RefusalInv'
  <2> SUFFICES ASSUME LoaderInv, RefusalInv, [Next]_vars PROVE RefusalInv'
    OBVIOUS
  <2>1. CASE Load
    BY <2>1, LoadKeepsRefusal
  <2>2. ASSUME NEW file \in BOOLEAN, ProcessEnds(file) PROVE RefusalInv'
    BY <2>2 DEF ProcessEnds, RefusalInv, NotLoaded, RefusedLoadChangesNothing
  <2>3. CASE UNCHANGED <<objects, functions, load>>
    BY <2>3 DEF RefusalInv, RefusedLoadChangesNothing
  <2> QED BY <2>1, <2>2, <2>3, OthersKeepLoader
<1>3. RefusalInv => RefusedLoadChangesNothing
  BY DEF RefusalInv
<1> QED BY <1>1, <1>2, <1>3, LoaderInvAlways, PTL DEF Spec

-----------------------------------------------------------------------------
(* tree_match: the inductive invariant.                                    *)

Field == {"pc", "req", "lang", "parser", "query", "columns", "shown", "rest", "how"}
IsMatch(m) == m = [f \in Field |-> m[f]]

\* A match that is being compiled is its caller's only business: the guard was
\* passed, and no statement of the caller's runs beside it.
Compiling == {"language", "parser", "compile", "shape"}

MatchOk(m, c) ==
  /\ IsMatch(m)
  /\ m.pc # "idle" => m.req \in Requests
  /\ m.pc \in {"idle", "guard", "language", "parser", "compile"} => m.query = NoQuery
  /\ m.pc \in Compiling => c = "auto"
  /\ m.query # NoQuery => m.query.label = WhoRead(m)

MatchInv ==
  /\ match = [s \in Reader |-> match[s]]
  /\ caller = [s \in Reader |-> caller[s]]
  /\ \A s \in Reader : MatchOk(match[s], caller[s])

\* What an action of s does to the readers' matches and transactions.
Becomes(s, m, c) ==
  /\ match' = [match EXCEPT ![s] = m]
  /\ caller' = [caller EXCEPT ![s] = c]

LEMMA BecomesKeepsInv ==
  ASSUME MatchInv, NEW s \in Reader, NEW m, NEW c, Becomes(s, m, c), MatchOk(m, c)
  PROVE  MatchInv'
BY DEF MatchInv, Becomes

\* No match, whatever its last one ended with.
LEMMA NoMatchOk ==
  ASSUME NEW how, NEW c
  PROVE  MatchOk([NoMatch EXCEPT !.how = how], c)
BY DEF MatchOk, IsMatch, NoMatch, Field, Compiling

\* A statement that ends leaves a match that is none, or the one it had.
LEMMA EndsOk ==
  ASSUME MatchInv, NEW s \in Reader, NEW how, Ends(s, how), NEW c
  PROVE  /\ match' = [match EXCEPT ![s] = match'[s]]
         /\ MatchOk(match'[s], c)
         /\ match'[s].pc \in {"idle", "bound"}
<1> MatchOk(match[s], caller[s]) BY DEF MatchInv
<1>1. CASE match[s].req.kind = "prepare" /\ match[s].query # NoQuery
  <2> DEFINE n == [match[s] EXCEPT !.pc = "bound", !.rest = {}, !.how = how]
  <2>1. match' = [match EXCEPT ![s] = n]
    BY <1>1 DEF Ends
  <2>2. match'[s] = n
    BY <2>1 DEF MatchInv
  <2>3. IsMatch(n) /\ n.pc = "bound" /\ n.req = match[s].req /\ n.query = match[s].query /\ n.parser = match[s].parser
    BY DEF MatchOk, IsMatch, Field
  <2>4. WhoRead(n) = WhoRead(match[s])
    BY <2>3 DEF WhoRead
  <2> QED BY <1>1, <2>1, <2>2, <2>3, <2>4 DEF MatchOk, Compiling
<1>2. CASE ~(match[s].req.kind = "prepare" /\ match[s].query # NoQuery)
  <2>1. match' = [match EXCEPT ![s] = [NoMatch EXCEPT !.how = how]]
    BY <1>2 DEF Ends
  <2> QED BY <2>1, NoMatchOk DEF MatchInv, NoMatch
<1> QED BY <1>1, <1>2

\* A match that moves on without a new call, plan or, once it has a plan, parser.
LEMMA MovesOk ==
  ASSUME MatchInv, NEW s \in Reader, match[s].pc # "idle",
         NEW m, NEW c, IsMatch(m), m.pc # "idle", m.pc \in Compiling => c = "auto",
         m.req = match[s].req, m.query = match[s].query,
         m.pc \in {"guard", "language", "parser", "compile"} => m.query = NoQuery,
         m.query # NoQuery => m.parser = match[s].parser
  PROVE  MatchOk(m, c)
<1> MatchOk(match[s], caller[s]) BY DEF MatchInv
<1>1. m.query # NoQuery => WhoRead(m) = WhoRead(match[s])
  BY DEF WhoRead
<1> QED BY <1>1 DEF MatchOk

LEMMA AskKeepsInv == ASSUME MatchInv, NEW s \in Reader, Ask(s) PROVE MatchInv'
<1>1. PICK r \in Requests : match' = [match EXCEPT ![s] = [NoMatch EXCEPT !.pc = "guard", !.req = r]]
  BY DEF Ask
<1> DEFINE m == [NoMatch EXCEPT !.pc = "guard", !.req = r]
<1>2. MatchOk(m, caller[s])
  BY DEF MatchOk, IsMatch, NoMatch, Field, Compiling
<1>3. Becomes(s, m, caller[s])
  BY <1>1 DEF Ask, Becomes, MatchInv
<1> QED BY <1>2, <1>3, BecomesKeepsInv

LEMMA BindKeepsInv == ASSUME MatchInv, NEW s \in Reader, MatchBind(s) PROVE MatchInv'
<1> MatchOk(match[s], caller[s]) BY DEF MatchInv
<1>1. CASE caller[s] = "auto" /\ match' = [match EXCEPT ![s].pc = IF match[s].req.text THEN "language" ELSE "compile"]
  <2> DEFINE to == IF match[s].req.text THEN "language" ELSE "compile"
             m  == [match[s] EXCEPT !.pc = to]
  <2>1. IsMatch(m) /\ m.pc = to /\ m.req = match[s].req /\ m.query = match[s].query
    BY DEF MatchOk, IsMatch, Field
  <2>2. match[s].query = NoQuery /\ match[s].pc = "guard"
    BY DEF MatchOk, MatchBind
  <2>3. m.pc # "idle" /\ m.query = NoQuery /\ match[s].pc # "idle" /\ caller[s] = "auto"
    BY <1>1, <2>1, <2>2
  <2>4. Becomes(s, m, caller[s])
    BY <1>1 DEF MatchBind, Becomes, MatchInv
  <2> HIDE DEF m, to
  <2>5. MatchOk(m, caller[s])
    BY <2>1, <2>3, MovesOk
  <2> QED BY <2>4, <2>5, BecomesKeepsInv
<1>2. ASSUME NEW how, Ends(s, how) PROVE MatchInv'
  <2>1. caller' = [caller EXCEPT ![s] = caller'[s]]
    BY DEF MatchBind, MatchInv
  <2> QED BY <1>2, <2>1, EndsOk, BecomesKeepsInv DEF Becomes
<1> QED BY <1>1, <1>2 DEF MatchBind

LEMMA LanguageKeepsInv ==
  ASSUME MatchInv, NEW s \in Reader, ResolveSelectorLanguage(s) \/ ParserForTextSelector(s) PROVE MatchInv'
<1> MatchOk(match[s], caller[s]) BY DEF MatchInv
<1>1. match[s].pc \in {"language", "parser"} /\ caller[s] = "auto" /\ match[s].query = NoQuery
  BY DEF ResolveSelectorLanguage, ParserForTextSelector, MatchOk, Compiling
<1>2. caller' = [caller EXCEPT ![s] = caller[s]]
  BY DEF ResolveSelectorLanguage, ParserForTextSelector, MatchInv
<1>3. ASSUME NEW how, Ends(s, how) PROVE MatchInv'
  BY <1>2, <1>3, EndsOk, BecomesKeepsInv DEF Becomes
<1>4. ASSUME NEW lang, match' = [match EXCEPT ![s].pc = "parser", ![s].lang = lang] PROVE MatchInv'
  <2> DEFINE m == [match[s] EXCEPT !.pc = "parser", !.lang = lang]
  <2>1. IsMatch(m) /\ m.pc = "parser" /\ m.req = match[s].req /\ m.query = match[s].query
    BY DEF MatchOk, IsMatch, Field
  <2>2. MatchOk(m, caller[s])
    BY <1>1, <2>1, MovesOk
  <2>3. Becomes(s, m, caller[s])
    BY <1>2, <1>4 DEF Becomes, MatchInv
  <2> QED BY <2>2, <2>3, BecomesKeepsInv
<1>5. ASSUME NEW parser, match' = [match EXCEPT ![s].pc = "compile", ![s].parser = parser] PROVE MatchInv'
  <2> DEFINE m == [match[s] EXCEPT !.pc = "compile", !.parser = parser]
  <2>1. IsMatch(m) /\ m.pc = "compile" /\ m.req = match[s].req /\ m.query = match[s].query
    BY DEF MatchOk, IsMatch, Field
  <2>2. MatchOk(m, caller[s])
    BY <1>1, <2>1, MovesOk
  <2>3. Becomes(s, m, caller[s])
    BY <1>2, <1>5 DEF Becomes, MatchInv
  <2> QED BY <2>2, <2>3, BecomesKeepsInv
<1> QED BY <1>3, <1>4, <1>5 DEF ResolveSelectorLanguage, ParserForTextSelector

\* The label of a compiled query names who read the selector.
LEMMA LabelIsWhoRead ==
  ASSUME NEW m, m.req \in Requests, m.req.text => m.parser \in DOMAIN Stamps,
         SelectorIr(m.req, m.parser) # NULL
  PROVE  Label(m.req, SelectorIr(m.req, m.parser), m.lang) = WhoRead(m)
<1> DEFINE ir == SelectorIr(m.req, m.parser)
<1>1. CASE m.req.language # NULL
  BY <1>1 DEF Label, WhoRead
<1>2. CASE m.req.language = NULL /\ m.req.text
  <2>1. m.req.sel # NULL /\ ir = [m.req.sel EXCEPT !.stamp = Stamps[m.parser]]
    BY <1>2 DEF SelectorIr
  <2>2. ir.stamp = Stamps[m.parser] /\ ir.stamp # NULL
    BY <1>2, <2>1, RequestsAssumption, StampsAssumption
  <2> QED BY <1>2, <2>2 DEF Label, WhoRead
<1>3. CASE m.req.language = NULL /\ ~m.req.text
  <2>1. ir = m.req.sel
    BY <1>3 DEF SelectorIr
  <2> QED BY <1>3, <2>1 DEF Label, WhoRead
<1> QED BY <1>1, <1>2, <1>3

LEMMA CompileKeepsInv == ASSUME MatchInv, NEW s \in Reader, CompileMatch(s) PROVE MatchInv'
<1> MatchOk(match[s], caller[s]) BY DEF MatchInv
<1>1. match[s].pc = "compile" /\ caller[s] = "auto" /\ match[s].req \in Requests
  BY DEF CompileMatch, MatchOk, Compiling
<1>2. caller' = [caller EXCEPT ![s] = caller[s]]
  BY DEF CompileMatch, MatchInv
<1>3. ASSUME NEW how, Ends(s, how) PROVE MatchInv'
  BY <1>2, <1>3, EndsOk, BecomesKeepsInv DEF Becomes
<1> DEFINE ir == SelectorIr(match[s].req, match[s].parser)
           q  == MatchQuery(db, match[s].req, ir, match[s].lang)
           m  == [match[s] EXCEPT !.pc = "shape", !.query = q]
<1>4. CASE /\ match[s].req.text => match[s].parser \in DOMAIN Stamps
           /\ Compilable(db, match[s].req, ir)
           /\ match' = [match EXCEPT ![s].pc = "shape", ![s].query = q]
  <2>1. q.label = Label(match[s].req, ir, match[s].lang)
    BY DEF MatchQuery
  <2>2. ir # NULL
    BY <1>4 DEF Compilable
  <2>3. q.label = WhoRead(match[s])
    BY <1>1, <1>4, <2>1, <2>2, LabelIsWhoRead
  <2>4. IsMatch(m) /\ m.pc = "shape" /\ m.query = q /\ m.req = match[s].req /\ m.parser = match[s].parser
    BY DEF MatchOk, IsMatch, Field
  <2>5. WhoRead(m) = WhoRead(match[s])
    BY <2>4 DEF WhoRead
  <2>6. MatchOk(m, caller[s])
    BY <1>1, <2>3, <2>4, <2>5 DEF MatchOk
  <2>7. Becomes(s, m, caller[s])
    BY <1>2, <1>4 DEF Becomes, MatchInv
  <2> QED BY <2>6, <2>7, BecomesKeepsInv
<1> QED BY <1>3, <1>4 DEF CompileMatch

LEMMA ShapeKeepsInv == ASSUME MatchInv, NEW s \in Reader, MatchShape(s) PROVE MatchInv'
<1> MatchOk(match[s], caller[s]) BY DEF MatchInv
<1>1. match[s].pc = "shape" /\ caller' = [caller EXCEPT ![s] = caller[s]]
  BY DEF MatchShape, MatchInv
<1>2. CASE match' = [match EXCEPT ![s] = [NoMatch EXCEPT !.how = "refused"]]
  BY <1>1, <1>2, NoMatchOk, BecomesKeepsInv DEF Becomes
<1>3. ASSUME NEW columns, match' = [match EXCEPT ![s].pc = "bound", ![s].columns = columns] PROVE MatchInv'
  <2> DEFINE m == [match[s] EXCEPT !.pc = "bound", !.columns = columns]
  <2>1. IsMatch(m) /\ m.pc = "bound" /\ m.req = match[s].req /\ m.query = match[s].query /\ m.parser = match[s].parser
    BY DEF MatchOk, IsMatch, Field
  <2>2. Becomes(s, m, caller[s])
    BY <1>1, <1>3 DEF Becomes, MatchInv
  <2>3. m.pc \notin Compiling
    BY <2>1 DEF Compiling
  <2> HIDE DEF m
  <2>4. MatchOk(m, caller[s])
    BY <1>1, <2>1, <2>3, MovesOk
  <2> QED BY <2>2, <2>4, BecomesKeepsInv
<1> QED BY <1>2, <1>3 DEF MatchShape

LEMMA InitKeepsInv == ASSUME MatchInv, NEW s \in Reader, MatchInit(s) PROVE MatchInv'
<1> MatchOk(match[s], caller[s]) BY DEF MatchInv
<1>1. match[s].pc = "bound" /\ caller' = [caller EXCEPT ![s] = caller'[s]]
  BY DEF MatchInit, MatchInv
<1>2. ASSUME NEW how, Ends(s, how) PROVE MatchInv'
  BY <1>1, <1>2, EndsOk, BecomesKeepsInv DEF Becomes
<1>3. ASSUME NEW all, match' = [match EXCEPT ![s].pc = "open", ![s].shown = all, ![s].rest = all] PROVE MatchInv'
  <2> DEFINE m == [match[s] EXCEPT !.pc = "open", !.shown = all, !.rest = all]
  <2>1. IsMatch(m) /\ m.pc = "open" /\ m.req = match[s].req /\ m.query = match[s].query /\ m.parser = match[s].parser
    BY DEF MatchOk, IsMatch, Field
  <2>2. Becomes(s, m, caller'[s])
    BY <1>1, <1>3 DEF Becomes, MatchInv
  <2>3. m.pc \notin Compiling
    BY <2>1 DEF Compiling
  <2> HIDE DEF m
  <2>4. MatchOk(m, caller'[s])
    BY <1>1, <2>1, <2>3, MovesOk
  <2> QED BY <2>2, <2>4, BecomesKeepsInv
<1> QED BY <1>2, <1>3 DEF MatchInit

LEMMA InOutKeepsInv ==
  ASSUME MatchInv, NEW s \in Reader, MatchInOut(s) \/ Abandon(s) \/ BoundOnly(s) PROVE MatchInv'
<1> MatchOk(match[s], caller[s]) BY DEF MatchInv
<1>1. caller' = [caller EXCEPT ![s] = caller[s]]
  BY DEF MatchInOut, Abandon, BoundOnly, MatchInv
<1>2. ASSUME NEW how, Ends(s, how) PROVE MatchInv'
  BY <1>1, <1>2, EndsOk, BecomesKeepsInv DEF Becomes
<1>3. ASSUME NEW rest, match[s].pc = "open", match' = [match EXCEPT ![s].rest = rest] PROVE MatchInv'
  <2> DEFINE m == [match[s] EXCEPT !.rest = rest]
  <2>1. IsMatch(m) /\ m.pc = "open" /\ m.req = match[s].req /\ m.query = match[s].query /\ m.parser = match[s].parser
    BY <1>3 DEF MatchOk, IsMatch, Field
  <2>2. Becomes(s, m, caller[s])
    BY <1>1, <1>3 DEF Becomes, MatchInv
  <2>3. m.pc \notin Compiling
    BY <2>1 DEF Compiling
  <2> HIDE DEF m
  <2>4. MatchOk(m, caller[s])
    BY <1>3, <2>1, <2>3, MovesOk
  <2> QED BY <2>2, <2>4, BecomesKeepsInv
<1> QED BY <1>2, <1>3 DEF MatchInOut, Abandon, BoundOnly

\* A caller's own statements run when no match of its is being compiled.
LEMMA CallerKeepsInv ==
  ASSUME MatchInv, NEW s \in Reader,
         BeginExplicit(s) \/ EditInside(s) \/ CommitExplicit(s) \/ RollBackExplicit(s)
  PROVE  MatchInv'
<1> MatchOk(match[s], caller[s]) BY DEF MatchInv
<1>1. match' = match /\ match[s].pc \in {"idle", "bound"}
  BY DEF BeginExplicit, EditInside, CommitExplicit, RollBackExplicit, Resting
<1>2. caller' = [caller EXCEPT ![s] = caller'[s]]
  BY DEF BeginExplicit, EditInside, CommitExplicit, RollBackExplicit, Leaves, MatchInv
<1>3. MatchOk(match[s], caller'[s])
  BY <1>1 DEF MatchOk, Compiling
<1>4. Becomes(s, match[s], caller'[s])
  BY <1>1, <1>2 DEF Becomes, MatchInv
<1> QED BY <1>3, <1>4, BecomesKeepsInv

LEMMA InitMatchInv == Init => MatchInv
<1> SUFFICES ASSUME Init PROVE MatchInv
  OBVIOUS
<1>1. MatchOk(NoMatch, "auto")
  BY DEF MatchOk, IsMatch, NoMatch, Field, Compiling
<1> QED BY <1>1 DEF Init, MatchInv

LEMMA NextMatchInv == MatchInv /\ [Next]_vars => MatchInv'
<1> SUFFICES ASSUME MatchInv, [Next]_vars PROVE MatchInv'
  OBVIOUS
<1>1. CASE UNCHANGED vars
  BY <1>1 DEF vars, matchVars, MatchInv
<1>2. CASE EditCommitted \/ OtherVerb \/ LoadStep
  BY <1>2 DEF EditCommitted, OtherVerb, LoadStep, matchVars, MatchInv
<1>3. CASE ProcessExit
  <2>1. MatchOk(NoMatch, "auto")
    BY DEF MatchOk, IsMatch, NoMatch, Field, Compiling
  <2> QED BY <1>3, <2>1 DEF ProcessExit, MatchInv
<1>4. ASSUME NEW s \in Reader, BeginExplicit(s) \/ EditInside(s) \/ CommitExplicit(s) \/ RollBackExplicit(s)
      PROVE  MatchInv'
  BY <1>4, CallerKeepsInv
<1>5. ASSUME NEW s \in Reader, Ask(s) \/ MatchStep(s) \/ Execute(s) \/ Abandon(s) PROVE MatchInv'
  BY <1>5, AskKeepsInv, BindKeepsInv, LanguageKeepsInv, CompileKeepsInv, ShapeKeepsInv, InitKeepsInv, InOutKeepsInv
     DEF MatchStep, Execute
<1> QED BY <1>1, <1>2, <1>3, <1>4, <1>5 DEF Next

LEMMA MatchInvAlways == Spec => []MatchInv
BY InitMatchInv, NextMatchInv, PTL DEF Spec

\* _match_language is the language the caller named, or that of the front-end that
\* read the selector, whatever the default and the registry were or have become
\* (tree_compile_match, ResolveSelectorLanguage).
THEOREM LabelsSayWhoRead == Spec => []LabelSaysWhoRead
<1>1. MatchInv => LabelSaysWhoRead
  BY DEF MatchInv, MatchOk, LabelSaysWhoRead
<1> QED BY <1>1, MatchInvAlways, PTL

-----------------------------------------------------------------------------
(* tree_match: what a step may do.                                         *)

\* A reader's match changes by a step of its own, or is gone with the process.
LEMMA OwnSteps ==
  ASSUME MatchInv, [Next]_vars, NEW s \in Reader
  PROVE  \/ match'[s] = match[s] \/ match'[s] = NoMatch
         \/ Ask(s) \/ MatchBind(s) \/ ResolveSelectorLanguage(s) \/ ParserForTextSelector(s) \/ CompileMatch(s)
         \/ MatchShape(s) \/ BoundOnly(s) \/ MatchInit(s) \/ MatchInOut(s) \/ Abandon(s)
<1>1. CASE UNCHANGED vars
  BY <1>1 DEF vars, matchVars
<1>2. CASE EditCommitted \/ OtherVerb \/ LoadStep \/ ProcessExit
  BY <1>2 DEF EditCommitted, OtherVerb, LoadStep, ProcessExit, matchVars
<1>3. ASSUME NEW t \in Reader, BeginExplicit(t) \/ EditInside(t) \/ CommitExplicit(t) \/ RollBackExplicit(t)
      PROVE  match' = match
  <2>1. BeginExplicit(t) \/ EditInside(t) \/ RollBackExplicit(t) => match' = match
    BY DEF BeginExplicit, EditInside, RollBackExplicit
  <2>2. CommitExplicit(t) => match' = match
    BY CommitKeeps
  <2> QED BY <1>3, <2>1, <2>2
<1>4. ASSUME NEW t \in Reader, t # s, Ask(t) \/ MatchStep(t) \/ Execute(t) \/ Abandon(t)
      PROVE  match'[s] = match[s]
  BY <1>4, Zenon DEF Ask, MatchStep, Execute, Abandon, MatchBind, ResolveSelectorLanguage, ParserForTextSelector,
              CompileMatch, MatchShape, BoundOnly, MatchInOut, MatchInit, Ends, MatchInv
<1> QED BY <1>1, <1>2, <1>3, <1>4 DEF Next, MatchStep, Execute

Plan == {"lang", "parser", "query"}

LEMMA EndsTakesNothing ==
  ASSUME MatchInv, NEW s \in Reader, NEW how, Ends(s, how)
  PROVE  match'[s].pc # "open" /\ \A f \in Plan : ~Takes(s, f)
<1> MatchOk(match[s], caller[s]) BY DEF MatchInv
<1>1. match'[s].pc # "open"
  BY EndsOk
<1>2. \A f \in Plan : match'[s][f] = match[s][f] \/ match'[s][f] = NoMatch[f]
  BY DEF Ends, MatchInv, MatchOk, IsMatch, NoMatch, Field, Plan
<1> QED BY <1>1, <1>2 DEF Takes

\* A match hands out rows only after MatchInit, outside its caller's transaction.
LEMMA OnlyInitOpens ==
  ASSUME MatchInv, [Next]_vars, NEW s \in Reader, Opens(s)
  PROVE  caller[s] = "auto" /\ match'[s].shown = Answer(db, match[s].query)
<1> MatchOk(match[s], caller[s]) BY DEF MatchInv
<1>1. match'[s].pc = "open" /\ match[s].pc = "bound" /\ match'[s] # NoMatch /\ match'[s] # match[s]
  BY DEF Opens, NoMatch
<1>2. \A how : ~Ends(s, how)
  BY <1>1, EndsTakesNothing
<1>3. MatchInit(s)
  <2>1. ASSUME Ask(s) PROVE FALSE
    <3>1. PICK r : match' = [match EXCEPT ![s] = [NoMatch EXCEPT !.pc = "guard", !.req = r]]
      BY <2>1 DEF Ask
    <3>2. match'[s] = [NoMatch EXCEPT !.pc = "guard", !.req = r]
      BY <3>1 DEF MatchInv
    <3>3. match'[s].pc = "guard"
      BY <3>2 DEF NoMatch
    <3> QED BY <1>1, <3>3
  <2>2. ~(MatchBind(s) \/ ResolveSelectorLanguage(s) \/ ParserForTextSelector(s) \/ CompileMatch(s) \/ MatchShape(s))
    BY <1>1 DEF MatchBind, ResolveSelectorLanguage, ParserForTextSelector, CompileMatch, MatchShape
  <2>3. ~(BoundOnly(s) \/ MatchInOut(s) \/ Abandon(s))
    BY <1>1, <1>2 DEF BoundOnly, MatchInOut, Abandon
  <2> QED BY <1>1, <2>1, <2>2, <2>3, OwnSteps
<1> DEFINE all == Answer(db, match[s].query)
<1>4. caller[s] = "auto" /\ match' = [match EXCEPT ![s].pc = "open", ![s].shown = all, ![s].rest = all]
  BY <1>2, <1>3 DEF MatchInit
<1> HIDE DEF all
<1>5. match'[s] = [match[s] EXCEPT !.pc = "open", !.shown = all, !.rest = all]
  BY <1>4 DEF MatchInv
<1>6. match'[s].shown = all
  BY <1>5 DEF MatchOk, IsMatch, Field
<1> QED BY <1>4, <1>6 DEF all

\* The rows a match hands out are what its caller's own session would read then,
\* whether it was bound just now or prepared before (MatchBind, MatchInit).
THEOREM AnswersAgreeWithTheirReader == Spec => AnswersSeeOwnWrites
<1>1. MatchInv /\ [Next]_vars => [\A s \in Reader : Opens(s) => match'[s].shown = Answer(Sees(s).db, match[s].query)]_vars
  <2> SUFFICES ASSUME MatchInv, [Next]_vars, NEW s \in Reader, Opens(s)
               PROVE  match'[s].shown = Answer(Sees(s).db, match[s].query)
    OBVIOUS
  <2>1. Sees(s).db = db
    BY OnlyInitOpens DEF Sees, Committed
  <2> QED BY <2>1, OnlyInitOpens
<1> QED BY <1>1, MatchInvAlways, PTL DEF Spec, AnswersSeeOwnWrites

\* What a plan is made of is taken by the three reads of the bind, each of which
\* sees what is committed, outside its caller's transaction.
LEMMA OnlyBindPlans ==
  ASSUME MatchInv, [Next]_vars, NEW s \in Reader, NEW f \in Plan, Takes(s, f)
  PROVE  /\ caller[s] = "auto"
         /\ \/ f = "lang" /\ ResolveSelectorLanguage(s)
            \/ f = "parser" /\ ParserForTextSelector(s)
            \/ f = "query" /\ CompileMatch(s)
         /\ \A how : ~Ends(s, how)
<1> MatchOk(match[s], caller[s]) BY DEF MatchInv
<1>1. match'[s][f] # match[s][f] /\ match'[s][f] # NoMatch[f]
  BY DEF Takes
<1>2. \A how : ~Ends(s, how)
  BY EndsTakesNothing
<1>3. ASSUME Ask(s) PROVE FALSE
  <2>1. PICK r \in Requests : match' = [match EXCEPT ![s] = [NoMatch EXCEPT !.pc = "guard", !.req = r]]
    BY <1>3 DEF Ask
  <2>2. match'[s] = [NoMatch EXCEPT !.pc = "guard", !.req = r]
    BY <2>1 DEF MatchInv
  <2>3. NoMatch = [g \in Field |-> NoMatch[g]] /\ f \in Field /\ f \notin {"pc", "req"}
    BY DEF NoMatch, Field, Plan
  <2>4. match'[s][f] = NoMatch[f]
    BY <2>2, <2>3
  <2> QED BY <1>1, <2>4
<1>4. ~(MatchBind(s) \/ BoundOnly(s) \/ Abandon(s))
  BY <1>1, <1>2 DEF MatchBind, BoundOnly, Abandon, MatchInv, MatchOk, IsMatch, Field, Plan
<1>5. ~MatchShape(s)
  BY <1>1, <1>2 DEF MatchShape, MatchInv, MatchOk, IsMatch, Field, Plan, NoMatch
<1>6. ~(MatchInit(s) \/ MatchInOut(s))
  BY <1>1, <1>2 DEF MatchInit, MatchInOut, MatchInv, MatchOk, IsMatch, Field, Plan
<1>7. ResolveSelectorLanguage(s) \/ ParserForTextSelector(s) \/ CompileMatch(s)
  BY <1>1, <1>3, <1>4, <1>5, <1>6, OwnSteps
<1>8. caller[s] = "auto"
  BY <1>7 DEF ResolveSelectorLanguage, ParserForTextSelector, CompileMatch, MatchOk, Compiling
<1>9. CASE ResolveSelectorLanguage(s)
  BY <1>1, <1>2, <1>8, <1>9 DEF ResolveSelectorLanguage, MatchInv, MatchOk, IsMatch, Field, Plan
<1>10. CASE ParserForTextSelector(s)
  BY <1>1, <1>2, <1>8, <1>10 DEF ParserForTextSelector, MatchInv, MatchOk, IsMatch, Field, Plan
<1>11. CASE CompileMatch(s)
  BY <1>1, <1>2, <1>8, <1>11 DEF CompileMatch, MatchInv, MatchOk, IsMatch, Field, Plan
<1> QED BY <1>7, <1>9, <1>10, <1>11

\* A plan is made from the registry and the catalog as its caller's own session
\* sees them; EXPLAIN, which never reaches MatchInit, included (MatchBind).
THEOREM PlansAgreeWithTheirReader == Spec => PlansSeeOwnWrites
<1>1. MatchInv /\ [Next]_vars =>
        [\A s \in Reader :
           LET req == match[s].req IN
           /\ Takes(s, "lang")   => match'[s].lang \in {req.language, Sees(s).registry.default}
           /\ Takes(s, "parser") => match'[s].parser = Sees(s).registry.parser[match[s].lang]
           /\ Takes(s, "query")  =>
                match'[s].query = MatchQuery(Sees(s).db, req, SelectorIr(req, match[s].parser), match[s].lang)]_vars
  <2> SUFFICES ASSUME MatchInv, [Next]_vars, NEW s \in Reader
               PROVE  LET req == match[s].req IN
                      /\ Takes(s, "lang")   => match'[s].lang \in {req.language, Sees(s).registry.default}
                      /\ Takes(s, "parser") => match'[s].parser = Sees(s).registry.parser[match[s].lang]
                      /\ Takes(s, "query")  =>
                           match'[s].query = MatchQuery(Sees(s).db, req, SelectorIr(req, match[s].parser), match[s].lang)
    OBVIOUS
  <2> MatchOk(match[s], caller[s]) BY DEF MatchInv
  <2> {"lang", "parser", "query"} \subseteq Plan BY DEF Plan
  <2>1. caller[s] = "auto" => Sees(s).db = db /\ Sees(s).registry = registry
    BY DEF Sees, Committed
  <2>2. ASSUME Takes(s, "lang") PROVE match'[s].lang \in {match[s].req.language, Sees(s).registry.default}
    <3>1. ResolveSelectorLanguage(s) /\ caller[s] = "auto" /\ \A how : ~Ends(s, how)
      BY <2>2, OnlyBindPlans
    <3>2. PICK lang \in {match[s].req.language, registry.default} :
            match' = [match EXCEPT ![s].pc = "parser", ![s].lang = lang]
      BY <3>1 DEF ResolveSelectorLanguage
    <3>3. match'[s].lang = lang
      BY <3>2 DEF MatchInv, MatchOk, IsMatch, Field
    <3> QED BY <2>1, <3>1, <3>3
  <2>3. ASSUME Takes(s, "parser") PROVE match'[s].parser = Sees(s).registry.parser[match[s].lang]
    <3>1. ParserForTextSelector(s) /\ caller[s] = "auto" /\ \A how : ~Ends(s, how)
      BY <2>3, OnlyBindPlans
    <3>2. match' = [match EXCEPT ![s].pc = "compile", ![s].parser = registry.parser[match[s].lang]]
      BY <3>1 DEF ParserForTextSelector
    <3>3. match'[s].parser = registry.parser[match[s].lang]
      BY <3>2 DEF MatchInv, MatchOk, IsMatch, Field
    <3> QED BY <2>1, <3>1, <3>3
  <2>4. ASSUME Takes(s, "query")
        PROVE  match'[s].query =
                 MatchQuery(Sees(s).db, match[s].req, SelectorIr(match[s].req, match[s].parser), match[s].lang)
    <3> DEFINE q(d) == MatchQuery(d, match[s].req, SelectorIr(match[s].req, match[s].parser), match[s].lang)
    <3>1. CompileMatch(s) /\ caller[s] = "auto" /\ \A how : ~Ends(s, how)
      BY <2>4, OnlyBindPlans
    <3>2. match' = [match EXCEPT ![s].pc = "shape", ![s].query = q(db)]
      BY <3>1 DEF CompileMatch
    <3> HIDE DEF q
    <3>3. match'[s].query = q(db)
      BY <3>2 DEF MatchInv, MatchOk, IsMatch, Field
    <3>4. q(Sees(s).db) = q(db)
      BY <2>1, <3>1
    <3> QED BY <3>3, <3>4 DEF q
  <2> QED BY <2>2, <2>3, <2>4
<1> QED BY <1>1, MatchInvAlways, PTL DEF Spec, PlansSeeOwnWrites

-----------------------------------------------------------------------------
(* A verb of another session, as one step: what it makes of the trees.     *)

\* A list that registers no tree but those of S.
Registers(l, S) == IsList(l) /\ \A i \in DOMAIN l : l[i].op = "register" => l[i].t \in S

LEMMA RegistersNone == \A S : Registers(<<>>, S)
<1>1. DOMAIN <<>> = {}
  OBVIOUS
<1> QED BY <1>1, NoList DEF Registers

LEMMA RegistersOne == \A st, S : (st.op = "register" => st.t \in S) => Registers(<<st>>, S)
<1>1. \A st : DOMAIN <<st>> = {1} /\ <<st>>[1] = st
  OBVIOUS
<1> QED BY <1>1, OneList DEF Registers

LEMMA RegistersBoth == \A a, b, S : Registers(a, S) /\ Registers(b, S) => Registers(a \o b, S)
<1> SUFFICES ASSUME NEW a, NEW b, NEW S, Registers(a, S), Registers(b, S) PROVE Registers(a \o b, S)
  OBVIOUS
<1>1. IsList(a) /\ IsList(b)
  BY DEF Registers
<1>2. /\ Len(a) \in Nat /\ Len(b) \in Nat /\ DOMAIN a = 1 .. Len(a) /\ DOMAIN b = 1 .. Len(b)
      /\ IsList(a \o b) /\ Len(a \o b) = Len(a) + Len(b) /\ DOMAIN (a \o b) = 1 .. Len(a \o b)
  BY <1>1, ListMeans, ListsJoin
<1>3. ASSUME NEW i \in 1 .. Len(a) + Len(b), (a \o b)[i].op = "register" PROVE (a \o b)[i].t \in S
  <2>1. CASE i <= Len(a)
    <3>1. i \in 1 .. Len(a)
      BY <1>2, <2>1
    <3>2. (a \o b)[i] = a[i]
      BY <1>1, <3>1, ListsJoin
    <3> QED BY <1>2, <1>3, <3>1, <3>2 DEF Registers
  <2>2. CASE i > Len(a)
    <3>1. i - Len(a) \in 1 .. Len(b) /\ Len(a) + (i - Len(a)) = i
      BY <1>2, <2>2
    <3>2. (a \o b)[Len(a) + (i - Len(a))] = b[i - Len(a)]
      BY <1>1, <3>1, ListsJoin
    <3> QED BY <1>2, <1>3, <3>1, <3>2 DEF Registers
  <2> QED BY <1>2, <2>1, <2>2
<1> QED BY <1>2, <1>3 DEF Registers

LEMMA RegistersEach == \A rels, where, S : IsList(rels) => Registers(DeleteFromEach(rels, where), S)
<1> SUFFICES ASSUME NEW rels, NEW where, NEW S, IsList(rels) PROVE Registers(DeleteFromEach(rels, where), S)
  OBVIOUS
<1> DEFINE st(i) == [op |-> "delete", rel |-> rels[i], where |-> where]
<1> DEFINE l == DeleteFromEach(rels, where)
<1>1. Len(rels) \in Nat /\ DOMAIN rels = 1 .. Len(rels)
  BY ListMeans
<1>2. l = [i \in 1 .. Len(rels) |-> st(i)] /\ \A i \in DOMAIN l : l[i].op = "delete"
  BY <1>1 DEF DeleteFromEach
<1> HIDE DEF st
<1>3. l \in Seq({st(i) : i \in 1 .. Len(rels)})
  BY <1>1, <1>2
<1> HIDE DEF l
<1>4. IsList(l)
  BY <1>3, ListOf
<1> QED BY <1>2, <1>4 DEF Registers, l

\* Only tree_compile_create's first statement registers a tree.
LEMMA StatementsRegister ==
  ASSUME NEW S
  PROVE  /\ \A t, sem : Registers(SetSemantic(t, sem), S)
         /\ \A rel, rows : Registers(InsertInto(rel, rows), S)
         /\ \A rel, where : Registers(DeleteFrom(rel, where), S)
         /\ \A rel, where, new : Registers(Update(rel, where, new), S)
         /\ \A defects, src : Registers(CheckSource(defects, src), S)
         /\ \A defects : Registers(CheckNew(defects), S)
         /\ \A ordersrc : Registers(FrozenGuard(ordersrc), S)
         /\ \A t, text : Registers(Macro(t, text), S)
         /\ \A op, t : op # "register" => Registers(Tree(op, t), S)
         /\ \A op, t, src : op # "register" => Registers(TreeSource(op, t, src), S)
         /\ \A op, t, src, ordersrc : op # "register" => Registers(Project(op, t, src, ordersrc), S)
         /\ \A t, art, defect, rel : Registers(Assertion(t, art, defect, rel), S)
         /\ \A t, abstract, source, storage, ordersrc, sem :
              t \in S => Registers(Register(t, abstract, source, storage, ordersrc, sem), S)
<1>1. \A t, sem : Registers(SetSemantic(t, sem), S)
  BY RegistersOne DEF SetSemantic
<1>2. \A rel, rows : Registers(InsertInto(rel, rows), S)
  BY RegistersOne DEF InsertInto
<1>3. \A rel, where : Registers(DeleteFrom(rel, where), S)
  BY RegistersOne DEF DeleteFrom
<1>4. \A rel, where, new : Registers(Update(rel, where, new), S)
  BY RegistersOne DEF Update
<1>5. (\A defects, src : Registers(CheckSource(defects, src), S)) /\ \A defects : Registers(CheckNew(defects), S)
  BY RegistersOne DEF CheckSource, CheckNew
<1>6. \A ordersrc : Registers(FrozenGuard(ordersrc), S)
  BY RegistersOne, RegistersNone DEF FrozenGuard, When
<1>7. \A t, text : Registers(Macro(t, text), S)
  BY RegistersOne DEF Macro
<1>8. \A op, t : op # "register" => Registers(Tree(op, t), S)
  BY RegistersOne DEF Tree
<1>9. \A op, t, src : op # "register" => Registers(TreeSource(op, t, src), S)
  BY RegistersOne DEF TreeSource
<1>10. \A op, t, src, ordersrc : op # "register" => Registers(Project(op, t, src, ordersrc), S)
  BY RegistersOne DEF Project
<1>11. ASSUME NEW t, NEW art, NEW defect, NEW rel PROVE Registers(Assertion(t, art, defect, rel), S)
  <2>1. Registers(<<[op |-> "assert", t |-> t, art |-> art, defect |-> defect, rel |-> rel]>>, S)
    BY RegistersOne
  <2> QED BY <1>3, <2>1, RegistersBoth DEF Assertion
<1>12. \A t, abstract, source, storage, ordersrc, sem :
         t \in S => Registers(Register(t, abstract, source, storage, ordersrc, sem), S)
  BY RegistersOne DEF Register
<1> QED BY <1>1, <1>2, <1>3, <1>4, <1>5, <1>6, <1>7, <1>8, <1>9, <1>10, <1>11, <1>12

LEMMA RegistersWhen == ASSUME NEW c, NEW l, NEW S, Registers(l, S) PROVE Registers(When(c, l), S)
BY RegistersNone DEF When

LEMMA SourceRegisters ==
  ASSUME NEW S, NEW slots, NEW src, NEW gate
  PROVE  Registers(SourceChecks(slots, src, gate), S)
BY StatementsRegister, RegistersWhen, RegistersBoth DEF SourceChecks

LEMMA OneCheckRegisters ==
  ASSUME NEW S, NEW c, NEW defects, NEW src
  PROVE  Registers(When(c, CheckSource(defects, src)), S) /\ Registers(When(c, CheckNew(defects)), S)
BY StatementsRegister, RegistersWhen

LEMMA CreateRegisters ==
  ASSUME NEW d, NEW p, NEW t, NEW spec, ~CompileCreate(d, p, t, spec).refused
  PROVE  Registers(CompileCreate(d, p, t, spec).list, {t}) /\ ~Collides(d, t)
<1> DEFINE slots == CreateSlots(d, spec)
<1> DEFINE preds == CreatePreds(d, spec)
<1> DEFINE sem == Declares(slots, preds) \/ CreateLike(d, spec)
<1> DEFINE src == spec.source
<1>1. /\ CompileCreate(d, p, t, spec).list = CreateList(t, spec.abstract, src, spec.storage, slots, preds, sem)
      /\ ~Collides(d, t)
  BY CreateIs
<1> HIDE DEF slots, preds, sem
<1>2. Registers(CreateChecks(slots, src), {t}) /\ \A text : Registers(Records(t, text), {t})
  <2> DEFINE a == SourceChecks(slots, src, "UNIQUE KEY" \in slots)
  <2> DEFINE b == When(~LevelBasis(slots), CheckSource({"reach"}, src))
  <2> DEFINE v == CheckSource({"shadow"}, src)
  <2> DEFINE w == CheckSource(P13Arms, src)
  <2>1. CreateChecks(slots, src) = a \o b \o v \o w
    BY DEF CreateChecks
  <2>2. Registers(a, {t}) /\ Registers(b, {t}) /\ Registers(v, {t}) /\ Registers(w, {t})
    BY SourceRegisters, OneCheckRegisters, StatementsRegister
  <2>3. \A text : Registers(Records(t, text), {t})
    BY StatementsRegister, RegistersBoth DEF Records
  <2> HIDE DEF a, b, v, w
  <2> QED BY <2>1, <2>2, <2>3, RegistersBoth
<1>3. Registers(CreateList(t, spec.abstract, src, spec.storage, slots, preds, sem), {t})
  BY <1>2, StatementsRegister, RegistersWhen, RegistersBoth, SMTT(20) DEF CreateList
<1> QED BY <1>1, <1>3

LEMMA DropRegisters == ASSUME NEW d, NEW t, ~CompileDrop(d, t).refused PROVE Registers(CompileDrop(d, t).list, {})
<1> DEFINE l == DeleteFromEach(DroppedFrom, [t |-> t])
<1> DEFINE a == Tree("drop_macro", t)
<1> DEFINE b == Tree("drop_table", t)
<1>1. IsList(DroppedFrom)
  <2>1. DroppedFrom \in Seq({"trees", "slots", "predicates", "compiled", "partitions", "assertions"})
    BY DEF DroppedFrom
  <2> QED BY <2>1, ListOf
<1>2. Registers(l, {}) /\ Registers(a, {}) /\ Registers(b, {})
  BY <1>1, RegistersEach, StatementsRegister
<1>3. CompileDrop(d, t).list = l \o a \o b
  BY DEF CompileDrop, Refused, Compiled
<1> HIDE DEF l, a, b
<1> QED BY <1>2, <1>3, RegistersBoth

LEMMA AlterRegisters ==
  ASSUME NEW d, NEW t, NEW sem, ~CompileAlter(d, t, sem).refused
  PROVE  Registers(CompileAlter(d, t, sem).list, {})
<1> DEFINE row == TreeRow(d, t)
<1> DEFINE slots == AlterSlots(d, t, sem)
<1> DEFINE sslots == sem.slots \cup {"ATTR"}
<1> DEFINE preds == AlterPreds(sem)
<1> DEFINE concrete == ~row.abstract
<1> DEFINE stored == concrete /\ row.storage = "materialized"
<1> DEFINE src == row.source
<1> DEFINE l1 == FrozenGuard(row.ordersrc)
<1> DEFINE a1 == SourceChecks(slots, src, "UNIQUE KEY" \in slots)
<1> DEFINE a2 == When(~LevelBasis(slots), CheckSource({"reach"}, src))
<1> DEFINE l2 == When(concrete, a1 \o a2)
<1> DEFINE l3 == When(stored, TreeSource("foreign_check", t, src) \o TreeSource("drift_check", t, src))
<1> DEFINE l4 == When(concrete, CheckSource({"shadow"}, src) \o CheckSource(P13Arms, src))
<1> DEFINE l5 == When(stored /\ OverrideSlots(slots) # {}, CheckSource(OverrideSlots(slots), src))
<1> DEFINE l6 == AlterClears(t)
<1> DEFINE l7 == InsertInto("slots", SlotRows(t, slots, sslots))
<1> DEFINE l8 == When(preds # {}, InsertInto("predicates", PredRows(t, preds)))
<1> DEFINE l9 == SetSemantic(t, AlterSemantic(row, sem.slots, preds))
<1> DEFINE l10 == AlterRebuilds(t, row, slots)
<1>1. CompileAlter(d, t, sem).list = l1 \o l2 \o l3 \o l4 \o l5 \o l6 \o l7 \o l8 \o l9 \o l10
  BY Zenon DEF CompileAlter, Compiled, Refused, AlterSlots, AlterPreds
<1>2. Registers(a1, {}) /\ Registers(a2, {})
  BY SourceRegisters, OneCheckRegisters
<1> HIDE DEF a1, a2
<1>3. Registers(l1, {}) /\ Registers(l2, {}) /\ Registers(l3, {}) /\ Registers(l4, {}) /\ Registers(l5, {})
  <2>1. Registers(l1, {}) /\ Registers(l2, {})
    BY <1>2, StatementsRegister, RegistersWhen, RegistersBoth
  <2>2. Registers(l3, {})
    BY StatementsRegister, RegistersWhen, RegistersBoth
  <2>3. Registers(l4, {}) /\ Registers(l5, {})
    BY StatementsRegister, RegistersWhen, RegistersBoth
  <2> QED BY <2>1, <2>2, <2>3
<1>4. Registers(l6, {}) /\ Registers(l7, {}) /\ Registers(l8, {}) /\ Registers(l9, {})
  BY StatementsRegister, RegistersWhen, RegistersBoth, SMTT(20) DEF AlterClears
<1>5. Registers(l10, {})
  <2> HIDE DEF row, slots, preds
  <2> DEFINE m1 == When(~row.abstract /\ row.storage = "materialized",
                       Project("replace_table", t, row.source, row.ordersrc))
  <2> DEFINE m2 == Macro(t, ServedBy(row.storage, t, slots, row.source))
  <2> DEFINE m3 == Update("compiled", [t |-> t, art |-> "projection"], [text |-> Projection(slots, row.source)])
  <2> DEFINE m4 == DeleteFrom("compiled", [t |-> t, art |-> "attribute_columns"])
  <2> DEFINE m5 == Tree("attribute_columns", t)
  <2>1. l10 = m1 \o When(~row.abstract, m2 \o m3 \o m4 \o m5)
    BY DEF AlterRebuilds
  <2>2. Registers(m1, {}) /\ Registers(m2, {}) /\ Registers(m3, {}) /\ Registers(m4, {}) /\ Registers(m5, {})
    BY StatementsRegister, RegistersWhen
  <2> HIDE DEF m1, m2, m3, m4, m5
  <2>3. Registers(When(~row.abstract, m2 \o m3 \o m4 \o m5), {})
    BY <2>2, RegistersWhen, RegistersBoth
  <2> QED BY <2>1, <2>2, <2>3, RegistersBoth
<1> HIDE DEF l1, l2, l3, l4, l5, l6, l7, l8, l9, l10
<1> QED BY <1>1, <1>3, <1>4, <1>5, RegistersBoth

LEMMA IngestRegisters ==
  ASSUME NEW d, NEW t, NEW src
  PROVE  /\ ~CompileInsert(d, t, src).refused => Registers(CompileInsert(d, t, src).list, {})
         /\ ~CompileReplace(d, t, src).refused => Registers(CompileReplace(d, t, src).list, {})
<1> DEFINE slots == SlotsOf(d, t)
<1> DEFINE o == TreeRow(d, t).ordersrc
<1> DEFINE f == FrozenGuard(o)
<1> DEFINE a == SourceChecks(slots, src, ReachKey(slots))
<1> DEFINE g == Project("stage", t, src, o)
<1> DEFINE b == When(ReachKey(slots), CheckNew({"reach"}))
<1> DEFINE h == CheckNew({"shadow"})
<1> DEFINE c == NewPartitionChecks(slots)
<1> DEFINE T(op) == Tree(op, t)
<1>1. ~CompileInsert(d, t, src).refused =>
        CompileInsert(d, t, src).list =
          f \o a \o g \o b \o h \o T("present_check") \o c \o T("insert_rows") \o T("insert_partitions") \o T("drop_staged")
  BY DEF CompileInsert, Refused, Compiled
<1>2. ~CompileReplace(d, t, src).refused =>
        CompileReplace(d, t, src).list =
          f \o a \o g \o b \o h \o c \o T("stage_epochs") \o T("delete_rows") \o T("delete_partitions")
          \o T("insert_rows") \o T("insert_partitions") \o T("drop_staged")
  BY DEF CompileReplace, Refused, Compiled
<1>3. Registers(a, {}) /\ Registers(b, {})
  BY SourceRegisters, OneCheckRegisters
<1>4. Registers(c, {})
  BY StatementsRegister, OneCheckRegisters, RegistersBoth DEF NewPartitionChecks
<1>5. Registers(f, {}) /\ Registers(g, {}) /\ Registers(h, {}) /\ \A op : op # "register" => Registers(T(op), {})
  BY StatementsRegister
<1> HIDE DEF f, a, g, b, h, c, T
<1> QED BY <1>1, <1>2, <1>3, <1>4, <1>5, RegistersBoth

LEMMA DeleteRegisters ==
  ASSUME NEW d, NEW t, NEW roots, ~CompileDelete(d, t, roots).refused
  PROVE  Registers(CompileDelete(d, t, roots).list, {})
<1> DEFINE g == <<[op |-> "stage_gone", t |-> t, roots |-> roots]>>
<1> DEFINE T(op) == Tree(op, t)
<1>1. CompileDelete(d, t, roots).list = g \o T("delete_rows") \o T("delete_partitions") \o T("drop_staged")
  BY DEF CompileDelete, Compiled, Refused
<1>2. Registers(g, {}) /\ \A op : op # "register" => Registers(T(op), {})
  BY RegistersOne, StatementsRegister
<1> HIDE DEF g, T
<1> QED BY <1>1, <1>2, RegistersBoth

LEMMA CheckRegisters ==
  ASSUME NEW d, NEW t, ~CompileCheck(d, t).refused PROVE Registers(CompileCheck(d, t).list, {})
<1> DEFINE slots == SlotsOf(d, t)
<1> DEFINE row == TreeRow(d, t)
<1> DEFINE stored == row.storage = "materialized"
<1> DEFINE rel == [kind |-> IF stored THEN "table" ELSE "proj", m |-> Fold[t]]
<1> DEFINE O(slot) == When(slot \in OverrideSlots(slots), Assertion(t, OArtifact[slot], slot, rel))
<1> DEFINE a == When(~stored /\ "ORDER" \in slots, Assertion(t, "assert_order", "order", [kind |-> "sql", src |-> row.source]))
<1> DEFINE b == Assertion(t, "assert_p13", "p13", rel)
<1> DEFINE c == When(stored, <<[op |-> "p13_ok", t |-> t, rel |-> rel]>>)
<1>1. CompileCheck(d, t).list = a \o b \o c \o O("SIZE") \o O("PARENT") \o O("CHILDREN") \o O("NEXT")
  BY DEF CompileCheck, Refused, Compiled
<1> HIDE DEF rel
<1>2. Registers(a, {}) /\ Registers(b, {}) /\ \A slot : Registers(O(slot), {})
  <2>1. \A art, defect, r : Registers(Assertion(t, art, defect, r), {})
    BY StatementsRegister
  <2> QED BY <2>1, RegistersWhen
<1>3. Registers(c, {})
  <2>1. Registers(<<[op |-> "p13_ok", t |-> t, rel |-> rel]>>, {})
    BY RegistersOne
  <2> QED BY <2>1, RegistersWhen
<1> HIDE DEF a, b, c, O
<1> QED BY <1>1, <1>2, <1>3, RegistersBoth, SMTT(20)

\* A compiled list registers no tree but the call's own, and that only under a name no
\* other tree has.
LEMMA CallsRegister ==
  ASSUME NEW d, NEW p, NEW c \in AllCalls, ~Compile(d, p, c).refused
  PROVE  \E S \in SUBSET {c.t} : Registers(Compile(d, p, c).list, S) /\ (S # {} => ~Collides(d, c.t))
<1>1. \A l : Registers(l, {}) => \E S \in SUBSET {c.t} : Registers(l, S) /\ (S # {} => ~Collides(d, c.t))
  OBVIOUS
<1>2. CASE c.verb = "tree_ddl_create"
  BY <1>2, CreateRegisters DEF Compile
<1>3. CASE c.verb # "tree_ddl_create"
  <2>1. Registers(Compile(d, p, c).list, {})
    BY <1>3, VerbsAssumption, DropRegisters, AlterRegisters, IngestRegisters, DeleteRegisters, CheckRegisters DEF Compile
  <2> QED BY <1>1, <2>1
<1> QED BY <1>2, <1>3

\* A row that a statement leaves among the trees was there, or is of a tree that was,
\* or of one the statement registers; in the last two cases the transaction wrote it.
LEMMA StatementOnTrees ==
  ASSUME NEW d, DOMAIN d = Relation, NEW tmp, NEW st, NEW n, NEW p,
         NEW r \in Effect(d, tmp, st, n, p)["trees"], r \notin d["trees"]
  PROVE  r.by = n /\ ((\E q \in d["trees"] : q.t = r.t) \/ (st.op = "register" /\ r.t = st.t))
<1> DEFINE e == Effect(d, tmp, st, n, p)
<1> "trees" \in Relation BY DEF Relation
<1>1. CASE st.op = "register"
  <2>1. e["trees"] = d["trees"] \cup {TreeRecord(st, st.sem, n)}
    BY <1>1 DEF Effect
  <2> QED BY <1>1, <2>1 DEF TreeRecord
<1>2. CASE st.op = "set_semantic"
  <2>1. e["trees"] = {IF q.t = st.t THEN TreeRecord(q, st.sem, n) ELSE q : q \in d["trees"]}
    BY <1>2 DEF Effect
  <2>2. PICK q \in d["trees"] : r = TreeRecord(q, st.sem, n)
    BY <2>1
  <2> QED BY <2>2 DEF TreeRecord
<1>3. CASE st.op \notin {"register", "set_semantic"}
  <2>1. e["trees"] \subseteq d["trees"]
    BY <1>3 DEF Effect, Insert, Without, MakeTable, DropTable, AppendRows, RefreshOk, Keyless, Keyed, Relation
  <2> QED BY <2>1
<1> QED BY <1>1, <1>2, <1>3

\* What a list run by transaction n leaves of the trees.
Grown(d, e, n, S) ==
  /\ DOMAIN e = Relation /\ UniqueTrees(e)
  /\ \A r \in e["trees"] : \/ r \in d["trees"]
                           \/ r.by = n /\ ((\E q \in d["trees"] : q.t = r.t) \/ r.t \in S)

LEMMA StatementGrows ==
  ASSUME NEW d, NEW S, NEW n, NEW w, Grown(d, w, n, S), NEW tmp, NEW st, NEW p, ~Raises(w, tmp, st, p),
         st.op = "register" => st.t \in S
  PROVE  Grown(d, Effect(w, tmp, st, n, p), n, S)
<1> DEFINE e == Effect(w, tmp, st, n, p)
<1>1. DOMAIN e = Relation /\ UniqueTrees(e)
  BY EffectDomain, EffectUniqueTrees DEF Grown
<1>2. ASSUME NEW r \in e["trees"], r \notin d["trees"]
      PROVE  r.by = n /\ ((\E q \in d["trees"] : q.t = r.t) \/ r.t \in S)
  <2>1. CASE r \in w["trees"]
    BY <1>2, <2>1 DEF Grown
  <2>2. CASE r \notin w["trees"]
    <3>1. r.by = n /\ ((\E q \in w["trees"] : q.t = r.t) \/ (st.op = "register" /\ r.t = st.t))
      BY <2>2, StatementOnTrees DEF Grown
    <3>2. CASE st.op = "register" /\ r.t = st.t
      BY <3>1, <3>2
    <3>3. ASSUME NEW q \in w["trees"], q.t = r.t PROVE (\E x \in d["trees"] : x.t = r.t) \/ r.t \in S
      BY <3>3 DEF Grown
    <3> QED BY <3>1, <3>2, <3>3
  <2> QED BY <2>1, <2>2
<1> HIDE DEF e
<1>3. Grown(d, e, n, S)
  BY <1>1, <1>2 DEF Grown
<1> QED BY <1>3 DEF e

LEMMA ListGrows ==
  ASSUME NEW d, DOMAIN d = Relation, UniqueTrees(d), NEW S, NEW l, Registers(l, S), NEW n, RunAll(d, l, n).ok
  PROVE  Grown(d, RunAll(d, l, n).d, n, S)
<1> DEFINE f == CHOOSE f : f = [i \in 0 .. Len(l) |-> IF i = 0 THEN AtStart(d) ELSE Turn(f[i - 1], l[i], n, pio)]
<1>1. RunAll(d, l, n) = f[Len(l)]
  BY DEF RunAll, AtStart, Turn
<1>2. f = RunOf(d, l, n, pio)
  BY DEF RunOf, Repeated
<1> HIDE DEF f
<1>3. f[0] = AtStart(d) /\ \A i \in 1 .. Len(l) : f[i] = Turn(f[i - 1], l[i], n, pio)
  BY <1>2, RunSteps DEF Registers
<1>4. Len(l) \in Nat /\ DOMAIN l = 1 .. Len(l)
  BY ListMeans DEF Registers
<1> DEFINE Good(i) == /\ f[i] = [ok |-> f[i].ok, d |-> f[i].d, tmp |-> f[i].tmp]
                      /\ f[i].ok => Grown(d, f[i].d, n, S)
<1>5. Good(0)
  BY <1>3 DEF AtStart, Grown
<1>6. ASSUME NEW i \in 1 .. Len(l), Good(i - 1) PROVE Good(i)
  <2> DEFINE x == f[i - 1]
  <2>1. f[i] = Turn(x, l[i], n, pio) /\ x = [ok |-> x.ok, d |-> x.d, tmp |-> x.tmp] /\ (x.ok => Grown(d, x.d, n, S))
    BY <1>3, <1>6
  <2> HIDE DEF x
  <2>2. CASE ~x.ok \/ Raises(x.d, x.tmp, l[i], pio)
    <3>1. f[i] = [x EXCEPT !.ok = FALSE]
      BY <2>1, <2>2 DEF Turn
    <3> QED BY <2>1, <3>1
  <2>3. CASE x.ok /\ ~Raises(x.d, x.tmp, l[i], pio)
    <3>1. f[i] = [ok |-> TRUE, d |-> Effect(x.d, x.tmp, l[i], n, pio), tmp |-> Staged(x.d, x.tmp, l[i], pio)]
      BY <2>1, <2>3 DEF Turn
    <3>2. Grown(d, Effect(x.d, x.tmp, l[i], n, pio), n, S)
      BY <1>4, <2>1, <2>3, StatementGrows DEF Registers
    <3> QED BY <3>1, <3>2
  <2> QED BY <2>2, <2>3
<1> HIDE DEF Good
<1>7. Good(Len(l))
  <2> DEFINE Bad == {i \in 0 .. Len(l) : ~ Good(i)}
  <2> SUFFICES ASSUME Bad # {} PROVE FALSE
    BY <1>4
  <2>1. Bad \in SUBSET Nat
    BY <1>4
  <2>2. PICK i \in Bad : \A j \in Bad : i <= j
    BY <2>1, LeastNat
  <2>3. i \in 1 .. Len(l) /\ i - 1 \in 0 .. Len(l)
    BY <1>4, <1>5, <2>2
  <2>4. i - 1 \notin Bad
    BY <2>2, <2>3
  <2> QED BY <1>6, <2>2, <2>3, <2>4
<1> QED BY <1>1, <1>7 DEF Good

\* One row per generated name.
OnePerFold(d) == \A q, r \in d["trees"] : Fold[q.t] = Fold[r.t] => q = r

\* A verb rewrites the rows of trees that were there, or adds one under a free name;
\* what it writes bears its own number.
LEMMA VerbOnTrees ==
  ASSUME DOMAIN db = Relation, OnePerFold(db), NEW c \in AllCalls, NEW n, ApplyAs(c, n)
  PROVE  DOMAIN db' = Relation /\ OnePerFold(db') /\ \A r \in db'["trees"] : r \in db["trees"] \/ r.by = n
<1> DEFINE l == Compile(db, pio, c).list
<1>1. ~Compile(db, pio, c).refused /\ RunAll(db, l, n).ok /\ db' = RunAll(db, l, n).d
  BY DEF ApplyAs
<1>2. PICK S \in SUBSET {c.t} : Registers(l, S) /\ (S # {} => ~Collides(db, c.t))
  BY <1>1, CallsRegister
<1> HIDE DEF l
<1>3. UniqueTrees(db)
  BY DEF UniqueTrees, OnePerFold
<1>4. Grown(db, db', n, S)
  BY <1>1, <1>2, <1>3, ListGrows
<1>5. ASSUME NEW q \in db'["trees"], NEW r \in db'["trees"], Fold[q.t] = Fold[r.t] PROVE q.t = r.t
  <2>1. (\E x \in db["trees"] : x.t = q.t) \/ q.t \in S
    BY <1>4 DEF Grown
  <2>2. (\E x \in db["trees"] : x.t = r.t) \/ r.t \in S
    BY <1>4 DEF Grown
  <2>3. \A x \in db["trees"] : Fold[x.t] = Fold[c.t] /\ S # {} => x.t = c.t
    BY <1>2 DEF Collides
  <2> QED BY <1>2, <1>5, <2>1, <2>2, <2>3 DEF OnePerFold
<1> QED BY <1>4, <1>5 DEF Grown, UniqueTrees, OnePerFold

-----------------------------------------------------------------------------
(* A plan that outlives other changes.                                     *)

\* The trees' rows: one per generated name, stamped by verbs that have been.
Versions(d, n) ==
  /\ DOMAIN d = Relation /\ n \in Nat
  /\ OnePerFold(d)
  /\ \A r \in d["trees"] : r.by \in 0 .. n

\* A reader's transaction changes sources and the registry, never a tree.
IsState(st) == st = [db |-> st.db, registry |-> st.registry] /\ DOMAIN st.db = Relation
Scribbles(o) ==
  /\ o = [base |-> o.base, view |-> o.view]
  /\ IsState(o.view) /\ DOMAIN o.base.db = Relation
  /\ o.view.db["trees"] = o.base.db["trees"]

DbInv ==
  /\ Versions(db, verbs)
  /\ own = [s \in Reader |-> own[s]]
  /\ \A s \in Reader : Scribbles(own[s])

\* A step leaves the trees' rows, takes some, or adds what bears the new verb's number.
Aged(d, n, e, m) ==
  /\ n \in Nat /\ m \in Nat /\ n <= m
  /\ \A r \in e["trees"] : r \in d["trees"] \/ r.by > n

LEMMA ChangedTrees ==
  ASSUME NEW st, IsState(st), NEW c \in Edits
  PROVE  LET x == Changed(st, c) IN IsState(x) /\ x.db["trees"] = st.db["trees"]
<1> "source" \in Relation /\ "trees" \in Relation /\ "source" # "trees" BY DEF Relation
<1>1. CASE c.what = "source"
  <2> DEFINE x == Changed(st, c)
  <2>1. IsState(x)
    BY <1>1 DEF Changed, IsState
  <2>2. x.db["trees"] = st.db["trees"]
    BY <1>1 DEF Changed, IsState
  <2> QED BY <2>1, <2>2
<1>2. CASE c.what = "default"
  <2>1. Changed(st, c) = [st EXCEPT !.registry.default = c.language]
    BY <1>2 DEF Changed
  <2> QED BY <2>1 DEF IsState
<1>3. CASE c.what = "parser"
  <2> DEFINE X == [l \in DOMAIN st.registry.parser \cup {c.language} |->
                     IF l = c.language THEN c.parser ELSE st.registry.parser[l]]
  <2>1. Changed(st, c) = [st EXCEPT !.registry.parser = X]
    BY <1>3, Zenon DEF Changed
  <2> HIDE DEF X
  <2> QED BY <2>1 DEF IsState
<1> QED BY <1>1, <1>2, <1>3, EditsAssumption

LEMMA SameTrees ==
  ASSUME NEW d, NEW n, Versions(d, n), NEW e, DOMAIN e = Relation, e["trees"] = d["trees"]
  PROVE  Versions(e, n) /\ Aged(d, n, e, n)
BY DEF Versions, OnePerFold, Aged

LEMMA EmptyTrees ==
  ASSUME NEW d, NEW n, Versions(d, n), NEW e, DOMAIN e = Relation, e["trees"] = {}
  PROVE  Versions(e, n) /\ Aged(d, n, e, n)
BY DEF Versions, OnePerFold, Aged

\* What is left of the database when the process ends: all of it, or none.
LEMMA ExitAges ==
  ASSUME Versions(db, verbs), db' = db \/ db' = Start, verbs' = verbs
  PROVE  Versions(db', verbs') /\ Aged(db, verbs, db', verbs')
<1>1. CASE db' = db
  BY <1>1, SameTrees DEF Versions
<1>2. CASE db' = Start
  <2>1. DOMAIN db' = Relation /\ db'["trees"] = {}
    BY <1>2 DEF Start, EmptyDb, Relation
  <2>2. Versions(db', verbs) /\ Aged(db, verbs, db', verbs)
    BY <2>1, EmptyTrees
  <2> QED BY <2>2
<1> QED BY <1>1, <1>2

LEMMA NothingScribbles == Scribbles(Nothing)
BY DEF Scribbles, IsState, Nothing, EmptyDb, Relation

\* What an action of s does to the readers' transactions.
LEMMA OwnBecomes ==
  ASSUME DbInv, NEW s \in Reader, NEW o, own' = [own EXCEPT ![s] = o], Scribbles(o), Versions(db', verbs')
  PROVE  DbInv'
BY DEF DbInv

LEMMA NextDb == ASSUME DbInv, [Next]_vars PROVE DbInv' /\ Aged(db, verbs, db', verbs')
<1> Versions(db, verbs) BY DEF DbInv
<1> DOMAIN db = Relation /\ verbs \in Nat BY DEF Versions
<1>0. Aged(db, verbs, db, verbs)
  BY SameTrees
<1>1. ASSUME UNCHANGED <<db, own, verbs>> PROVE DbInv' /\ Aged(db, verbs, db', verbs')
  BY <1>0, <1>1 DEF DbInv
<1>2. CASE UNCHANGED vars \/ LoadStep
  BY <1>1, <1>2 DEF vars, matchVars, LoadStep
<1>3. CASE EditCommitted
  <2>1. PICK c \in Edits : db' = Changed(Committed, c).db
    BY <1>3 DEF EditCommitted
  <2>2. IsState(Committed) /\ Committed.db = db
    BY DEF Committed, IsState
  <2>3. DOMAIN db' = Relation /\ db'["trees"] = db["trees"]
    BY <2>1, <2>2, ChangedTrees DEF IsState
  <2>4. own' = own /\ verbs' = verbs
    BY <1>3 DEF EditCommitted, matchVars
  <2>5. Versions(db', verbs) /\ Aged(db, verbs, db', verbs)
    BY <2>3, SameTrees
  <2> QED BY <2>4, <2>5 DEF DbInv
<1>4. CASE OtherVerb
  <2>1. PICK c \in AllCalls : ApplyAs(c, verbs + 1)
    BY <1>4 DEF OtherVerb
  <2>2. DOMAIN db' = Relation /\ OnePerFold(db') /\ \A r \in db'["trees"] : r \in db["trees"] \/ r.by = verbs + 1
    BY <2>1, VerbOnTrees DEF Versions
  <2>3. own' = own /\ verbs' = verbs + 1
    BY <1>4 DEF OtherVerb, matchVars
  <2>4. Versions(db', verbs') /\ Aged(db, verbs, db', verbs')
    BY <2>2, <2>3 DEF Versions, Aged
  <2> QED BY <2>3, <2>4 DEF DbInv
<1>5. CASE ProcessExit
  <2>1. (db' = db \/ db' = Start) /\ own' = [s \in Reader |-> Nothing] /\ verbs' = verbs
    BY <1>5 DEF ProcessExit
  <2>2. Versions(db', verbs') /\ Aged(db, verbs, db', verbs')
    BY <2>1, ExitAges
  <2> QED BY <2>1, <2>2, NothingScribbles DEF DbInv
<1>6. ASSUME NEW s \in Reader, Ask(s) \/ MatchStep(s) \/ Execute(s) \/ Abandon(s)
      PROVE  UNCHANGED <<db, own, verbs>>
  BY <1>6, Zenon DEF Ask, MatchStep, Execute, Abandon, MatchBind, ResolveSelectorLanguage, ParserForTextSelector,
              CompileMatch, MatchShape, BoundOnly, MatchInOut, MatchInit
<1>7. ASSUME NEW s \in Reader, BeginExplicit(s) PROVE DbInv' /\ Aged(db, verbs, db', verbs')
  <2>1. own' = [own EXCEPT ![s] = [base |-> Committed, view |-> Committed]] /\ db' = db /\ verbs' = verbs
    BY <1>7 DEF BeginExplicit
  <2>2. Scribbles([base |-> Committed, view |-> Committed])
    BY DEF Scribbles, IsState, Committed
  <2> QED BY <1>0, <2>1, <2>2, OwnBecomes
<1>8. ASSUME NEW s \in Reader, EditInside(s) PROVE DbInv' /\ Aged(db, verbs, db', verbs')
  <2>1. PICK c \in Edits : own' = [own EXCEPT ![s].view = Changed(own[s].view, c)]
    BY <1>8 DEF EditInside
  <2> DEFINE o == [base |-> own[s].base, view |-> Changed(own[s].view, c)]
  <2>2. Scribbles(own[s])
    BY DEF DbInv
  <2>3. Scribbles(o)
    BY <2>2, ChangedTrees DEF Scribbles
  <2>4. own' = [own EXCEPT ![s] = o]
    <3> DEFINE v == Changed(own[s].view, c)
    <3>1. own' = [own EXCEPT ![s] = [own[s] EXCEPT !.view = v]]
      BY <2>1
    <3> HIDE DEF v
    <3>2. [own[s] EXCEPT !.view = v] = [base |-> own[s].base, view |-> v]
      BY <2>2 DEF Scribbles
    <3> QED BY <3>1, <3>2 DEF v
  <2>5. db' = db /\ verbs' = verbs
    BY <1>8 DEF EditInside
  <2> HIDE DEF o
  <2> QED BY <1>0, <2>3, <2>4, <2>5, OwnBecomes
<1>9. ASSUME NEW s \in Reader, RollBackExplicit(s) PROVE DbInv' /\ Aged(db, verbs, db', verbs')
  <2>1. own' = [own EXCEPT ![s] = Nothing] /\ db' = db /\ verbs' = verbs
    BY <1>9 DEF RollBackExplicit, Leaves
  <2> QED BY <1>0, <2>1, NothingScribbles, OwnBecomes
<1>10. ASSUME NEW s \in Reader, CommitExplicit(s) PROVE DbInv' /\ Aged(db, verbs, db', verbs')
  <2>1. own' = [own EXCEPT ![s] = Nothing] /\ db' = Merge(db, own[s].base.db, own[s].view.db) /\ verbs' = verbs
    BY <1>10 DEF CommitExplicit, Leaves
  <2>2. own[s].view.db["trees"] = own[s].base.db["trees"]
    BY DEF DbInv, Scribbles
  <2>3. DOMAIN db' = Relation /\ db'["trees"] = db["trees"]
    BY <2>1, <2>2 DEF Merge, Deleted, Inserted, Relation
  <2>4. Versions(db', verbs) /\ Aged(db, verbs, db', verbs)
    BY <2>3, SameTrees
  <2> QED BY <2>1, <2>4, NothingScribbles, OwnBecomes
<1> QED BY <1>1, <1>2, <1>3, <1>4, <1>5, <1>6, <1>7, <1>8, <1>9, <1>10 DEF Next

\* What a plan is made of: its selector, and the registration it was compiled from.
MadeFrom(m, f) ==
  LET ir == SelectorIr(m.req, m.parser) IN
  [t |-> m.req.t, slots |-> ir.slots, preds |-> ir.preds, overlay |-> m.req.overlay,
   unknown |-> ir.preds \ {r.p : r \in f["predicates"]}, label |-> Label(m.req, ir, m.lang), from |-> f]

LEMMA QueryIsMade ==
  ASSUME NEW m, NEW d
  PROVE  MatchQuery(d, m.req, SelectorIr(m.req, m.parser), m.lang) = MadeFrom(m, Registration(d, m.req.t))
BY DEF MatchQuery, MadeFrom, PredsOf, Registration

LEMMA RegistrationTrees ==
  ASSUME NEW d, NEW t
  PROVE  Registration(d, t)["trees"] = {r \in d["trees"] : r.t = t}
BY DEF Registration, Select, Matches

\* A plan's registration has rows of its tree, of verbs that have been; while one of
\* them is there, the plan's columns are that row's source.
Standing(m, d, n) ==
  /\ m.query = MadeFrom(m, m.query.from)
  /\ m.query.from["trees"] # {}
  /\ \A r \in m.query.from["trees"] :
       /\ r.t = m.query.t /\ r.by \in 0 .. n
       /\ m.pc \in {"bound", "open"} /\ r \in d["trees"] => m.columns = {r.source}
PlanOk(m, d, n) ==
  /\ m.pc \in {"shape", "bound", "open"} => m.query # NoQuery
  /\ m.query # NoQuery => Standing(m, d, n)
PlanInv == \A s \in Reader : PlanOk(match[s], db, verbs)

LEMMA NoMatchPlan == \A how, d, n : PlanOk([NoMatch EXCEPT !.how = how], d, n) /\ PlanOk(NoMatch, d, n)
BY DEF PlanOk, NoMatch

\* A plan stands whatever others do, for a row that is gone never comes back.
LEMMA PlanAges ==
  ASSUME NEW m, NEW d, NEW n, NEW e, NEW k, PlanOk(m, d, n), Aged(d, n, e, k)
  PROVE  PlanOk(m, e, k)
<1>1. ASSUME m.query # NoQuery PROVE Standing(m, e, k)
  <2>1. Standing(m, d, n)
    BY <1>1 DEF PlanOk
  <2>2. \A r \in m.query.from["trees"] : r.by \in 0 .. n /\ r.by \in 0 .. k /\ (r \in e["trees"] => r \in d["trees"])
    BY <2>1 DEF Standing, Aged
  <2> QED BY <2>1, <2>2 DEF Standing
<1> QED BY <1>1 DEF PlanOk

\* A match that moves on with the plan it has.
LEMMA PlanMoves ==
  ASSUME NEW m, NEW d, NEW n, PlanOk(m, d, n), NEW w,
         w.query = m.query, w.req = m.req, w.lang = m.lang, w.parser = m.parser, w.columns = m.columns,
         w.pc \in {"bound", "open"} /\ m.query # NoQuery => m.pc \in {"bound", "open"},
         w.pc \in {"shape", "bound", "open"} => m.query # NoQuery
  PROVE  PlanOk(w, d, n)
<1>1. MadeFrom(w, m.query.from) = MadeFrom(m, m.query.from)
  BY DEF MadeFrom
<1> QED BY <1>1 DEF PlanOk, Standing

LEMMA EndsPlans ==
  ASSUME MatchInv, NEW s \in Reader, PlanOk(match[s], db, verbs), NEW how, Ends(s, how),
         match[s].pc \in {"guard", "language", "parser", "compile", "bound", "open"}
  PROVE  PlanOk(match'[s], db, verbs)
<1> MatchOk(match[s], caller[s]) BY DEF MatchInv
<1>1. CASE match[s].req.kind = "prepare" /\ match[s].query # NoQuery
  <2> DEFINE n == [match[s] EXCEPT !.pc = "bound", !.rest = {}, !.how = how]
  <2>1. match'[s] = n
    BY <1>1 DEF Ends, MatchInv
  <2>2. n.query = match[s].query /\ n.req = match[s].req /\ n.lang = match[s].lang /\ n.parser = match[s].parser
        /\ n.columns = match[s].columns /\ n.pc = "bound"
    BY DEF MatchOk, IsMatch, Field
  <2>3. match[s].pc \in {"bound", "open"}
    BY <1>1 DEF MatchOk
  <2> HIDE DEF n
  <2> QED BY <1>1, <2>1, <2>2, <2>3, PlanMoves
<1>2. CASE ~(match[s].req.kind = "prepare" /\ match[s].query # NoQuery)
  BY <1>2, NoMatchPlan DEF Ends, MatchInv
<1> QED BY <1>1, <1>2

\* The plan just compiled stands in the database it was compiled from.
LEMMA CompilePlans ==
  ASSUME MatchInv, DbInv, NEW s \in Reader, PlanOk(match[s], db, verbs), CompileMatch(s)
  PROVE  PlanOk(match'[s], db, verbs)
<1> MatchOk(match[s], caller[s]) BY DEF MatchInv
<1> DEFINE m == match[s]
<1> DEFINE ir == SelectorIr(m.req, m.parser)
<1> DEFINE q == MatchQuery(db, m.req, ir, m.lang)
<1>1. ASSUME NEW how, Ends(s, how) PROVE PlanOk(match'[s], db, verbs)
  BY <1>1, EndsPlans DEF CompileMatch
<1>2. CASE Compilable(db, m.req, ir) /\ match' = [match EXCEPT ![s].pc = "shape", ![s].query = q]
  <2> DEFINE w == [m EXCEPT !.pc = "shape", !.query = q]
  <2>1. match'[s] = w
    BY <1>2 DEF MatchInv
  <2>2. w.pc = "shape" /\ w.query = q /\ w.req = m.req /\ w.parser = m.parser /\ w.lang = m.lang
    BY DEF MatchOk, IsMatch, Field
  <2>3. q = MadeFrom(m, Registration(db, m.req.t)) /\ q.from = Registration(db, m.req.t) /\ q.t = m.req.t
    BY QueryIsMade DEF MadeFrom
  <2>4. q # NoQuery
    BY DEF MatchQuery, NoQuery
  <2> HIDE DEF w, q
  <2>5. w.query = MadeFrom(w, w.query.from)
    BY <2>2, <2>3 DEF MadeFrom
  <2>6. q.from["trees"] = {r \in db["trees"] : r.t = m.req.t}
    BY <2>3, RegistrationTrees
  <2>7. q.from["trees"] # {}
    BY <1>2, <2>6 DEF Compilable, Registered
  <2>8. Standing(w, db, verbs)
    BY <2>2, <2>3, <2>5, <2>6, <2>7 DEF Standing, DbInv, Versions
  <2> QED BY <2>1, <2>2, <2>4, <2>8 DEF PlanOk
<1> QED BY <1>1, <1>2 DEF CompileMatch

\* The columns are the source's of the one tree of the name.
LEMMA ShapePlans ==
  ASSUME MatchInv, DbInv, NEW s \in Reader, PlanOk(match[s], db, verbs), MatchShape(s)
  PROVE  PlanOk(match'[s], db, verbs)
<1> MatchOk(match[s], caller[s]) BY DEF MatchInv
<1> DEFINE m == match[s]
<1> DEFINE columns == Columns(db, m.query.t)
<1>1. CASE match' = [match EXCEPT ![s] = [NoMatch EXCEPT !.how = "refused"]]
  BY <1>1, NoMatchPlan DEF MatchInv
<1>2. CASE match' = [match EXCEPT ![s].pc = "bound", ![s].columns = columns]
  <2> DEFINE w == [m EXCEPT !.pc = "bound", !.columns = columns]
  <2>1. match'[s] = w
    BY <1>2 DEF MatchInv
  <2>2. w.query = m.query /\ w.req = m.req /\ w.parser = m.parser /\ w.lang = m.lang /\ w.columns = columns
    BY DEF MatchOk, IsMatch, Field
  <2>3. m.query # NoQuery /\ Standing(m, db, verbs)
    BY DEF MatchShape, PlanOk
  <2>4. ASSUME NEW r \in db["trees"], r.t = m.query.t PROVE columns = {r.source}
    <3>1. \A x \in db["trees"] : Fold[x.t] = Fold[m.query.t] <=> x = r
      BY <2>4 DEF DbInv, Versions, OnePerFold
    <3> QED BY <3>1 DEF Columns
  <2> HIDE DEF w, columns
  <2>5. MadeFrom(w, m.query.from) = MadeFrom(m, m.query.from)
    BY <2>2 DEF MadeFrom
  <2>6. Standing(w, db, verbs)
    BY <2>2, <2>3, <2>4, <2>5 DEF Standing
  <2> QED BY <2>1, <2>2, <2>3, <2>6 DEF PlanOk
<1> QED BY <1>1, <1>2 DEF MatchShape

LEMMA OwnStepPlans ==
  ASSUME MatchInv, DbInv, NEW s \in Reader, PlanOk(match[s], db, verbs),
         \/ Ask(s) \/ MatchBind(s) \/ ResolveSelectorLanguage(s) \/ ParserForTextSelector(s) \/ CompileMatch(s)
         \/ MatchShape(s) \/ BoundOnly(s) \/ MatchInit(s) \/ MatchInOut(s) \/ Abandon(s)
  PROVE  PlanOk(match'[s], db, verbs)
<1> MatchOk(match[s], caller[s]) BY DEF MatchInv
<1> DEFINE m == match[s]
<1>1. CASE Ask(s)
  <2>1. PICK r \in Requests : match' = [match EXCEPT ![s] = [NoMatch EXCEPT !.pc = "guard", !.req = r]]
    BY <1>1 DEF Ask
  <2>2. match'[s].query = NoQuery /\ match'[s].pc = "guard"
    BY <2>1 DEF MatchInv, NoMatch
  <2> QED BY <2>2 DEF PlanOk
<1>2. ASSUME m.pc \in {"guard", "language", "parser"}, match'[s].query = m.query,
             match'[s].pc \in {"language", "parser", "compile"}
      PROVE  PlanOk(match'[s], db, verbs)
  BY <1>2 DEF MatchOk, PlanOk
<1>3. CASE MatchBind(s)
  <2>1. m.pc = "guard"
    BY <1>3 DEF MatchBind
  <2>2. ASSUME match' = [match EXCEPT ![s].pc = IF m.req.text THEN "language" ELSE "compile"]
        PROVE  match'[s].query = m.query /\ match'[s].pc \in {"language", "compile"}
    BY <2>2 DEF MatchInv, MatchOk, IsMatch, Field
  <2> QED BY <1>2, <1>3, <2>1, <2>2, EndsPlans DEF MatchBind
<1>4. CASE ResolveSelectorLanguage(s)
  <2>1. m.pc = "language"
    BY <1>4 DEF ResolveSelectorLanguage
  <2>2. ASSUME NEW lang, match' = [match EXCEPT ![s].pc = "parser", ![s].lang = lang]
        PROVE  match'[s].query = m.query /\ match'[s].pc = "parser"
    BY <2>2 DEF MatchInv, MatchOk, IsMatch, Field
  <2> QED BY <1>2, <1>4, <2>1, <2>2, EndsPlans DEF ResolveSelectorLanguage
<1>5. CASE ParserForTextSelector(s)
  <2>1. m.pc = "parser"
    BY <1>5 DEF ParserForTextSelector
  <2>2. ASSUME NEW parser, match' = [match EXCEPT ![s].pc = "compile", ![s].parser = parser]
        PROVE  match'[s].query = m.query /\ match'[s].pc = "compile"
    BY <2>2 DEF MatchInv, MatchOk, IsMatch, Field
  <2> QED BY <1>2, <1>5, <2>1, <2>2, EndsPlans DEF ParserForTextSelector
<1>6. CASE CompileMatch(s) \/ MatchShape(s)
  BY <1>6, CompilePlans, ShapePlans
<1>7. CASE BoundOnly(s) \/ Abandon(s)
  BY <1>7, EndsPlans DEF BoundOnly, Abandon
<1>8. CASE MatchInit(s)
  <2>1. m.pc = "bound"
    BY <1>8 DEF MatchInit
  <2>2. ASSUME NEW all, match' = [match EXCEPT ![s].pc = "open", ![s].shown = all, ![s].rest = all]
        PROVE  PlanOk(match'[s], db, verbs)
    <3> DEFINE w == [m EXCEPT !.pc = "open", !.shown = all, !.rest = all]
    <3>1. match'[s] = w
      BY <2>2 DEF MatchInv
    <3>2. w.query = m.query /\ w.req = m.req /\ w.lang = m.lang /\ w.parser = m.parser /\ w.columns = m.columns
          /\ w.pc = "open"
      BY DEF MatchOk, IsMatch, Field
    <3>3. m.query # NoQuery
      BY <2>1 DEF PlanOk
    <3> HIDE DEF w
    <3> QED BY <2>1, <3>1, <3>2, <3>3, PlanMoves
  <2> QED BY <1>8, <2>1, <2>2, EndsPlans DEF MatchInit
<1>9. CASE MatchInOut(s)
  <2>1. m.pc = "open"
    BY <1>9 DEF MatchInOut
  <2>2. ASSUME NEW rest, match' = [match EXCEPT ![s].rest = rest] PROVE PlanOk(match'[s], db, verbs)
    <3> DEFINE w == [m EXCEPT !.rest = rest]
    <3>1. match'[s] = w
      BY <2>2 DEF MatchInv
    <3>2. w.query = m.query /\ w.req = m.req /\ w.lang = m.lang /\ w.parser = m.parser /\ w.columns = m.columns
          /\ w.pc = "open"
      BY <2>1 DEF MatchOk, IsMatch, Field
    <3>3. m.query # NoQuery
      BY <2>1 DEF PlanOk
    <3> HIDE DEF w
    <3> QED BY <2>1, <3>1, <3>2, <3>3, PlanMoves
  <2> QED BY <1>9, <2>1, <2>2, EndsPlans DEF MatchInOut
<1> QED BY <1>1, <1>3, <1>4, <1>5, <1>6, <1>7, <1>8, <1>9

LEMMA InitPlans == Init => DbInv /\ PlanInv
<1> SUFFICES ASSUME Init PROVE DbInv /\ PlanInv
  OBVIOUS
<1>1. Versions(Start, 0)
  BY DEF Versions, OnePerFold, Start, EmptyDb, Relation
<1> QED BY <1>1, NothingScribbles, NoMatchPlan DEF Init, DbInv, PlanInv

LEMMA NextPlans == MatchInv /\ DbInv /\ PlanInv /\ [Next]_vars => DbInv' /\ PlanInv'
<1> SUFFICES ASSUME MatchInv, DbInv, PlanInv, [Next]_vars PROVE DbInv' /\ PlanInv'
  OBVIOUS
<1>1. DbInv' /\ Aged(db, verbs, db', verbs')
  BY NextDb
<1>2. ASSUME NEW s \in Reader PROVE PlanOk(match'[s], db', verbs')
  <2>1. PlanOk(match[s], db, verbs)
    BY DEF PlanInv
  <2>2. PlanOk(match'[s], db, verbs)
    <3>1. CASE match'[s] = match[s]
      BY <2>1, <3>1
    <3>2. CASE match'[s] = NoMatch
      BY <3>2, NoMatchPlan
    <3> QED BY <2>1, <3>1, <3>2, OwnSteps, OwnStepPlans
  <2> QED BY <1>1, <2>2, PlanAges
<1> QED BY <1>1, <1>2 DEF PlanInv

LEMMA PlansAlways == Spec => [](DbInv /\ PlanInv)
BY InitPlans, NextPlans, MatchInvAlways, PTL DEF Spec

\* A plan may outlive the source's rows, the tree's partitions, the registry of languages
\* and any number of executions, of drops and of new trees under its tree's name: while
\* the tree's registration is the one it was compiled from, what it answers is what the
\* selector, compiled afresh, would, under the columns it announced (MatchBind, MatchInit).
THEOREM PlansOutlive == Spec => PlansOutliveOtherChanges
<1> DEFINE Outlives(s) ==
      LET m == match[s]
          again == MatchQuery(db, m.req, SelectorIr(m.req, m.parser), m.lang)
      IN  Opens(s) /\ m.query.from = Registration(db, m.query.t) =>
            match'[s].shown = Answer(db, again) /\ Columns(db, m.query.t) = m.columns
<1>1. MatchInv /\ DbInv /\ PlanInv /\ [Next]_vars => [\A s \in Reader : Outlives(s)]_vars
  <2> SUFFICES ASSUME MatchInv, DbInv, PlanInv, [Next]_vars, NEW s \in Reader, Opens(s),
                      match[s].query.from = Registration(db, match[s].query.t)
               PROVE  /\ match'[s].shown =
                           Answer(db, MatchQuery(db, match[s].req, SelectorIr(match[s].req, match[s].parser), match[s].lang))
                      /\ Columns(db, match[s].query.t) = match[s].columns
    OBVIOUS
  <2> DEFINE m == match[s]
  <2>1. m.pc = "bound" /\ Standing(m, db, verbs)
    BY DEF Opens, PlanInv, PlanOk
  <2>2. m.query.t = m.req.t
    BY <2>1 DEF Standing, MadeFrom
  <2>3. m.query = MatchQuery(db, m.req, SelectorIr(m.req, m.parser), m.lang)
    BY <2>1, <2>2, QueryIsMade DEF Standing
  <2>4. match'[s].shown = Answer(db, m.query)
    BY OnlyInitOpens
  <2>5. Columns(db, m.query.t) = m.columns
    <3>1. m.query.from["trees"] = {r \in db["trees"] : r.t = m.query.t}
      BY RegistrationTrees
    <3>2. PICK r \in db["trees"] : r.t = m.query.t
      BY <2>1, <3>1 DEF Standing
    <3>3. m.columns = {r.source}
      BY <2>1, <3>1, <3>2 DEF Standing
    <3>4. \A x \in db["trees"] : Fold[x.t] = Fold[m.query.t] <=> x = r
      BY <3>2 DEF DbInv, Versions, OnePerFold
    <3> QED BY <3>3, <3>4 DEF Columns
  <2> QED BY <2>3, <2>4, <2>5
<1> QED BY <1>1, MatchInvAlways, PlansAlways, PTL DEF Spec, PlansOutliveOtherChanges

=============================================================================
