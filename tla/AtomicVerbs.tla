----------------------------- MODULE AtomicVerbs -----------------------------
(***************************************************************************)
(* What the verbs promise: a call is one atomic step that applies its      *)
(* whole statement list to the database, or it is no step at all.          *)
(* VerbExecutor implements this when no two sessions work on one tree.     *)
(* What the calls compile to and what a statement does is not its concern. *)
(***************************************************************************)
EXTENDS Integers, Sequences

CONSTANTS
  Relation,             \* the relations of a database, "source" among them
  Compile(_, _, _),     \* of a database, the setting and a call
  Raises(_, _, _, _),   \* of a database, the temporary tables, a statement and
  Effect(_, _, _, _, _),  \* the setting; an effect is that of a transaction
  Staged(_, _, _, _),
  NoTemp,               \* the temporary tables of a new connection
  AllCalls, Txs

VARIABLES db, pio

\* The list as far as its first i statements go; ok until one of them raises.
RunAll(d, list, tx) ==
  LET run[i \in 0 .. Len(list)] ==
        IF i = 0 THEN [ok |-> TRUE, d |-> d, tmp |-> NoTemp]
        ELSE LET x == run[i - 1] IN
             IF ~x.ok \/ Raises(x.d, x.tmp, list[i], pio) THEN [x EXCEPT !.ok = FALSE]
             ELSE [ok |-> TRUE, d |-> Effect(x.d, x.tmp, list[i], tx, pio), tmp |-> Staged(x.d, x.tmp, list[i], pio)]
  IN  run[Len(list)]

ApplyAs(c, tx) ==
  LET compiled == Compile(db, pio, c)
      end == RunAll(db, compiled.list, tx)
  IN  /\ ~compiled.refused /\ end.ok
      /\ db' = end.d
      /\ UNCHANGED pio
Apply(c) == \E tx \in Txs : ApplyAs(c, tx)

\* Not the verbs' doing: the users' relations, and the setting.
Environment ==
  \A rel \in Relation \ {"source"} : db'[rel] = db[rel]

AtomicInit == \A rel \in Relation \ {"source"} : db[rel] = {}
AtomicNext == Environment \/ \E c \in AllCalls : Apply(c)
AtomicSpec == AtomicInit /\ [][AtomicNext]_<<db, pio>>

=============================================================================
