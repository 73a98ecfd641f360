---------------------------- MODULE VerbExecutor ----------------------------
(***************************************************************************)
(* The verbs of the extension (duckent_verbs.cpp, duckent_sql.cpp).  A     *)
(* verb is a table function: bind records its arguments, init makes the    *)
(* scan's state, and the scan is a guard on the caller's transaction, a    *)
(* compilation on one side connection and the execution of the compiled    *)
(* list, in a transaction of its own, on another.  Sessions interleave     *)
(* between any two of these, the process may crash, and any statement may  *)
(* fail.                                                                   *)
(***************************************************************************)
EXTENDS Snapshot

CONSTANTS
  Session,     \* the sessions (client connections)
  Calls,       \* [Session -> the calls it may make]
  Contents0,   \* the source relation at the start: rows [src, root, part]
  Changes,     \* what a session's own DML may make of a source: [src, parts]
  Damage,      \* what it may make of a stored partition, behind the verbs' back
  Faults,      \* may a statement or a COMMIT fail for a reason of its own?
  MaxTx,       \* bound: executor transactions begun
  MaxEdits     \* bound: changes of sources and settings

\* What a call may be: the seven verbs, with the slots their structs can name
\* and, where rows come in, a relation they come from.
ASSUME CallsAssumption ==
  \A s \in Session : \A c \in Calls[s] :
    /\ c.verb \in {"tree_ddl_create", "tree_ddl_drop", "tree_ddl_alter",
                   "tree_insert", "tree_replace", "tree_delete", "tree_check"}
    /\ c.verb = "tree_ddl_create" => c.spec.slots \subseteq Slot /\ c.spec.abstract \in BOOLEAN \cup {NULL}
    /\ c.verb = "tree_ddl_alter" => c.sem = NULL \/ c.sem.slots \subseteq SSlot
    /\ c.verb \in {"tree_insert", "tree_replace"} => c.src # NULL

\* A source's rows of one ROOT are one partition.
OnePerRoot(parts) == \A p, q \in parts : p.root = q.root => p = q
ASSUME ContentsAssumption ==
  /\ \A p, q \in Contents0 : p.src = q.src /\ p.root = q.root => p = q
  /\ \A c \in Changes : OnePerRoot(c.parts)

\* Finitely many sessions, and a bound that is a number.
ASSUME BoundsAssumption == IsFiniteSet(Session) /\ MaxTx \in Nat

VARIABLES
  db,          \* the committed database
  pio,         \* the setting preserve_insertion_order
  caller,      \* a session's own transaction: "auto", "explicit" or "invalid"
  pc,          \* where its call is
  call,        \* the call
  done,        \* has its scan answered its row?
  todo,        \* the statements still to run
  base,        \* the snapshot its transaction began from
  view,        \* the database as its transaction sees it
  temp,        \* its temporary tables
  tx,          \* its transaction's number
  result,      \* how its last call ended
  begun,       \* transactions begun so far
  edits        \* changes of sources and settings so far

local == <<done, todo, base, view, temp, tx>>
vars  == <<db, pio, caller, pc, call, local, result, begun, edits>>

NoCall  == [verb |-> "none"]
EmptyDb == [rel \in Relation |-> {}]

Init ==
  /\ db = [EmptyDb EXCEPT !["source"] = Contents0]
  /\ pio = TRUE
  /\ caller = [s \in Session |-> "auto"]
  /\ pc = [s \in Session |-> "idle"]
  /\ call = [s \in Session |-> NoCall]
  /\ done = [s \in Session |-> FALSE]
  /\ todo = [s \in Session |-> <<>>]
  /\ base = [s \in Session |-> EmptyDb]
  /\ view = [s \in Session |-> EmptyDb]
  /\ temp = [s \in Session |-> NoTemp]
  /\ tx = [s \in Session |-> 0]
  /\ result = [s \in Session |-> "none"]
  /\ begun = 0
  /\ edits = 0

-----------------------------------------------------------------------------
(* A session on its own: its transactions, its DML, its settings.          *)

Idle(s) == pc[s] = "idle"

\* No scan under way: no statement, or one that is only bound (prepared).
Resting(s) == pc[s] \in {"idle", "bound"}

\* BEGIN, and the COMMIT or ROLLBACK that ends it.
BeginExplicit(s) ==
  /\ Resting(s) /\ caller[s] = "auto"
  /\ caller' = [caller EXCEPT ![s] = "explicit"]
  /\ UNCHANGED <<db, pio, pc, call, local, result, begun, edits>>

EndExplicit(s) ==
  /\ Resting(s) /\ caller[s] # "auto"
  /\ caller' = [caller EXCEPT ![s] = "auto"]
  /\ UNCHANGED <<db, pio, pc, call, local, result, begun, edits>>

\* Autocommitted DML on a source relation: its partitions become c.parts.
ChangeSource(s) ==
  /\ Resting(s) /\ caller[s] = "auto" /\ edits < MaxEdits
  /\ \E c \in Changes :
       db' = [db EXCEPT !["source"] =
                {r \in @ : r.src # c.src}
                \cup {[src |-> c.src, root |-> p.root, part |-> p.part] : p \in c.parts}]
  /\ edits' = edits + 1
  /\ UNCHANGED <<pio, caller, pc, call, local, result, begun>>

\* Autocommitted DML on a generated table, which is an ordinary table.
EditStored(s) ==
  /\ Resting(s) /\ caller[s] = "auto" /\ edits < MaxEdits
  /\ \E r \in db["rows"], p \in Damage :
       /\ p.n = r.part.n
       /\ db' = [db EXCEPT !["rows"] = (@ \ {r}) \cup {[r EXCEPT !.part = p]}]
  /\ edits' = edits + 1
  /\ UNCHANGED <<pio, caller, pc, call, local, result, begun>>

\* SET preserve_insertion_order, a global setting.
SetOption(s) ==
  /\ Resting(s) /\ edits < MaxEdits
  /\ pio' = ~pio
  /\ edits' = edits + 1
  /\ UNCHANGED <<db, caller, pc, call, local, result, begun>>

-----------------------------------------------------------------------------
(* VerbBind and VerbInit.                                                  *)

\* It records the call and nothing else.  MaxTx bounds the transactions begun
\* and those the calls under way may begin.
VerbBind(s) ==
  /\ Idle(s) /\ caller[s] # "invalid"
  /\ begun + Cardinality({x \in Session : ~Idle(x)}) < MaxTx
  /\ \E c \in Calls[s] : call' = [call EXCEPT ![s] = c]
  /\ pc' = [pc EXCEPT ![s] = "bound"]
  /\ result' = [result EXCEPT ![s] = "none"]
  /\ UNCHANGED <<db, pio, caller, local, begun, edits>>

\* EXPLAIN, and a PREPARE that is never executed: bound and no more.
Unbind(s) ==
  /\ pc[s] = "bound"
  /\ pc' = [pc EXCEPT ![s] = "idle"]
  /\ UNCHANGED <<db, pio, caller, call, local, result, begun, edits>>

\* CALL, or EXECUTE of what was prepared before: the scan's state is fresh.
VerbInit(s) ==
  /\ pc[s] = "bound" /\ caller[s] # "invalid"
  /\ done' = [done EXCEPT ![s] = FALSE]
  /\ pc' = [pc EXCEPT ![s] = "scan"]
  /\ UNCHANGED <<db, pio, caller, call, todo, base, view, temp, tx, result, begun, edits>>

-----------------------------------------------------------------------------
(* VerbScan: guard, compile, execute, and answer one row once.             *)

Return(s, how) ==
  /\ pc' = [pc EXCEPT ![s] = "idle"]
  /\ result' = [result EXCEPT ![s] = how]

\* The scan is not called (LIMIT 0), or not again once it has answered.
EndScan(s) ==
  /\ pc[s] = "scan"
  /\ pc' = [pc EXCEPT ![s] = "idle"]
  /\ UNCHANGED <<db, pio, caller, call, local, result, begun, edits>>

\* A mutant: the guard is forgotten.
RequireAutoCommitNever(s) ==
  /\ pc[s] = "scan" /\ ~done[s]
  /\ pc' = [pc EXCEPT ![s] = "compile"]
  /\ UNCHANGED <<db, pio, caller, call, local, result, begun, edits>>

\* Inside the caller's transaction the refusal also invalidates it.
RequireAutoCommit(s) ==
  /\ pc[s] = "scan" /\ ~done[s]
  /\ \/ /\ caller[s] = "auto"
        /\ pc' = [pc EXCEPT ![s] = "compile"]
        /\ UNCHANGED <<caller, result>>
     \/ /\ caller[s] = "explicit"
        /\ caller' = [caller EXCEPT ![s] = "invalid"]
        /\ Return(s, "refused")
  /\ UNCHANGED <<db, pio, call, local, begun, edits>>

\* A mutant: compiling on the caller's own context, which the scan keeps busy.
CompileStatementsOnCaller(s) ==
  /\ pc[s] = "compile" /\ Idle(s)
  /\ todo' = [todo EXCEPT ![s] = Compile(db, pio, call[s]).list]
  /\ pc' = [pc EXCEPT ![s] = "begin"]
  /\ UNCHANGED <<db, pio, caller, call, done, base, view, temp, tx, result, begun, edits>>

\* On a connection of its own: the macro reads committed state.
CompileStatements(s) ==
  /\ pc[s] = "compile"
  /\ LET compiled == Compile(db, pio, call[s]) IN
       \/ /\ compiled.refused
          /\ Return(s, "refused")
          /\ UNCHANGED todo
       \/ /\ ~compiled.refused
          /\ todo' = [todo EXCEPT ![s] = compiled.list]
          /\ pc' = [pc EXCEPT ![s] = "begin"]
          /\ UNCHANGED result
  /\ UNCHANGED <<db, pio, caller, call, done, base, view, temp, tx, begun, edits>>

\* A mutant: the transaction is not told from the one before it.
BeginTransactionUnnumbered(s) ==
  /\ pc[s] = "begin"
  /\ base' = [base EXCEPT ![s] = db]
  /\ view' = [view EXCEPT ![s] = db]
  /\ temp' = [temp EXCEPT ![s] = NoTemp]
  /\ tx' = [tx EXCEPT ![s] = begun + 1]
  /\ pc' = [pc EXCEPT ![s] = "run"]
  /\ UNCHANGED <<db, pio, caller, call, done, todo, result, begun, edits>>

\* BEGIN TRANSACTION on a fresh connection.
BeginTransaction(s) ==
  /\ pc[s] = "begin"
  /\ base' = [base EXCEPT ![s] = db]
  /\ view' = [view EXCEPT ![s] = db]
  /\ temp' = [temp EXCEPT ![s] = NoTemp]
  /\ tx' = [tx EXCEPT ![s] = begun + 1]
  /\ begun' = begun + 1
  /\ pc' = [pc EXCEPT ![s] = "run"]
  /\ UNCHANGED <<db, pio, caller, call, done, todo, result, edits>>

\* A mutant: each statement commits on its own.
RunStatementAutocommits(s) ==
  /\ pc[s] = "run" /\ todo[s] # <<>>
  /\ ~Raises(db, temp[s], Head(todo[s]), pio)
  /\ db' = Effect(db, temp[s], Head(todo[s]), tx[s], pio)
  /\ view' = [view EXCEPT ![s] = db']
  /\ temp' = [temp EXCEPT ![s] = Staged(db, @, Head(todo[s]), pio)]
  /\ todo' = [todo EXCEPT ![s] = Tail(@)]
  /\ UNCHANGED <<pio, caller, pc, call, done, base, tx, result, begun, edits>>

RunStatement(s) ==
  /\ pc[s] = "run" /\ todo[s] # <<>>
  /\ ~Raises(view[s], temp[s], Head(todo[s]), pio)
  /\ view' = [view EXCEPT ![s] = Effect(@, temp[s], Head(todo[s]), tx[s], pio)]
  /\ temp' = [temp EXCEPT ![s] = Staged(view[s], @, Head(todo[s]), pio)]
  /\ todo' = [todo EXCEPT ![s] = Tail(@)]
  /\ UNCHANGED <<db, pio, caller, pc, call, done, base, tx, result, begun, edits>>

\* What the connection held is gone once the call returns.
Release(s) ==
  /\ todo' = [todo EXCEPT ![s] = <<>>]
  /\ base' = [base EXCEPT ![s] = EmptyDb]
  /\ view' = [view EXCEPT ![s] = EmptyDb]
  /\ temp' = [temp EXCEPT ![s] = NoTemp]
  /\ tx' = [tx EXCEPT ![s] = 0]

\* A mutant: the error path commits what had been done.
RollBackKeeps(s) ==
  /\ pc[s] = "run" /\ todo[s] # <<>>
  /\ Faults \/ Raises(view[s], temp[s], Head(todo[s]), pio)
  /\ db' = Merge(db, base[s], view[s])
  /\ Return(s, "error")
  /\ Release(s)
  /\ UNCHANGED <<pio, caller, call, done, begun, edits>>

\* A statement failed: ROLLBACK and rethrow.
RollBack(s) ==
  /\ pc[s] = "run" /\ todo[s] # <<>>
  /\ Faults \/ Raises(view[s], temp[s], Head(todo[s]), pio)
  /\ Return(s, "error")
  /\ Release(s)
  /\ UNCHANGED <<db, pio, caller, call, done, begun, edits>>

\* A mutant: the scan does not note that it has answered.
CommitForgets(s) ==
  /\ pc[s] = "run" /\ todo[s] = <<>>
  /\ ~Conflict(db, base[s], view[s])
  /\ db' = Merge(db, base[s], view[s])
  /\ pc' = [pc EXCEPT ![s] = "scan"]
  /\ result' = [result EXCEPT ![s] = "ok"]
  /\ Release(s)
  /\ UNCHANGED <<pio, caller, call, done, begun, edits>>

\* COMMIT, and the row that answers the call.
Commit(s) ==
  /\ pc[s] = "run" /\ todo[s] = <<>>
  /\ ~Conflict(db, base[s], view[s])
  /\ db' = Merge(db, base[s], view[s])
  /\ pc' = [pc EXCEPT ![s] = "scan"]
  /\ done' = [done EXCEPT ![s] = TRUE]
  /\ result' = [result EXCEPT ![s] = "ok"]
  /\ Release(s)
  /\ UNCHANGED <<pio, caller, call, begun, edits>>

\* COMMIT failed: ROLLBACK and rethrow.
CommitFails(s) ==
  /\ pc[s] = "run" /\ todo[s] = <<>>
  /\ Faults \/ Conflict(db, base[s], view[s])
  /\ Return(s, "error")
  /\ Release(s)
  /\ UNCHANGED <<db, pio, caller, call, done, begun, edits>>

\* The process dies: what was not committed is gone, with every session.
Crash ==
  /\ Faults
  /\ \E s \in Session : ~Idle(s)
  /\ caller' = [s \in Session |-> "auto"]
  /\ pc' = [s \in Session |-> "idle"]
  /\ call' = [s \in Session |-> NoCall]
  /\ done' = [s \in Session |-> FALSE]
  /\ todo' = [s \in Session |-> <<>>]
  /\ base' = [s \in Session |-> EmptyDb]
  /\ view' = [s \in Session |-> EmptyDb]
  /\ temp' = [s \in Session |-> NoTemp]
  /\ tx' = [s \in Session |-> 0]
  /\ result' = [s \in Session |-> "none"]
  /\ pio' = TRUE
  /\ UNCHANGED <<db, begun, edits>>

\* The steps of a call, which the scan takes until it returns.
Step(s) ==
  \/ EndScan(s) \/ RequireAutoCommit(s) \/ CompileStatements(s) \/ BeginTransaction(s)
  \/ RunStatement(s) \/ RollBack(s) \/ Commit(s) \/ CommitFails(s)

Next ==
  \/ \E s \in Session :
       \/ BeginExplicit(s) \/ EndExplicit(s) \/ ChangeSource(s) \/ EditStored(s) \/ SetOption(s)
       \/ VerbBind(s) \/ Unbind(s) \/ VerbInit(s) \/ Step(s)
  \/ Crash

Spec == Init /\ [][Next]_vars

\* A scan that has started is run to its end by the caller's thread.
FairSpec == Spec /\ \A s \in Session : WF_vars(Step(s))

=============================================================================
