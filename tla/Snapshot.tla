------------------------------ MODULE Snapshot ------------------------------
(***************************************************************************)
(* DuckDB's transactions, as the executor uses them: snapshot isolation    *)
(* with first-committer-wins conflicts.  External: none of this is in the  *)
(* repository.  A transaction works on a view that starts as the committed *)
(* database; what it deleted and inserted is applied at COMMIT, which      *)
(* fails when another transaction already deleted a row or a catalog entry *)
(* it deletes, inserted the same primary key, created the same catalog     *)
(* entry, or dropped the table version it wrote to.  To drop a table is to *)
(* delete its catalog entry, and no row of it: that others have written to *)
(* the table since is no conflict.  DuckDB may raise some of these at the  *)
(* statement; a statement may fail at any time in VerbExecutor, so that is *)
(* covered there.                                                          *)
(***************************************************************************)
EXTENDS TreeCatalog

Deleted(base, view, rel)  == base[rel] \ view[rel]
Inserted(base, view, rel) == view[rel] \ base[rel]

Merge(db, base, view) ==
  [rel \in Relation |-> (db[rel] \ Deleted(base, view, rel)) \cup Inserted(base, view, rel)]

\* The same key inserted here and, since the snapshot, by someone else.
SameKey(db, base, view, rel, key) ==
  \E mine \in Inserted(base, view, rel), theirs \in db[rel] \ base[rel] : mine[key] = theirs[key]

\* A row of a table version that is in d.
Housed(d, r) == [m |-> r.m, by |-> r.v] \in d["tables"]

Conflict(db, base, view) ==
  \/ \E rel \in Relation \ {"rows"} : ~(Deleted(base, view, rel) \subseteq db[rel])
  \/ \E r \in Deleted(base, view, "rows") : Housed(view, r) /\ r \notin db["rows"]
  \/ \E rel \in Keyed : SameKey(db, base, view, rel, "t")
  \/ SameKey(db, base, view, "tables", "m")
  \/ SameKey(db, base, view, "macros", "m")
  \/ \E r \in Inserted(base, view, "rows") : Housed(base, r) /\ ~Housed(db, r)

=============================================================================
