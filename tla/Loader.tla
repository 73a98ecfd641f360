------------------------------- MODULE Loader -------------------------------
(***************************************************************************)
(* LOAD duckent (duckent_extension.cpp, duckent_macro_loader.cpp, and the  *)
(* registrations of duckent_verbs.cpp and duckent_match.cpp): the embedded *)
(* SQL files run in the order of their names, each statement committing on *)
(* its own, then the native functions are registered, then the tree_match  *)
(* macro over one of them is created.                                      *)
(*                                                                         *)
(* What the files create is in the database and outlives the process when  *)
(* the database is a file; the functions are the process's.  An embedded   *)
(* file is the number its name starts with, and an object is a pair        *)
(* <<what, file>>: the types, the tables, the rows or the macros of it.    *)
(***************************************************************************)
EXTENDS Integers, FiniteSets, SequencesExt

CONSTANTS
  Embedded,    \* the files as the build wrote them down, in any order
  LoadFaults,  \* may a statement of LOAD fail for a reason of its own?
  NoParser     \* the parser column of a language that has none: SQL NULL

\* No two files have one name, and every build has the types and the tables.
ASSUME EmbeddedAssumption ==
  /\ Embedded \in Seq(0 .. 10)
  /\ \A i, j \in DOMAIN Embedded : Embedded[i] = Embedded[j] => i = j
  /\ {0, 1} \subseteq Range(Embedded)

VARIABLES
  objects,     \* what the database holds of the embedded files
  registry,    \* selector_languages and the default: [parser, default]
  functions,   \* the native functions this process has registered
  load         \* LOAD: [pc, at, why]

loaderVars == <<objects, registry, functions, load>>

-----------------------------------------------------------------------------
(* The script: what the files' statements make and what they need.         *)

Make(op, what, f, needs) == [op |-> op, obj |-> <<what, f>>, needs |-> needs]

\* CREATE TYPE has no IF NOT EXISTS; everything else is IF NOT EXISTS, OR
\* REPLACE or ON CONFLICT DO NOTHING.  A file of macros is one statement: they
\* are re-created by each LOAD and need nothing to be created.
Statements(f) ==
  (CASE f = 0  -> <<Make("create", "types", 0, {}), Make("create", "spec", 0, {<<"types", 0>>})>>
     [] f = 1  -> <<Make("ensure", "tables", 1, {}), Make("language", "rows", 1, {<<"tables", 1>>}),
                    Make("setting", "rows", 1, {<<"tables", 1>>})>>
     [] OTHER  -> <<>>)
  \o <<Make("ensure", "macros", f, {})>>
  \o (CASE f = 7  -> <<Make("ensure", "rows", 7, {<<"tables", 1>>, <<"macros", 7>>})>>
        [] f = 10 -> <<Make("parser", "rows", 10, {<<"tables", 1>>})>>
        [] OTHER  -> <<>>)

\* std::sort by name: the k-th file has k - 1 before it.
LoadOrderAsBuilt == Embedded
LoadOrder ==
  [k \in DOMAIN Embedded |-> CHOOSE f \in Range(Embedded) : Cardinality({g \in Range(Embedded) : g < f}) = k - 1]

Script == FlattenSeq([i \in DOMAIN LoadOrder |-> Statements(LoadOrder[i])])

\* The macro over duckent_match, which no file holds.
TreeMatchMacro == <<"macros", 11>>

Raising(st) == (st.op = "create" /\ st.obj \in objects) \/ ~(st.needs \subseteq objects)

\* INSERT ... ON CONFLICT DO NOTHING, and the UPDATE that names treeql's reader.
RegistryAfter(st) ==
  CASE st.op = "language" /\ "treeql" \notin DOMAIN registry.parser ->
         [registry EXCEPT !.parser = [l \in DOMAIN @ \cup {"treeql"} |-> IF l = "treeql" THEN NoParser ELSE @[l]]]
    [] st.op = "setting" /\ registry.default = NoParser -> [registry EXCEPT !.default = "treeql"]
    [] st.op = "parser" ->
         [registry EXCEPT !.parser = [l \in DOMAIN @ |-> IF l = "treeql" THEN "tree_parse_treeql" ELSE @[l]]]
    [] OTHER -> registry

-----------------------------------------------------------------------------
(* LoadInternal.                                                           *)

EmptyRegistry == [parser |-> [l \in {} |-> NoParser], default |-> NoParser]
NotLoaded     == [pc |-> "none", at |-> 1, why |-> "none"]
Loaded        == load.pc = "loaded"

LoaderInit ==
  /\ objects = {}
  /\ registry = EmptyRegistry
  /\ functions = {}
  /\ load = NotLoaded

\* LOAD, or LOAD again after one that failed.
StartLoad ==
  /\ load.pc \in {"none", "failed"}
  /\ load' = [pc |-> "script", at |-> 1, why |-> "none"]
  /\ UNCHANGED <<objects, registry, functions>>

Fails(why) ==
  /\ load' = [load EXCEPT !.pc = "failed", !.why = why]
  /\ UNCHANGED <<objects, registry, functions>>

RunEmbedded ==
  /\ load.pc = "script" /\ load.at <= Len(Script)
  /\ LET st == Script[load.at] IN
       /\ ~Raising(st)
       /\ objects' = objects \cup {st.obj}
       /\ registry' = RegistryAfter(st)
  /\ load' = [load EXCEPT !.at = @ + 1]
  /\ UNCHANGED functions

\* A mutant: the result of a file is not looked at.
EmbeddedFailsUnseen ==
  /\ load.pc = "script" /\ load.at <= Len(Script)
  /\ Raising(Script[load.at]) \/ LoadFaults
  /\ load' = [load EXCEPT !.at = @ + 1]
  /\ UNCHANGED <<objects, registry, functions>>

\* A statement raises: LOAD throws, and what was committed before it stays.
EmbeddedFails ==
  /\ load.pc = "script" /\ load.at <= Len(Script)
  /\ \/ Raising(Script[load.at]) /\ Fails("raised")
     \/ ~Raising(Script[load.at]) /\ LoadFaults /\ Fails("fault")

\* RegisterDuckentVerbs, once every file has run.
RegisterDuckentVerbs ==
  /\ load.pc = "script" /\ load.at > Len(Script)
  /\ functions' = functions \cup {"verbs"}
  /\ load' = [load EXCEPT !.pc = "match"]
  /\ UNCHANGED <<objects, registry>>

\* RegisterDuckentMatch: the function first, because CREATE MACRO resolves the
\* name of a table function; then the macro over it, then duckent_version.
RegisterMatchFunction ==
  /\ load.pc = "match"
  /\ functions' = functions \cup {"duckent_match"}
  /\ load' = [load EXCEPT !.pc = "macro"]
  /\ UNCHANGED <<objects, registry>>

CreateTreeMatch ==
  /\ load.pc = "macro" /\ "duckent_match" \in functions
  /\ objects' = objects \cup {TreeMatchMacro}
  /\ functions' = functions \cup {"duckent_version"}
  /\ load' = [load EXCEPT !.pc = "loaded"]
  /\ UNCHANGED registry

CreateTreeMatchFails ==
  /\ load.pc = "macro" /\ LoadFaults
  /\ Fails("fault")

Load ==
  \/ StartLoad \/ RunEmbedded \/ EmbeddedFails
  \/ RegisterDuckentVerbs \/ RegisterMatchFunction \/ CreateTreeMatch \/ CreateTreeMatchFails

\* The process ends.  A database file keeps what was committed.
ProcessEnds(file) ==
  /\ functions' = {}
  /\ load' = NotLoaded
  /\ IF file THEN UNCHANGED <<objects, registry>>
     ELSE objects' = {} /\ registry' = EmptyRegistry

=============================================================================
