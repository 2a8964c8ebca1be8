--------------------------- MODULE CatalogImport ---------------------------
(***************************************************************************)
(* The import of PostgreSQL's catalogue (importers.py, _inspect_postgres): *)
(* seven queries, each read at once, put together into a model, while      *)
(* other sessions change the structure.  The transaction is the caller's:  *)
(* under repeatable read every query sees the catalogue of the first.      *)
(*                                                                         *)
(* A catalogue gives every table its kind, columns, primary key, foreign   *)
(* keys, indexes and triggers; types, defaults and row security are not    *)
(* told apart.                                                             *)
(***************************************************************************)
EXTENDS Sequences

CONSTANTS Catalogues, \* structures the database goes through
          Requested,  \* tables of the requested schemas, imported or not
          Null

(* A constraint is one of columns that its tables have: PostgreSQL drops   *)
(* it with them.                                                           *)
IsCatalogue(c) ==
  \A t \in DOMAIN c :
    /\ \A k \in DOMAIN c[t].pkey : c[t].pkey[k] \in c[t].columns
    /\ \A n \in DOMAIN c[t].keys :
         LET key == c[t].keys[n] IN
         key.column \in c[t].columns /\ key.target \in DOMAIN c /\ key.to \in c[key.target].columns

ASSUME CatalogAssumption == Null \notin Catalogues /\ \A c \in Catalogues : IsCatalogue(c)

VARIABLES catalogue, \* the structure now
          isolation, \* repeatable read or read committed
          snapshot,  \* what the transaction saw first, or Null
          stage,     \* the query to come
          tables,    \* the model so far
          warned     \* objects a warning names

importVars == <<catalogue, isolation, snapshot, stage, tables, warned>>

NoTables == [t \in {} |-> Null]

ImportInit ==
  /\ catalogue \in Catalogues /\ isolation \in {"repeatable read", "read committed"}
  /\ snapshot = Null /\ stage = "schemas" /\ tables = NoTables /\ warned = {}

(* What a query finds, of the requested schemas. *)
Visible == IF isolation = "repeatable read" /\ snapshot # Null THEN snapshot ELSE catalogue
Found == Requested \cap DOMAIN Visible
Query(from, to) ==
  /\ stage = from /\ stage' = to
  /\ snapshot' = IF snapshot = Null THEN catalogue ELSE snapshot
  /\ UNCHANGED <<catalogue, isolation>>

-----------------------------------------------------------------------------
(* The schemas that exist.  (That one is missing is reported, and no more.)*)
QuerySchemas == Query("schemas", "objects") /\ UNCHANGED <<tables, warned>>

(* Ordinary tables are imported, other kinds reported. *)
QueryObjects ==
  /\ Query("objects", "columns")
  /\ tables' = [t \in {u \in Found : Visible[u].kind = "r"} |->
                  [columns |-> {}, pkey |-> << >>, keys |-> NoTables, relations |-> NoTables,
                   indexes |-> {}]]
  /\ warned' = {<<"object", t>> : t \in {u \in Found : Visible[u].kind # "r"}}

(* The columns of tables that were there before. *)
QueryColumns ==
  /\ Query("columns", "constraints")
  /\ tables' = [t \in DOMAIN tables |->
                  IF t \in Found THEN [tables[t] EXCEPT !.columns = Visible[t].columns] ELSE tables[t]]
  /\ UNCHANGED warned

(* Mutant: reported, and a relation all the same. *)
RelationsAlways(keys) == keys

(* A foreign key is a relation by its own name if its target is imported.  *)
Relations(keys) == [n \in {m \in DOMAIN keys : keys[m].target \in DOMAIN tables} |-> keys[n]]

(* The constraints: primary keys, then relations, others reported.         *)
QueryConstraints ==
  /\ Query("constraints", "indexes")
  /\ tables' = [t \in DOMAIN tables |->
       IF t \notin Found THEN tables[t]
       ELSE [tables[t] EXCEPT !.pkey = Visible[t].pkey, !.keys = Visible[t].keys,
                              !.relations = Relations(Visible[t].keys)]]
  /\ warned' = warned \cup UNION {
       {<<"key", t, n>> : n \in {m \in DOMAIN Visible[t].keys : Visible[t].keys[m].target \notin DOMAIN tables}} :
       t \in DOMAIN tables \cap Found}

QueryIndexes ==
  /\ Query("indexes", "triggers")
  /\ tables' = [t \in DOMAIN tables |->
                  IF t \in Found THEN [tables[t] EXCEPT !.indexes = Visible[t].indexes] ELSE tables[t]]
  /\ UNCHANGED warned

(* Triggers, of tables of any kind. *)
QueryTriggers ==
  /\ Query("triggers", "done")
  /\ warned' = warned \cup {<<"trigger", t>> : t \in {u \in Found : Visible[u].trigger}}
  /\ UNCHANGED tables

(* DDL of another session.  The transaction holds no lock on it.           *)
Migrate ==
  /\ stage # "done"
  /\ catalogue' \in Catalogues
  /\ UNCHANGED <<isolation, snapshot, stage, tables, warned>>

ImportNext == QuerySchemas \/ QueryObjects \/ QueryColumns \/ QueryConstraints \/ QueryIndexes \/ QueryTriggers \/ Migrate

ImportSpec == ImportInit /\ [][ImportNext]_importVars

-----------------------------------------------------------------------------
(* Whatever other sessions do, a relation leads to a table of the model;   *)
(* under repeatable read every key is made of columns the tables have.     *)
ModelIsClosed ==
  \A t \in DOMAIN tables : \A n \in DOMAIN tables[t].relations :
    LET r == tables[t].relations[n] IN
    /\ r.target \in DOMAIN tables
    /\ isolation = "repeatable read" =>
         /\ r.column \in tables[t].columns /\ r.to \in tables[r.target].columns
         /\ \A k \in DOMAIN tables[t].pkey : tables[t].pkey[k] \in tables[t].columns

(* Under repeatable read all the catalogue held is in the model or in a    *)
(* warning: tables, columns, each of several keys between two tables,      *)
(* indexes, triggers.                                                      *)
NothingGoesUnreported ==
  isolation = "repeatable read" =>
    \A t \in Requested \cap DOMAIN snapshot :
      /\ snapshot[t].trigger => <<"trigger", t>> \in warned
      /\ \/ <<"object", t>> \in warned
         \/ /\ t \in DOMAIN tables /\ tables[t].columns = snapshot[t].columns
            /\ tables[t].indexes = snapshot[t].indexes
            /\ \A n \in DOMAIN snapshot[t].keys :
                 <<"key", t, n>> \in warned \/ n \in DOMAIN tables[t].relations

(* The import ends with a model that leads nowhere else and, of a stable   *)
(* catalogue, with nothing lost in silence.  (_inspect_postgres)           *)
ImportIsFaithful == stage = "done" => ModelIsClosed /\ NothingGoesUnreported
=============================================================================
