---------------------------- MODULE ModelReader ----------------------------
(***************************************************************************)
(* The reverse projection (reader.py, SqlModelReader): a structure read    *)
(* from a database becomes a model that renders the same structure.        *)
(*                                                                         *)
(* The structure grows by the entities a database may have; it is the      *)
(* state, and the model read from it an operator.  Names of constraints    *)
(* are the author's or, hashed, the factories'; names of foreign keys are  *)
(* left out, as the comparison ignores them.                               *)
(***************************************************************************)
EXTENDS ModelProjection, SequencesExt

CONSTANTS Bases,     \* structures of tables with columns and primary keys
          Entities   \* foreign keys, constraints and indexes there may be

VARIABLE structure

ReaderInit ==
  /\ structure \in Bases
  /\ Init

(* A database has one entity over the same columns of a kind.              *)
AddEntity(e) ==
  /\ e.table \in DOMAIN structure.tables
  /\ e.key \notin DOMAIN structure.tables[e.table][e.kind]
  /\ structure' = [structure EXCEPT !.tables[e.table][e.kind] = @ @@ (e.key :> e.item)]
  /\ UNCHANGED modelVars

ReaderNext == \E e \in Entities : AddEntity(e)
ReaderSpec == ReaderInit /\ [][ReaderNext]_<<structure, modelVars>>

-----------------------------------------------------------------------------
(* _plan_composites: both sides of a foreign key of several columns, the   *)
(* far side unless it is the primary key, and a UNIQUE constraint of       *)
(* several columns that nobody named.                                      *)
Hashed(t, key) == key[1] = "UNIQUE" /\ t.constraints[key] = HashName(key[2])
UniqueKeys(t) == {key[2] : key \in {k \in DOMAIN t.constraints : Hashed(t, k) /\ Len(k[2]) > 1}}
NearKeys(t)   == {columns \in DOMAIN t.relations : Len(columns) > 1}
FarKeys(s, table) ==
  {fk.columns : fk \in
     {f \in UNION {{s.tables[k].relations[c] : c \in DOMAIN s.tables[k].relations} :
                     k \in DOMAIN s.tables} :
        /\ f.target = table /\ Len(f.columns) > 1
        /\ f.columns # s.tables[table].pkey}}
Planned(s, table) ==
  UniqueKeys(s.tables[table]) \cup NearKeys(s.tables[table]) \cup FarKeys(s, table)

(* _need_composite: the members joined, with the first free suffix.        *)
Joined(columns) == FlattenSeq(columns)
Suffixed(base, k) == IF k = 1 THEN base ELSE base \o <<ToString(k)>>

FreeName(base, used) ==
  Suffixed(base, CHOOSE k \in 1..(Cardinality(used) + 1) :
                   /\ Suffixed(base, k) \notin used
                   /\ \A j \in 1..(k - 1) : Suffixed(base, j) \in used)
CompositeNames(s, table) ==
  LET planned == SetToSeq(Planned(s, table))
      Used[k \in 0..Len(planned)] ==
        IF k = 0 THEN DOMAIN s.tables[table].columns
        ELSE Used[k - 1] \cup {FreeName(Joined(planned[k]), Used[k - 1])}
      Place(columns) == CHOOSE k \in DOMAIN planned : planned[k] = columns
  IN  [columns \in Planned(s, table) |-> FreeName(Joined(columns), Used[Place(columns) - 1])]

ReadComposites(s, table) ==
  LET names == CompositeNames(s, table)
      Of(n) == CHOOSE columns \in DOMAIN names : names[columns] = n
  IN  [n \in {names[columns] : columns \in DOMAIN names} |->
         Composite(Of(n), Of(n) \in UniqueKeys(s.tables[table]))]

(* _add_column: a column of the primary key is not said to be NOT NULL.    *)
ReadColumn(t, n) ==
  LET c == t.columns[n] IN
    Column(c.dtype, c.size,
           (IF c.unique THEN {"unique"} ELSE {})
           \cup (IF c.notnull = "yes" THEN {"notnull"} ELSE {}), None)

(* _target and _fill_relations: a foreign key without an index of its own  *)
(* is told not to make one.                                                *)
ReadTarget(s, fk) ==
  To(IF Len(fk.columns) = 1 THEN Append(fk.target, fk.columns[1])
     ELSE IF fk.columns = s.tables[fk.target].pkey THEN fk.target
     ELSE Append(fk.target, CompositeNames(s, fk.target)[fk.columns]), FALSE)

(* Mutant: every foreign key read is given an index.                       *)
ReadRelationIndexed(s, table, columns) ==
  LET t     == s.tables[table]
      owner == IF Len(columns) = 1 THEN <<"columns", columns[1]>>
               ELSE <<"composites", CompositeNames(s, table)[columns]>>
  IN  Relation(owner, ReadTarget(s, t.relations[columns]), TRUE,
               t.relations[columns].options, None, None, None)

ReadRelation(s, table, columns) ==
  LET t     == s.tables[table]
      fk    == t.relations[columns]
      owner == IF Len(columns) = 1 THEN <<"columns", columns[1]>>
               ELSE <<"composites", CompositeNames(s, table)[columns]>>
  IN  Relation(owner, ReadTarget(s, fk), TRUE, fk.options,
               IF columns \in DOMAIN t.indexes THEN None ELSE FALSE, None, None)

(* _fill_constraints: those that have become no composite.                 *)
Mounted(t, key) == key[1] = "CHECK" \/ ~(Hashed(t, key) /\ Len(key[2]) > 1)
ReadConstraints(t) ==
  [n \in {t.constraints[key] : key \in {k \in DOMAIN t.constraints : Mounted(t, k)}} |->
     LET key == CHOOSE k \in DOMAIN t.constraints : t.constraints[k] = n IN
       IF key[1] = "CHECK" THEN Check(TRUE) ELSE UniqueOver(key[2])]

(* _fill_indexes *)
ReadIndexes(t) ==
  [n \in {t.indexes[columns].name : columns \in DOMAIN t.indexes} |->
     LET columns == CHOOSE c \in DOMAIN t.indexes : t.indexes[c].name = n IN
       Index(columns, t.indexes[columns].unique, t.indexes[columns].where)]

ReadTable(s, table) ==
  LET t == s.tables[table] IN
    [pkey |-> t.pkey, sql_name |-> None, sql_schema |-> None, sql_prefix |-> None,
     columns |-> [n \in DOMAIN t.columns |-> ReadColumn(t, n)],
     virtual_columns |-> << >>, composites |-> ReadComposites(s, table),
     relations |-> {ReadRelation(s, table, columns) : columns \in DOMAIN t.relations},
     constraints |-> ReadConstraints(t), indexes |-> ReadIndexes(t)]

(* A foreign key to a table the structure does not have is an error.       *)
Readable(s) ==
  \A table \in DOMAIN s.tables : \A columns \in DOMAIN s.tables[table].relations :
    s.tables[table].relations[columns].target \in DOMAIN s.tables

(* _build *)
Read(s) ==
  [schemas    |-> [n \in s.schemas |-> [sql_schema |-> None, sql_prefix |-> None]],
   extensions |-> s.extensions,
   tables     |-> [table \in DOMAIN s.tables |-> ReadTable(s, table)]]

-----------------------------------------------------------------------------
(* The law of the reader: what it reads validates and renders the same     *)
(* structure, names of foreign keys aside; nothing is invented, an index   *)
(* or a composite's UNIQUE key included, and nothing dropped.  So the      *)
(* names it makes up for composites are no column's and differ from each   *)
(* other, whatever the columns are called (_need_composite).               *)
RoundTrip ==
  Readable(structure) =>
    /\ Distinct(Read(structure))
    /\ Validates(Read(structure))
    /\ Render(Read(structure)) = structure
=============================================================================
