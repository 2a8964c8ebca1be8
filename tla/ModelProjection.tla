-------------------------- MODULE ModelProjection --------------------------
(***************************************************************************)
(* Projections of a model: to the normalized migration structure           *)
(* (migration.py, SqlMigrationRenderer) and to a model of the physical     *)
(* names alone (projection.py, to_physical_builder).                       *)
(*                                                                         *)
(* The structure is what asqueel_migration's factories build: entities are *)
(* keyed by what they are made of, so a foreign key, a UNIQUE constraint   *)
(* and an index by their columns and a CHECK by its name.                  *)
(***************************************************************************)
EXTENDS ModelResolution

(* The name the factories give what has none.                              *)
HashName(columns) == <<"hash", ToString(columns)>>

(* _column_item *)
ColumnItem(t, n) ==
  LET c == t.columns[n] IN
    [dtype   |-> ColumnType(c), size |-> c.size,
     unique  |-> c.unique /\ t.pkey # <<n>>,
     notnull |-> IF n \in Members(t.pkey) THEN "auto" ELSE IF c.notnull THEN "yes" ELSE "no"]

(* _fill_relations: the owner is looked up in the family.                  *)
ForeignKeys(t) ==
  {r \in t.relations : r.foreign_key /\ Family(t, r.owner[2]) # "virtual_columns"}
RelationItems(d, t) ==
  [columns \in {OwnColumns(t, r) : r \in ForeignKeys(t)} |->
     LET r == CHOOSE r \in ForeignKeys(t) : OwnColumns(t, r) = columns IN
       [target  |-> TargetTable(r), columns |-> TargetColumns(d, r),
        options |-> (r.options \cap {"on_delete", "on_update"})
                    \cup (IF r.options \cap {"deferrable", "deferred"} # {}
                          THEN {"deferrable"} ELSE {})
                    \cup (IF r.options \cap {"initially_deferred", "deferred"} # {}
                          THEN {"initially_deferred"} ELSE {})]]

(* _fill_constraints *)
ConstraintItems(t) ==
  LET checks  == DOMAIN t.constraints \ UniqueConstraints(t)
      uniques == {t.constraints[n].columns : n \in UniqueConstraints(t)}
      Owner(columns) == CHOOSE n \in UniqueConstraints(t) : t.constraints[n].columns = columns
  IN  [k \in {<<"CHECK", n>> : n \in checks} |-> k[2]]
      @@ [k \in {<<"UNIQUE", columns>> : columns \in uniques} |-> Owner(k[2])]
      @@ [k \in {<<"UNIQUE", t.composites[n].columns>> : n \in UniqueComposites(t)} |-> HashName(k[2])]

(* _fill_indexes and _fill_auto_indexes: an index of the author's goes     *)
(* before the ones that indexed=True and the foreign keys imply.           *)
AutoIndexed(t) ==
  {OwnColumns(t, r) : r \in {fk \in ForeignKeys(t) : fk.indexed # FALSE}}
  \cup {<<n>> : n \in {m \in DOMAIN t.columns : t.columns[m].indexed}}
IndexItems(t) ==
  LET Explicit(columns) == {n \in DOMAIN t.indexes : t.indexes[n].columns = columns}
      Item(columns) ==
        LET n == CHOOSE n \in Explicit(columns) : TRUE IN
          [name |-> n, unique |-> t.indexes[n].unique, where |-> t.indexes[n].where]
  IN  [columns \in {t.indexes[n].columns : n \in DOMAIN t.indexes} |-> Item(columns)]
      @@ [columns \in AutoIndexed(t) \ {t.pkey} |->
            [name |-> HashName(columns), unique |-> FALSE, where |-> FALSE]]

TableItem(d, t) ==
  [pkey |-> t.pkey, columns |-> [n \in DOMAIN t.columns |-> ColumnItem(t, n)],
   relations |-> RelationItems(d, t), constraints |-> ConstraintItems(t),
   indexes |-> IndexItems(t)]

(* render *)
Render(d) ==
  [schemas |-> DOMAIN d.schemas, extensions |-> d.extensions,
   tables  |-> [key \in DOMAIN d.tables |-> TableItem(d, d.tables[key])]]

-----------------------------------------------------------------------------
(* to_physical_builder *)
Mapped(t, names) == [k \in DOMAIN names |-> PhysicalColumn(ResolvedColumns(t), names[k])]
Remapped(t) ==
  \E n \in DOMAIN ResolvedColumns(t) : PhysicalColumn(ResolvedColumns(t), n) # n

(* A constraint per unique composite, numbered after the author's.         *)
MadeUniques(t) ==
  LET named == Cardinality(DOMAIN t.constraints) IN
    {<<"unique", ToString(k)>> : k \in named..(named + Cardinality(UniqueComposites(t)) - 1)}

(* A made-up key's number counts the keys before it.  Its name is written  *)
(* longer while a column of the resolved table, not of the physical one,   *)
(* has it.                                                                 *)
NativeKey(t, number) ==
  LET Written(m) == <<"_native_key", ToString(number)>> \o [k \in 1..m |-> ""]
      columns    == DOMAIN ResolvedColumns(t)
  IN  Written(CHOOSE m \in 0..Cardinality(columns) :
                Written(m) \notin columns /\ \A l \in 0..(m - 1) : Written(l) \in columns)

PhysicalColumns(t) ==
  LET columns  == ResolvedColumns(t)
      Physical_ == {n \in DOMAIN columns : ~IsVirtual(columns[n])}
      Named(p) == CHOOSE n \in Physical_ : PhysicalColumn(columns, n) = p
  IN  [p \in {PhysicalColumn(columns, n) : n \in Physical_} |->
         [t.columns[Named(p)] EXCEPT !.dtype = ColumnType(t.columns[Named(p)]), !.sql_name = None]]
PhysicalConstraints(t) ==
  LET Numbered == CHOOSE f \in [MadeUniques(t) -> UniqueComposites(t)] :
                    \A m, n \in MadeUniques(t) : f[m] = f[n] => m = n
  IN  [n \in DOMAIN t.constraints |-> [t.constraints[n] EXCEPT !.columns = Mapped(t, @)]]
      @@ [n \in MadeUniques(t) |-> UniqueOver(Mapped(t, t.composites[Numbered[n]].columns))]
PhysicalIndexes(t) ==
  [n \in DOMAIN t.indexes |-> [t.indexes[n] EXCEPT !.columns = Mapped(t, @)]]

(* Composites of the projection: local keys, and targets that are no pkey. *)
Projected(d, key) ==
  {n \in DOMAIN ResolvedRelations(d, key) :
     (CHOOSE s \in d.tables[key].relations : RelationName(s) = n).foreign_key}
NeededKeys(d, key) ==
  LET Of(k) == {ResolvedRelations(d, k)[n] : n \in Projected(d, k)} IN
    {r.columns : r \in {q \in Of(key) : Len(q.columns) > 1}}
    \cup {r.target_columns : r \in {q \in UNION {Of(k) : k \in DOMAIN d.tables} :
                                      /\ q.target = key /\ Len(q.target_columns) > 1
                                      /\ q.target_columns # d.tables[key].pkey}}
(* The orders the keys can be met in, tables and relations being a set.    *)
Numberings(d) ==
  LET needed == UNION {{key} \X NeededKeys(d, key) : key \in DOMAIN d.tables} IN
    {f \in [needed -> 0..(Cardinality(needed) - 1)] : \A p, q \in needed : f[p] = f[q] => p = q}
KeyName(d, numbering, key, names) == NativeKey(d.tables[key], numbering[<<key, names>>])
PhysicalComposites(d, numbering, key) ==
  [n \in {KeyName(d, numbering, key, names) : names \in NeededKeys(d, key)} |->
     Composite(Mapped(d.tables[key], CHOOSE names \in NeededKeys(d, key) :
                                       KeyName(d, numbering, key, names) = n), FALSE)]

(* Mutant: a target of as many columns as the primary key is taken for it. *)
PhysicalTargetCounted(d, numbering, r) ==
  LET target == d.tables[r.target]
      table  == PhysicalTable(d, r.target)
  IN  To(IF Len(r.target_columns) = Len(target.pkey) THEN table
         ELSE Append(table, Mapped(target, r.target_columns)[1]), FALSE)

(* The target in its shortest form, a composite of its own if need be.     *)
PhysicalTarget(d, numbering, r) ==
  LET target  == d.tables[r.target]
      columns == r.target_columns
      table   == PhysicalTable(d, r.target)
  IN  To(IF columns = target.pkey THEN table
         ELSE IF Len(columns) = 1 THEN Append(table, Mapped(target, columns)[1])
         ELSE Append(table, KeyName(d, numbering, r.target, columns)), FALSE)
PhysicalRelation(d, numbering, key, n) ==
  LET t == d.tables[key]
      r == ResolvedRelations(d, key)[n]
      declared == CHOOSE s \in t.relations : RelationName(s) = n
      owner == IF Len(r.columns) = 1 THEN <<"columns", Mapped(t, r.columns)[1]>>
               ELSE <<"composites", KeyName(d, numbering, key, r.columns)>>
  IN  Relation(owner, PhysicalTarget(d, numbering, r), TRUE, declared.options, declared.indexed,
               None, None)

ToPhysical(d, numbering) ==
  LET Logical(p) == CHOOSE key \in DOMAIN d.tables : PhysicalTable(d, key) = p
      plain == [sql_schema |-> None, sql_prefix |-> None]
  IN  [schemas    |-> [s \in {PhysicalTable(d, key)[1] : key \in DOMAIN d.tables} |-> plain],
       extensions |-> {},
       tables     |->
         [p \in {PhysicalTable(d, key) : key \in DOMAIN d.tables} |->
            LET key == Logical(p)
                t   == d.tables[key]
            IN  plain @@
                [pkey |-> Mapped(t, t.pkey), sql_name |-> None,
                 columns |-> PhysicalColumns(t), virtual_columns |-> << >>,
                 composites |-> PhysicalComposites(d, numbering, key),
                 relations |-> {PhysicalRelation(d, numbering, key, n) : n \in Projected(d, key)},
                 constraints |-> PhysicalConstraints(t), indexes |-> PhysicalIndexes(t)]]]

(* What the projection refuses: SQL text over columns that are renamed,    *)
(* and a made-up constraint's name that the author has used.               *)
Projects(d) ==
  /\ Resolves(d)
  /\ \A key \in DOMAIN d.tables :
       LET t == d.tables[key] IN
       /\ Remapped(t) => /\ \A n \in DOMAIN t.constraints : t.constraints[n].constraint_type # "CHECK"
                         /\ \A n \in DOMAIN t.indexes : ~t.indexes[n].where
       /\ MadeUniques(t) \cap DOMAIN t.constraints = {}

-----------------------------------------------------------------------------
(* Names that two collections of a table share.                            *)
Distinct(d) ==
  \A key \in DOMAIN d.tables : \A j, k \in FamilyCollections :
    j # k => DOMAIN d.tables[key][j] \cap DOMAIN d.tables[key][k] = {}

(* The three readings of a relation agree: in a model that validates, the  *)
(* foreign key the renderer writes and the relation the resolver keeps     *)
(* join the columns the validator checked, as many on both sides, all of   *)
(* them columns of the structure.  Where they disagree is said exactly:    *)
(* the resolver breaks on the targets written with blanks, which the       *)
(* validator and the renderer strip, and on no other; every other valid    *)
(* model resolves or is refused.  (validators._resolve_target,             *)
(* migration._resolve_target, model.resolve_model)                         *)
ImplementationsAgree ==
  (Validates(doc) /\ Distinct(doc)) =>
    /\ Resolves(doc) \/ Refused(doc) \/ \E p \in AllRelations(doc) : p[2].to.padded
    /\ (\E p \in AllRelations(doc) : p[2].to.padded) => ~Resolves(doc)
    /\ \A key \in DOMAIN doc.tables : \A r \in doc.tables[key].relations :
         LET t == doc.tables[key] IN
         /\ r.foreign_key =>
              LET fk == RelationItems(doc, t)[LocalColumns(t, r)] IN
              /\ fk.target = TargetTable(r) /\ fk.columns = TargetColumns(doc, r)
              /\ Len(fk.columns) = Len(LocalColumns(t, r))
              /\ Members(fk.columns) \subseteq DOMAIN Render(doc).tables[fk.target].columns
              /\ fk.options \cap {"initially_deferred"} # {} => "deferrable" \in fk.options
         /\ Resolves(doc) =>
              LET kept == ResolvedRelations(doc, key)[RelationName(r)] IN
              /\ kept = [target |-> TargetTable(r), columns |-> LocalColumns(t, r),
                         target_columns |-> TargetColumns(doc, r)]
              /\ Members(kept.columns) \subseteq DOMAIN ResolvedColumns(t)

(* An alias of a resolved model ends: as many steps as there are aliases   *)
(* lead to a column that is none, which is where _resolve_aliases says.    *)
AliasesEnd ==
  Resolves(doc) =>
    \A start \in Aliases(doc) :
      LET Follow[k \in 0..Cardinality(Aliases(doc))] ==
            IF k = 0 THEN start
            ELSE IF Follow[k - 1] \in Aliases(doc) THEN AliasStep(doc, Follow[k - 1])
            ELSE Follow[k - 1]
          last == Follow[Cardinality(Aliases(doc))]
      IN  /\ last \notin Aliases(doc)
          /\ ResolveAlias(doc, start) = ResolvedColumns(doc.tables[last[1]])[last[2]]

(* The structure of a table but for the names of constraints and of the    *)
(* indexes nobody named.                                                   *)
IndexShape(item) ==
  [item EXCEPT !.name = IF @[1] = "hash" THEN None ELSE @]
Shape(item) ==
  [item EXCEPT !.constraints = DOMAIN @,
               !.indexes = [columns \in DOMAIN @ |-> IndexShape(@[columns])]]
(* A structure under the physical names of a model.                        *)
Renamed(d, key) ==
  LET t    == d.tables[key]
      item == TableItem(d, t)
      Named(names) == Mapped(t, names)
      Re(f) == [k \in {Named(names) : names \in DOMAIN f} |->
                  f[CHOOSE names \in DOMAIN f : Named(names) = k]]
  IN  [pkey    |-> Named(item.pkey),
       columns |-> [p \in {Named(<<n>>)[1] : n \in DOMAIN item.columns} |->
                      item.columns[CHOOSE n \in DOMAIN item.columns : Named(<<n>>)[1] = p]],
       relations |-> [columns \in DOMAIN Re(item.relations) |->
                        LET fk == Re(item.relations)[columns] IN
                          [fk EXCEPT !.target = PhysicalTable(d, fk.target),
                                     !.columns = Mapped(d.tables[fk.target], fk.columns)]],
       constraints |-> [k \in {IF c[1] = "CHECK" THEN c ELSE <<"UNIQUE", Named(c[2])>> :
                                 c \in DOMAIN item.constraints} |-> None],
       indexes |-> Re(item.indexes)]

(* A made-up key has the name of a physical column: the family of the      *)
(* catalogue keeps one of the two (CollectionsDoNotCollide).               *)
KeyNamesMeet(d, numbering) == ~Distinct(ToPhysical(d, numbering))

(* A model that can be projected keeps its physical structure, in whatever *)
(* order its relations are met: the tables, their columns, primary keys,   *)
(* constraints and author's indexes are those of the model under physical  *)
(* names, and so are the foreign keys and all indexes of a model of        *)
(* physical names that validates, unless a made-up key has the name of a   *)
(* physical column.  (projection.to_physical_builder beside                *)
(* migration.render)                                                       *)
ProjectionKeepsTables ==
  (doc # None /\ Projects(doc) /\ Distinct(doc)) =>
    \A numbering \in Numberings(doc) :
      LET physical == ToPhysical(doc, numbering) IN
      /\ ~KeyNamesMeet(doc, numbering) => Validates(physical)
      /\ \A key \in DOMAIN doc.tables :
           LET kept == Shape(Render(physical).tables[PhysicalTable(doc, key)])
               is   == Shape(Renamed(doc, key))
           IN  /\ \A facet \in {"pkey", "columns", "constraints"} : kept[facet] = is[facet]
               /\ ~KeyNamesMeet(doc, numbering) => kept = is

(* elements.py says that children are keyed by name inside their own       *)
(* collection, so unrelated SQL namespaces do not collide: whatever the    *)
(* other collections hold, a foreign key is on the columns of its owner    *)
(* and a physical column stays a column of the resolved table.             *)
CollectionsDoNotCollide ==
  Validates(doc) =>
    \A key \in DOMAIN doc.tables :
      LET t == doc.tables[key] IN
      /\ \A r \in t.relations : r.foreign_key => LocalColumns(t, r) \in DOMAIN RelationItems(doc, t)
      /\ \A n \in DOMAIN t.columns : /\ n \in DOMAIN ResolvedColumns(t)
                                     /\ ~IsVirtual(ResolvedColumns(t)[n])
=============================================================================
