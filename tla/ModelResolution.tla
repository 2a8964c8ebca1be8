-------------------------- MODULE ModelResolution --------------------------
(***************************************************************************)
(* A validated model resolved into the tables, columns and relations the   *)
(* compiler works on (model.py, resolve_model and _resolve_aliases;        *)
(* contracts.py, Table, Column, Relation).                                 *)
(*                                                                         *)
(* What resolve_model refuses with an error of its own (Refused: features  *)
(* outside the profile, names that meet, aliases that lead nowhere) and    *)
(* what it breaks on without one (Fails) are told apart.  Row policies are *)
(* in RowPolicies.                                                         *)
(***************************************************************************)
EXTENDS ModelValidation

(* Physical names: x_sql_schema and x_sql_prefix inherit from the schema.  *)
Inherited(d, key, attribute) ==
  IF d.tables[key][attribute] # None THEN d.tables[key][attribute]
  ELSE d.schemas[key[1]][attribute]
Prefix(d, key) ==
  LET prefix == Inherited(d, key, "sql_prefix") IN
    IF prefix = None THEN << >> ELSE IF prefix = SchemaPrefix THEN key[1] ELSE prefix
PhysicalTable(d, key) ==
  << IF Inherited(d, key, "sql_schema") # None THEN Inherited(d, key, "sql_schema") ELSE key[1],
     IF d.tables[key].sql_name # None THEN d.tables[key].sql_name ELSE Prefix(d, key) \o key[2] >>

(* The columns of a resolved table: those of the family, composites aside. *)
Element(t, name) ==
  LET kind == Family(t, name) IN
    IF kind = "columns" THEN t.columns[name] @@ [kind |-> "column"]
    ELSE t.virtual_columns[name]
ResolvedColumns(t) ==
  [n \in {m \in FamilyNames(t) : Family(t, m) # "composites"} |-> Element(t, n)]
IsVirtual(column) == column.kind # "column"
ColumnType(column) ==
  IF column.dtype # None THEN column.dtype ELSE IF column.size THEN "A" ELSE "T"
PhysicalColumn(columns, n) ==
  IF ~IsVirtual(columns[n]) /\ columns[n].sql_name # None THEN columns[n].sql_name ELSE n

(* _unique_target: the columns are the primary key, a unique column, a     *)
(* UNIQUE constraint or composite, or a whole unique index.                *)
UniqueTarget(t, names) ==
  LET columns == ResolvedColumns(t) IN
  /\ names # << >>
  /\ \A k \in DOMAIN names : names[k] \in DOMAIN columns /\ ~IsVirtual(columns[names[k]])
  /\ \/ names = t.pkey
     \/ Len(names) = 1 /\ columns[names[1]].unique
     \/ \E n \in UniqueConstraints(t) : t.constraints[n].columns = names
     \/ \E n \in UniqueComposites(t) : t.composites[n].columns = names
     \/ \E n \in DOMAIN t.indexes : /\ t.indexes[n].columns = names
                                    /\ t.indexes[n].unique /\ ~t.indexes[n].where

(* How resolve_model reads a relation: the text of the target is split and *)
(* not stripped, so a target with blanks around its schema or its table    *)
(* names no table; its column and its owner are looked up by name.         *)
TargetIsRead(d, r) == ~r.to.padded /\ TargetTable(r) \in DOMAIN d.tables
ReadColumns(d, r) ==
  LET target == d.tables[TargetTable(r)]
      names  == IF Len(r.to.parts) = 3 THEN <<r.to.parts[3]>> ELSE target.pkey
  IN  IF Len(names) = 1 /\ names[1] \in DOMAIN target.composites
      THEN target.composites[names[1]].columns ELSE names
OwnColumns(t, r) ==
  IF Family(t, r.owner[2]) = "composites" THEN t.composites[r.owner[2]].columns
  ELSE <<r.owner[2]>>
RelationName(r) == IF r.x_name # None THEN r.x_name ELSE r.owner[2]
ResolvedRelations(d, key) ==
  [n \in {RelationName(r) : r \in d.tables[key].relations} |->
     LET r == CHOOSE r \in d.tables[key].relations : RelationName(r) = n IN
       [target |-> TargetTable(r), columns |-> OwnColumns(d.tables[key], r),
        target_columns |-> ReadColumns(d, r)]]

-----------------------------------------------------------------------------
(* _resolve_aliases.  An alias names a column here or behind relations,    *)
(* which may be an alias again.                                            *)
Broken == [kind |-> "broken"]

(* Where a path of relations leads from a table, None if one is missing.   *)
Behind(d, key, path) ==
  LET Walk[k \in 0..Len(path)] ==
        IF k = 0 THEN key
        ELSE IF Walk[k - 1] = None THEN None
        ELSE LET relations == ResolvedRelations(d, Walk[k - 1]) IN
               IF path[k] \in DOMAIN relations THEN relations[path[k]].target ELSE None
  IN  Walk[Len(path)]

Revisited(at, visiting) == at \in visiting

(* The column an alias ends at; Broken if a relation or a column on the    *)
(* way is missing or the aliases go in a cycle.                            *)
AliasStep(d, at) ==
  LET column == ResolvedColumns(d.tables[at[1]])[at[2]]
      owner  == Behind(d, at[1], column.path)
  IN  IF owner = None THEN None ELSE <<owner, column.target>>
(* Mutant: an alias met again is taken as it is. *)
ResolveAliasAgain(d, start) ==
  LET Places == UNION {{key} \X FamilyNames(d.tables[key]) : key \in DOMAIN d.tables}
      Resolved[at \in Places, visiting \in SUBSET Places] ==
        LET columns == ResolvedColumns(d.tables[at[1]]) IN
          IF at[2] \notin DOMAIN columns THEN Broken
          ELSE IF columns[at[2]].kind # "alias" \/ Revisited(at, visiting) THEN columns[at[2]]
          ELSE LET next == AliasStep(d, at) IN
                 IF next = None \/ next \notin Places THEN Broken
                 ELSE Resolved[next, visiting \cup {at}]
  IN  Resolved[start, {}]

ResolveAlias(d, start) ==
  LET Places == UNION {{key} \X FamilyNames(d.tables[key]) : key \in DOMAIN d.tables}
      Resolved[at \in Places, visiting \in SUBSET Places] ==
        LET columns == ResolvedColumns(d.tables[at[1]]) IN
          IF at[2] \notin DOMAIN columns THEN Broken
          ELSE IF columns[at[2]].kind # "alias" THEN columns[at[2]]
          ELSE IF Revisited(at, visiting) THEN Broken
          ELSE LET next == AliasStep(d, at) IN
                 IF next = None \/ next \notin Places THEN Broken
                 ELSE Resolved[next, visiting \cup {at}]
  IN  Resolved[start, {}]
Aliases(d) ==
  UNION {{<<key, n>> : n \in {m \in DOMAIN ResolvedColumns(d.tables[key]) :
                                ResolvedColumns(d.tables[key])[m].kind = "alias"}} :
           key \in DOMAIN d.tables}

-----------------------------------------------------------------------------
(* _formula_definition: one of an expression, a select and an exists, and  *)
(* named subqueries only beside an expression that uses them all.          *)
FormulaDefinition(column) ==
  /\ Cardinality(column.given) = 1
  /\ column.named # {} => "sql_formula" \in column.given
  /\ column.named \subseteq column.used

(* Features outside the profile, and collisions of physical names.         *)
DuplicatePhysicalColumns(t) ==
  LET columns == ResolvedColumns(t) IN
    \E m, n \in DOMAIN columns :
      /\ m # n /\ ~IsVirtual(columns[m]) /\ ~IsVirtual(columns[n])
      /\ PhysicalColumn(columns, m) = PhysicalColumn(columns, n)
DuplicateRelation(t) == \E r, s \in t.relations : r # s /\ RelationName(r) = RelationName(s)
Refused(d) ==
  \/ \E p, q \in DOMAIN d.tables : p # q /\ PhysicalTable(d, p) = PhysicalTable(d, q)
  \/ \E alias \in Aliases(d) : ResolveAlias(d, alias) = Broken
  \/ \E key \in DOMAIN d.tables :
       LET t == d.tables[key] IN
       \/ \E n \in DOMAIN t.virtual_columns :
            /\ Family(t, n) = "virtual_columns"
            /\ LET column == t.virtual_columns[n] IN
                 column.kind = "subquery" \/ (column.kind = "formula" /\ ~FormulaDefinition(column))
       \/ DuplicatePhysicalColumns(t)
       \/ DuplicateRelation(t)
       \/ \E r \in t.relations :
            TargetIsRead(d, r) /\ ~UniqueTarget(d.tables[TargetTable(r)], ReadColumns(d, r))
(* A target is looked up among the tables and is not there: a KeyError.    *)
Fails(d) == \E key \in DOMAIN d.tables : \E r \in d.tables[key].relations : ~TargetIsRead(d, r)

(* resolve_model returns a model.                                          *)
Resolves(d) == Validates(d) /\ ~Fails(d) /\ ~Refused(d)
=============================================================================
