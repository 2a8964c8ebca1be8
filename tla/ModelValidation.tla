-------------------------- MODULE ModelValidation --------------------------
(***************************************************************************)
(* Domain validation of a complete model (validators.py): what             *)
(* validate_model accepts.  Every check of the code is an operator; the    *)
(* messages it collects are left out, a model is refused if there is one.  *)
(***************************************************************************)
EXTENDS SqlModel

Physical(t, names) == Members(names) \subseteq DOMAIN t.columns

CheckPkey(t) == ~Repeats(t.pkey) /\ Physical(t, t.pkey)

CheckComposites(t) ==
  \A n \in DOMAIN t.composites :
    LET members == t.composites[n].columns IN
      members # << >> /\ ~Repeats(members) /\ Physical(t, members)

CheckConstraints(t) ==
  \A n \in DOMAIN t.constraints :
    LET c == t.constraints[n] IN
    /\ c.constraint_type = "CHECK" => c.check_clause
    /\ c.constraint_type = "UNIQUE" => c.columns # << >> /\ ~Repeats(c.columns)
    /\ Physical(t, c.columns)

CheckIndexes(t) ==
  \A n \in DOMAIN t.indexes :
    LET columns == t.indexes[n].columns IN
      columns # << >> /\ ~Repeats(columns) /\ Physical(t, columns)

(* No two UNIQUE keys, named or of a composite, and no two indexes over    *)
(* the same columns in the same order.                                     *)
UniqueConstraints(t) == {n \in DOMAIN t.constraints : t.constraints[n].constraint_type = "UNIQUE"}
UniqueComposites(t)  == {n \in DOMAIN t.composites : t.composites[n].unique}
CheckStructuralKeys(t) ==
  /\ \A m, n \in UniqueConstraints(t) : t.constraints[m].columns = t.constraints[n].columns => m = n
  /\ \A m, n \in UniqueComposites(t) : t.composites[m].columns = t.composites[n].columns => m = n
  /\ \A m \in UniqueConstraints(t), n \in UniqueComposites(t) :
       t.constraints[m].columns # t.composites[n].columns
  /\ \A m, n \in DOMAIN t.indexes : t.indexes[m].columns = t.indexes[n].columns => m = n

(* The local columns of a relation: those its owner packs, or its owner.   *)
LocalColumns(t, r) ==
  IF r.owner[1] = "composites" THEN t.composites[r.owner[2]].columns ELSE <<r.owner[2]>>

(* _resolve_target: table and columns a target names, blanks stripped.     *)
TargetTable(r) == SubSeq(r.to.parts, 1, 2)
TargetColumns(d, r) ==
  LET target == d.tables[TargetTable(r)] IN
    IF Len(r.to.parts) = 2 THEN target.pkey
    ELSE IF r.to.parts[3] \in DOMAIN target.composites
      THEN target.composites[r.to.parts[3]].columns
      ELSE <<r.to.parts[3]>>
TargetResolves(d, r) ==
  /\ Len(r.to.parts) \in {2, 3}
  /\ TargetTable(r) \in DOMAIN d.tables
  /\ TargetColumns(d, r) # << >>
  /\ Physical(d.tables[TargetTable(r)], TargetColumns(d, r))

PhysicalOptions == {"on_delete", "on_update", "deferred", "deferrable", "initially_deferred"}
(* Mutant: the columns of both sides are not counted. *)
CheckRelationUncounted(d, t, r) ==
  /\ ~r.foreign_key => r.options \cap PhysicalOptions = {} /\ r.indexed = None
  /\ "initially_deferred" \in r.options => r.options \cap {"deferrable", "deferred"} # {}
  /\ \A other \in t.relations : LocalColumns(t, other) = LocalColumns(t, r) => other = r
  /\ TargetResolves(d, r)

CheckRelation(d, t, r) ==
  /\ ~r.foreign_key => r.options \cap PhysicalOptions = {} /\ r.indexed = None
  /\ "initially_deferred" \in r.options => r.options \cap {"deferrable", "deferred"} # {}
  /\ \A other \in t.relations : LocalColumns(t, other) = LocalColumns(t, r) => other = r
  /\ TargetResolves(d, r)
  /\ Len(LocalColumns(t, r)) = Len(TargetColumns(d, r))

AllRelations(d) == UNION {{key} \X d.tables[key].relations : key \in DOMAIN d.tables}

CheckBackReferences(d) ==
  \A p, q \in AllRelations(d) :
    (/\ p[2].back_reference # None /\ p[2].back_reference = q[2].back_reference
     /\ TargetTable(p[2]) = TargetTable(q[2])) => p = q

Validates(d) ==
  /\ d # None
  /\ \A key \in DOMAIN d.tables :
       LET t == d.tables[key] IN
       /\ CheckPkey(t)
       /\ CheckComposites(t)
       /\ CheckConstraints(t)
       /\ CheckIndexes(t)
       /\ CheckStructuralKeys(t)
       /\ \A r \in t.relations : CheckRelation(d, t, r)
  /\ CheckBackReferences(d)
=============================================================================
