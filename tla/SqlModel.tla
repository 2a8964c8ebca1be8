------------------------------ MODULE SqlModel ------------------------------
(***************************************************************************)
(* The source tree of a SQL model and its catalogue (elements.py,          *)
(* builder.py, catalog.py).                                                *)
(*                                                                         *)
(* An author calls the elements of the grammar; the builder refuses a call *)
(* whose parent is not there, whose name is taken in its collection or     *)
(* contains a dot, and a second database.  The tree is a record of         *)
(* functions from names to elements.  A name is a sequence of words, which *)
(* the code joins by underscores; types, comments and labels are left out  *)
(* where no rule looks at them.                                            *)
(***************************************************************************)
EXTENDS Naturals, Sequences, FiniteSets, TLC

CONSTANTS Calls,            \* calls of elements the author may make
          CollectionOrders, \* orders a table's collections are mounted in
          DottedNames,      \* names that contain the path separator
          None,             \* an attribute that is not given
          SchemaPrefix      \* x_sql_prefix=True

(* Collections whose names the catalogue puts in one family. *)
FamilyCollections == {"columns", "virtual_columns", "composites"}
NamedCollections  == FamilyCollections \cup {"constraints", "indexes"}

ModelAssumption ==
  /\ \A o \in CollectionOrders : Len(o) = 3 /\ {o[k] : k \in 1..3} = FamilyCollections
  /\ \A c \in Calls : c.tag \in {"db", "schema", "extension", "table", "relation"}
                                  \cup NamedCollections
  /\ None # SchemaPrefix

VARIABLES doc,    \* the tree below the root: None before db()
          order   \* the order in which collections are mounted

modelVars == <<doc, order>>

EmptyTable(attributes) ==
  attributes @@ [columns |-> << >>, virtual_columns |-> << >>, composites |-> << >>,
                 relations |-> {}, constraints |-> << >>, indexes |-> << >>]

Init ==
  /\ doc = None
  /\ order \in CollectionOrders

(* set_child: the name is free in its collection and has no dot.           *)
Fits(name, taken) == name \notin taken \cup DottedNames

AddDb(c) ==
  /\ c.tag = "db" /\ doc = None
  /\ doc' = [schemas |-> << >>, extensions |-> {}, tables |-> << >>]
  /\ UNCHANGED order

AddSchema(c) ==
  /\ c.tag = "schema" /\ doc # None
  /\ Fits(c.name, DOMAIN doc.schemas)
  /\ doc' = [doc EXCEPT !.schemas = @ @@ (c.name :> c.attributes)]
  /\ UNCHANGED order

AddExtension(c) ==
  /\ c.tag = "extension" /\ doc # None
  /\ Fits(c.name, doc.extensions)
  /\ doc' = [doc EXCEPT !.extensions = @ \cup {c.name}]
  /\ UNCHANGED order

AddTable(c) ==
  /\ c.tag = "table" /\ doc # None
  /\ c.table[1] \in DOMAIN doc.schemas
  /\ c.table \notin DOMAIN doc.tables /\ c.table[2] \notin DottedNames
  /\ doc' = [doc EXCEPT !.tables = @ @@ (c.table :> EmptyTable(c.attributes))]
  /\ UNCHANGED order

(* A column, virtual or composite column, constraint or index. *)
AddNamed(c) ==
  /\ c.tag \in NamedCollections /\ doc # None
  /\ c.table \in DOMAIN doc.tables
  /\ Fits(c.name, DOMAIN doc.tables[c.table][c.tag])
  /\ doc' = [doc EXCEPT !.tables[c.table][c.tag] = @ @@ (c.name :> c.attributes)]
  /\ UNCHANGED order

(* A relation is a child of a column or of a composite column; the same    *)
(* call repeated, which validation refuses, is left out.                   *)
AddRelation(c) ==
  /\ c.tag = "relation" /\ doc # None
  /\ c.table \in DOMAIN doc.tables
  /\ c.attributes.owner[2] \in DOMAIN doc.tables[c.table][c.attributes.owner[1]]
  /\ c.attributes \notin doc.tables[c.table].relations
  /\ doc' = [doc EXCEPT !.tables[c.table].relations = @ \cup {c.attributes}]
  /\ UNCHANGED order

Author(calls) == \E c \in calls :
  AddDb(c) \/ AddSchema(c) \/ AddExtension(c) \/ AddTable(c) \/ AddNamed(c) \/ AddRelation(c)
Next == Author(Calls)

Spec == Init /\ [][Next]_modelVars

-----------------------------------------------------------------------------
(* The attributes of the elements. *)
Column(dtype, size, flags, sql_name) ==
  [dtype |-> dtype, size |-> size, notnull |-> "notnull" \in flags,
   unique |-> "unique" \in flags, indexed |-> "indexed" \in flags, sql_name |-> sql_name]
Alias(path, target)        == [kind |-> "alias", path |-> path, target |-> target]
(* What a formula is given, its named subqueries, those its text uses.     *)
Formula(given, named, used) == [kind |-> "formula", given |-> given, named |-> named, used |-> used]
SubQuery                   == [kind |-> "subquery"]
Composite(columns, unique) == [columns |-> columns, unique |-> unique]
UniqueOver(columns)        == [constraint_type |-> "UNIQUE", columns |-> columns, check_clause |-> FALSE]
Check(clause)              == [constraint_type |-> "CHECK", columns |-> << >>, check_clause |-> clause]
Index(columns, unique, where) == [columns |-> columns, unique |-> unique, where |-> where]
Relation(owner, to, foreign_key, options, indexed, back_reference, x_name) ==
  [owner |-> owner, to |-> to, foreign_key |-> foreign_key, options |-> options,
   indexed |-> indexed, back_reference |-> back_reference, x_name |-> x_name]
(* The target text: its parts, and whether there are blanks around them.   *)
To(parts, padded) == [parts |-> parts, padded |-> padded]

(* The catalogue: of the elements of one name the last one is the family's.*)
FamilyNames(t) == UNION {DOMAIN t[k] : k \in FamilyCollections}
Family(t, name) ==
  LET last == CHOOSE k \in 1..3 : /\ name \in DOMAIN t[order[k]]
                                  /\ \A j \in (k + 1)..3 : name \notin DOMAIN t[order[j]]
  IN  order[last]

(* split_names keeps the order; a sequence of names as a set.              *)
Members(names) == {names[k] : k \in DOMAIN names}
Repeats(names) == Cardinality(Members(names)) # Len(names)
=============================================================================
