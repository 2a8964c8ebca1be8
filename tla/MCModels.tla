------------------------------ MODULE MCModels ------------------------------
(***************************************************************************)
(* What becomes of a model and of a structure, model-checked side by side: *)
(* a model built call by call, then validated, resolved, rendered and      *)
(* projected (SqlModel to ModelProjection), a structure read into a model  *)
(* (ModelReader), a tree written as a recipe (Emitter) and a catalogue     *)
(* imported (CatalogImport).                                               *)
(*                                                                         *)
(* They share no state, so a behaviour goes through one of the parts,      *)
(* while the variables of the others rest.                                 *)
(***************************************************************************)
EXTENDS ModelReader, CatalogImport

CONSTANTS Parts  \* the parts this run looks at

VARIABLES part,
          tree, emitted, taken, body

-----------------------------------------------------------------------------
(* Models of a parent and a child table. *)
S      == <<"shop">>
parent == <<S, <<"parent">>>>
child  == <<S, <<"child">>>>
a == <<"a">>
b == <<"b">>
x == <<"x">>
y == <<"y">>

TableAttributes(pkey) ==
  [pkey |-> pkey, sql_name |-> None, sql_schema |-> None, sql_prefix |-> None]
Node(tag, table, name, attributes) ==
  [tag |-> tag, table |-> table, name |-> name, attributes |-> attributes]
RelationOf(table, attributes) == [tag |-> "relation", table |-> table, attributes |-> attributes]
Plain == Column(None, FALSE, {}, None)

Schema(prefix) ==
  [tag |-> "schema", name |-> S, attributes |-> [sql_schema |-> None, sql_prefix |-> prefix]]
TableCall(table, pkey) == [tag |-> "table", table |-> table, attributes |-> TableAttributes(pkey)]

Base ==
  {[tag |-> "db"], Schema(SchemaPrefix), TableCall(parent, <<a, b>>), TableCall(child, <<x>>),
   Node("columns", parent, a, Column("L", FALSE, {"unique"}, None)),
   Node("columns", parent, b, Column(None, TRUE, {"notnull"}, <<"bb">>)),
   Node("columns", child, x, Column("L", FALSE, {"unique", "indexed"}, None)),
   Node("columns", child, y, Plain)}

(* Keys of two columns, targets in every form, indexes beside foreign keys.*)
KeyCalls == Base \cup
  {Node("composites", parent, <<"ba">>, Composite(<<b, a>>, TRUE)),
   Node("composites", child, <<"xy">>, Composite(<<x, y>>, FALSE)),
   RelationOf(child, Relation(<<"composites", <<"xy">>>>, To(parent, FALSE), TRUE,
                              {"on_delete", "deferred"}, None, None, None)),
   RelationOf(child, Relation(<<"composites", <<"xy">>>>, To(Append(parent, <<"ba">>), FALSE), TRUE,
                              {}, FALSE, <<"back">>, <<"named">>)),
   RelationOf(child, Relation(<<"columns", y>>, To(Append(parent, a), FALSE), TRUE,
                              {"initially_deferred"}, None, None, None)),
   RelationOf(child, Relation(<<"columns", y>>, To(child, FALSE), FALSE, {}, None, <<"back">>, None)),
   RelationOf(child, Relation(<<"columns", x>>, To(Append(parent, b), FALSE), TRUE,
                              {}, None, <<"back">>, None)),
   RelationOf(child, Relation(<<"columns", y>>, To(parent, FALSE), TRUE, {}, None, None, None)),
   Node("indexes", child, <<"i">>, Index(<<x, y>>, TRUE, FALSE)),
   Node("constraints", parent, <<"u">>, UniqueOver(<<b>>)),
   Node("constraints", child, <<"k">>, Check(TRUE)),
   Node("constraints", child, <<"dotted">>, Check(TRUE)),
   RelationOf(child, Relation(<<"columns", y>>, To(Append(parent, a), TRUE), TRUE,
                              {}, None, None, None)),
   [tag |-> "extension", name |-> <<"trgm">>]}

(* Aliases of each other, here and behind a relation. *)
AliasCalls ==
  {[tag |-> "db"], Schema(None), TableCall(parent, <<a>>), TableCall(child, <<x>>),
   Node("columns", parent, a, Plain), Node("columns", child, x, Plain),
   Node("columns", child, y, Plain),
   RelationOf(child, Relation(<<"columns", x>>, To(parent, FALSE), FALSE, {}, None, None, <<"up">>)),
   RelationOf(parent, Relation(<<"columns", a>>, To(child, FALSE), FALSE, {}, None, None, None)),
   Node("virtual_columns", child, <<"v">>, Alias(<< <<"up">> >>, <<"w">>)),
   Node("virtual_columns", parent, <<"w">>, Alias(<<a, <<"up">>, a>>, <<"z">>)),
   Node("virtual_columns", parent, <<"z">>, Alias(<<a>>, <<"v">>)),
   Node("virtual_columns", child, <<"z">>, Alias(<< >>, y)),
   Node("virtual_columns", child, <<"z">>, Alias(<< >>, <<"v">>)),
   Node("virtual_columns", child, <<"f">>, Formula({"sql_formula"}, {"n"}, {"n"})),
   Node("virtual_columns", child, <<"f">>, Formula({"select", "exists"}, {}, {})), Node("virtual_columns", child, <<"q">>, SubQuery)}

(* A column and a composite column of one name. *)
SharedCalls == Base \cup
  {Node("composites", child, y, Composite(<<x, y>>, FALSE)),
   RelationOf(child, Relation(<<"columns", y>>, To(Append(parent, a), FALSE), TRUE,
                              {}, None, None, None))}

(* Names like the ones the projection makes up: a constraint called like   *)
(* the next unique one, a column called like a key, another under such a   *)
(* physical name, with a foreign key.                                      *)
key0 == <<"_native_key", "0">>
NameCalls ==
  {[tag |-> "db"], Schema(None), TableCall(parent, <<a, b>>), TableCall(child, << >>),
   Node("columns", parent, a, Column("L", FALSE, {"unique"}, None)),
   Node("columns", parent, b, Plain), Node("columns", parent, key0, Column(None, FALSE, {}, <<"kk">>)),
   Node("columns", child, x, Column("L", FALSE, {}, key0)), Node("columns", child, y, Plain),
   Node("composites", parent, <<"ba">>, Composite(<<b, a>>, TRUE)),
   Node("composites", child, <<"xy">>, Composite(<<x, y>>, FALSE)),
   RelationOf(child, Relation(<<"composites", <<"xy">>>>, To(Append(parent, <<"ba">>), FALSE), TRUE,
                              {}, None, None, None)),
   RelationOf(child, Relation(<<"columns", x>>, To(Append(parent, a), FALSE), TRUE,
                              {}, None, None, None)),
   Node("constraints", parent, <<"u">>, UniqueOver(<<b>>)),
   Node("constraints", parent, <<"unique", "1">>, UniqueOver(<<a>>))}

MCDotted == {<<"dotted">>}
MCOrders == {<<"columns", "virtual_columns", "composites">>,
             <<"composites", "virtual_columns", "columns">>}

-----------------------------------------------------------------------------
(* Structures of two tables whose columns' names join to each other.       *)
one  == <<S, <<"one">>>>
many == <<S, <<"many">>>>
c  == <<"c">>
ab == <<"a", "b">>
bc == <<"b", "c">>

ColumnOf(pkey, n) ==
  [dtype |-> "L", size |-> FALSE, unique |-> n = c,
   notnull |-> IF n \in Members(pkey) THEN "auto" ELSE IF n = ab THEN "yes" ELSE "no"]
TableOf(pkey, columns) ==
  [pkey |-> pkey, columns |-> [n \in columns |-> ColumnOf(pkey, n)],
   relations |-> << >>, constraints |-> << >>, indexes |-> << >>]
Entity(table, kind, key, item) == [table |-> table, kind |-> kind, key |-> key, item |-> item]
Fk(table, columns, target, far, options) ==
  Entity(table, "relations", columns, [target |-> target, columns |-> far, options |-> options])
UniqueNamed(table, columns, name) == Entity(table, "constraints", <<"UNIQUE", columns>>, name)
IndexOf(table, columns, name, unique, where) ==
  Entity(table, "indexes", columns, [name |-> name, unique |-> unique, where |-> where])

MCBases ==
  {[schemas |-> {S, <<"empty">>}, extensions |-> {<<"trgm">>},
    tables |-> one :> TableOf(<<a, b>>, {a, b, c}) @@ many :> TableOf(key, {a, b, c, ab, bc})] :
     key \in {<< >>, <<a>>, <<a, b>>}}

MCEntities ==
  {Fk(many, <<a, b>>, one, <<a, b>>, {"on_delete"}), Fk(many, <<ab, c>>, one, <<b, a>>, {}),
   Fk(many, <<a, bc>>, one, <<a, b>>, {"deferrable", "initially_deferred"}),
   Fk(many, <<a>>, one, <<c>>, {}), Fk(one, <<b, c>>, many, <<a, b>>, {}),
   Fk(one, <<c>>, <<S, <<"other">>>>, <<a>>, {}),
   UniqueNamed(one, <<b, a>>, HashName(<<b, a>>)), UniqueNamed(many, <<a, b>>, <<"u">>),
   UniqueNamed(many, <<a, bc>>, HashName(<<a, bc>>)), UniqueNamed(many, <<c>>, HashName(<<c>>)),
   Entity(one, "constraints", <<"CHECK", <<"k">>>>, <<"k">>),
   IndexOf(many, <<a>>, HashName(<<a>>), FALSE, FALSE),
   IndexOf(many, <<a, b>>, <<"i">>, TRUE, TRUE)}

-----------------------------------------------------------------------------
(* Names that meet: a reserved one, one called like a collection, one that *)
(* is another's counted form and one that is sanitized into another.       *)
MCNames == {<<"root">>, <<"columns">>, <<"a">>, <<"a", "2">>, <<"a-">>}
MCSanitized == [n \in MCNames |-> IF n = <<"a-">> THEN <<"a">> ELSE n]
TreeNode(tag, name, above) == [tag |-> tag, name |-> name, parent |-> above]
(* Two tables of one schema, a table called like a collection in another.  *)
MCTrees ==
  {<<TreeNode("db", << >>, 0), TreeNode("schemas", << >>, 1), TreeNode("schema", <<"a">>, 2),
     TreeNode("tables", << >>, 3), TreeNode("table", <<"a">>, 4), TreeNode("table", <<"a-">>, 4)>>,
   <<TreeNode("db", << >>, 0), TreeNode("schemas", << >>, 1), TreeNode("schema", <<"root">>, 2),
     TreeNode("tables", << >>, 3), TreeNode("table", <<"columns">>, 4), TreeNode("columns", << >>, 5),
     TreeNode("column", <<"a">>, 6)>>}
MCReserved == {<<"self">>, <<"root">>, <<"db">>}

Recipe ==
  INSTANCE Emitter WITH
    Names <- MCNames, Sanitized <- MCSanitized, Reserved <- MCReserved, Bases <- MCTrees,
    MaxNodes <- 9

-----------------------------------------------------------------------------
(* Orders with two keys to customers and one out of the schema; the table  *)
(* of customers is dropped, becomes a view or gets another key.            *)
ForeignKey(column, target, to) == [column |-> column, target |-> target, to |-> to]
Imported(columns, pkey, keys, trigger) ==
  [kind |-> "r", columns |-> columns, pkey |-> pkey, keys |-> keys, trigger |-> trigger,
   indexes |-> IF trigger THEN {"byBuyer"} ELSE {}]
Customers(extra) == Imported({"id"} \cup extra, <<"id">>, << >>, FALSE)
Orders == Imported({"id", "buyer", "payer", "site"}, <<"id">>,
                "buyer_fk" :> ForeignKey("buyer", "customer", "id") @@ "payer_fk" :> ForeignKey("payer", "customer", "id")
                @@ "site_fk" :> ForeignKey("site", "elsewhere", "id"), TRUE)
Lonely == Imported({"id", "site"}, <<"id">>, "site_fk" :> ForeignKey("site", "elsewhere", "id"), FALSE)
Coded == [Customers({"code"}) EXCEPT !.pkey = <<"code">>, !.keys = "self_fk" :> ForeignKey("code", "customer", "code")]
ViewOf == [Customers({}) EXCEPT !.kind = "v"]
Elsewhere == Imported({"id"}, <<"id">>, << >>, FALSE)

MCCatalogues ==
  {"order" :> Orders @@ "customer" :> Customers({}) @@ "elsewhere" :> Elsewhere,
   "order" :> Lonely @@ "elsewhere" :> Elsewhere,
   "order" :> Lonely @@ "customer" :> ViewOf @@ "elsewhere" :> Elsewhere,
   "order" :> Orders @@ "customer" :> Coded @@ "elsewhere" :> Elsewhere}

ASSUME PartsAssumption == ModelAssumption /\ Recipe!EmitterAssumption

-----------------------------------------------------------------------------
(* A part that runs begins as its module says, one that rests has fixed    *)
(* values: no model, one of the structures, no tree, no catalogue.         *)
recipeVars == <<tree, emitted, taken, body>>

ModelRests ==
  /\ doc = None
  /\ order = <<"columns", "virtual_columns", "composites">>
RecipeRests == tree = None /\ emitted = None /\ taken = None /\ body = None
ImportRests ==
  /\ catalogue = None /\ isolation = None /\ snapshot = None /\ stage = None
  /\ tables = None /\ warned = None

ModelsInit ==
  /\ part \in Parts
  /\ IF part \in {"keys", "aliases", "shared", "names"} THEN Init ELSE ModelRests
  /\ IF part = "reader" THEN structure \in Bases ELSE structure = CHOOSE s \in Bases : TRUE
  /\ IF part = "recipe" THEN Recipe!Init ELSE RecipeRests
  /\ IF part = "import" THEN ImportInit ELSE ImportRests

ModelsNext ==
  \/ /\ part = "keys" /\ Author(KeyCalls)
     /\ UNCHANGED <<part, structure, recipeVars, importVars>>
  \/ /\ part = "aliases" /\ Author(AliasCalls)
     /\ UNCHANGED <<part, structure, recipeVars, importVars>>
  \/ /\ part = "shared" /\ Author(SharedCalls)
     /\ UNCHANGED <<part, structure, recipeVars, importVars>>
  \/ /\ part = "names" /\ Author(NameCalls)
     /\ UNCHANGED <<part, structure, recipeVars, importVars>>
  \/ /\ part = "reader" /\ ReaderNext
     /\ UNCHANGED <<part, recipeVars, importVars>>
  \/ /\ part = "recipe" /\ Recipe!Next
     /\ UNCHANGED <<part, modelVars, structure, importVars>>
  \/ /\ part = "import" /\ ImportNext
     /\ UNCHANGED <<part, modelVars, structure, recipeVars>>

ModelsSpec == ModelsInit /\ [][ModelsNext]_<<part, modelVars, structure, recipeVars, importVars>>

-----------------------------------------------------------------------------
(* A recipe written by the emitter makes the tree it was written for.      *)
(* (emitter.py:99)                                                         *)
RebuildsTheTree == part = "recipe" => Recipe!RebuildsTheTree
=============================================================================
