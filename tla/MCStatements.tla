---------------------------- MODULE MCStatements ----------------------------
(***************************************************************************)
(* The phases of a statement's way to the database, model-checked side by  *)
(* side: the options of a query (QueryRendering), its references           *)
(* (QueryJoins), row policies (RowPolicies) and bound parameters           *)
(* (ParameterBinding, and DirectSql for SQL given as text).                *)
(*                                                                         *)
(* A phase reads nothing another one leaves but the plan, of which each    *)
(* module chooses every relevant one.  So a behaviour goes through one of  *)
(* the parts, while the variables of the others rest.                      *)
(***************************************************************************)
EXTENDS RowPolicies, QueryJoins, QueryRendering, ParameterBinding, DirectSql

CONSTANTS Parts,   \* the parts this run looks at
          v1, v2   \* values of a column

VARIABLE part

-----------------------------------------------------------------------------
(* Parameter names that can meet: a collection and what its first member   *)
(* is called, the name a subquery gives to a parameter, a collection in    *)
(* the environment and, where the root may bind that too, what its first   *)
(* member is called.                                                       *)
ids(more) == <<"ids">> \o more
key(more) == <<"env", "k">> \o more

MCCallerNames == {ids(<< >>), ids(Number(0)), <<"s">> \o Number(1) \o ids(<< >>)}
MCNames == MCCallerNames \cup {key(<< >>)}
MCMemberNames == MCNames \cup {key(Number(0))}
MCWords == {"_", "#", "+", "s", "env", "value", "policy", "ids", "k"}
MCCollections == {ids(<< >>), ids(Number(0)), key(<< >>)}

(* One collection is empty: the caller's other one or, that the root meets *)
(* the members of a collection of the environment, none of the two big     *)
(* ones. *)
MCSize == (ids(<< >>) :> 2) @@ (ids(Number(0)) :> 0) @@ (key(<< >>) :> 0)
MCMemberSize == [MCSize EXCEPT ![key(<< >>)] = 2]

-----------------------------------------------------------------------------
(* Row policies: declarations that are accepted, and one of each refused   *)
(* kind; environments that give a scope a current value, allowed ones,     *)
(* both or nothing.                                                        *)
Scope(null) == [field |-> "tenant", current |-> "own", allowed |-> "seen", include_null |-> null]
Policy(scopes, draft, deleted) ==
  [partitions |-> scopes, draft_field |-> draft, logical_deletion_field |-> deleted]

MCDeclarations ==
  {Policy({Scope(TRUE)}, "draft", "deleted"), Policy({Scope(FALSE)}, NoField, "deleted"),
   Policy({[Scope(TRUE) EXCEPT !.allowed = NoField]}, "draft", NoField),
   Policy({Scope(TRUE), Scope(FALSE)}, NoField, NoField),
   Policy({[Scope(TRUE) EXCEPT !.field = "shown"]}, NoField, NoField),
   Policy({}, "draft", "draft"), Policy({}, "tenant", NoField), Policy({}, NoField, "id")}

MCSnapshots ==
  {[own |-> v1], [own |-> None], [seen |-> {}], [seen |-> {None, v2}],
   [own |-> v1, seen |-> {v1, v2}], [own |-> v1, seen |-> {v2}], << >>}

MCAssignments ==
  {[deleted |-> v1], [draft |-> TRUE, deleted |-> None], [tenant |-> v1],
   [tenant |-> None, draft |-> FALSE]}

-----------------------------------------------------------------------------
(* Every combination of the options of a query over a table of two         *)
(* columns, and plans made by hand.                                        *)
Expr(kind, column) == [kind |-> kind, column |-> column, comment |-> FALSE]
A == Expr("column", "a")
B == Expr("column", "b")
CountAll == [Expr("count", "a") EXCEPT !.column = NotGiven]
Remarked == [A EXCEPT !.comment = TRUE]
FormulaB == [Expr("formula", "b") EXCEPT !.comment = TRUE]
FirstProjection == [kind |-> "alias", position |-> 1, comment |-> FALSE]

MCQueries ==
  [columns : {<<A>>, <<A, FormulaB>>, <<CountAll>>, <<Remarked, CountAll>>},
   where : {NotGiven, Remarked}, order : {NotGiven, B, Remarked, FirstProjection},
   limit : {NotGiven, 0, 2}, offset : {NotGiven, 1}, distinct : BOOLEAN, group : {NotGiven, A},
   having : {NotGiven, Remarked}, forUpdate : BOOLEAN, mark : BOOLEAN]

MCPlans ==
  [operation : {"select", "count"}, projections : {<< >>, <<A, B>>, <<FormulaB>>}, where : {NotGiven, B},
   order : {NotGiven, A}, limit : {NotGiven, -1, 1}, offset : {NotGiven, 1}, forUpdate : BOOLEAN,
   distinct : BOOLEAN, group : {NotGiven, A}, having : {NotGiven, B}]

Row(id, a, b) == [id |-> id, a |-> a, b |-> b]
MCContents ==
  {{}, {Row(1, 1, 0)},
   {Row(1, 1, 0), Row(2, 1, 0), Row(3, 0, 1)},
   {Row(1, 1, 0), Row(2, 1, 1), Row(3, 0, 1), Row(4, 1, 0)}}

-----------------------------------------------------------------------------
(* People with a parent and a city, their orders: columns that follow a    *)
(* relation to their own table, subqueries that reach out, and a ring.     *)
Ref(path, column) == [kind |-> "ref", path |-> path, column |-> column]
ThisRef(path, column) == [kind |-> "this", path |-> path, column |-> column]
Sub(table, refs) == [kind |-> "sub", table |-> table, refs |-> refs]

MCRelations ==
  [person |-> [parent |-> [target |-> "person", column |-> "id", key |-> "id"],
               city |-> [target |-> "city", column |-> "id", key |-> "id"],
               odd |-> [target |-> "city", column |-> "label", key |-> "id"]],
   city |-> [mayor |-> [target |-> "person", column |-> "id", key |-> "id"]],
   order |-> [owner |-> [target |-> "person", column |-> "buyer", key |-> "id"]]]

MCVirtual ==
  [person |-> [label |-> <<Ref(<< >>, "name"), Ref(<<"city">>, "name"), ThisRef(<<"parent">>, "id")>>,
               family |-> <<Ref(<<"parent">>, "label")>>,
               orders |-> <<Sub("order", <<Ref(<< >>, "buyer"), ThisRef(<<"city">>, "name"),
                                           Ref(<<"owner">>, "label"), ThisRef(<< >>, "label")>>)>>,
               reach |-> <<Sub("order", <<Ref(<<"owner">>, "orders"), ThisRef(<<"parent">>, "orders")>>),
                           Ref(<< >>, "name")>>,
               inner |-> <<Sub("city", <<ThisRef(<< >>, "family")>>)>>,
               deep |-> <<Sub("person", <<ThisRef(<<"city">>, "chief"), Ref(<<"city">>, "name"),
                                          Ref(<<"parent">>, "inner")>>)>>,
               ring |-> <<Sub("order", <<Ref(<< >>, "tag")>>)>>],
   city |-> [chief |-> <<Ref(<<"mayor">>, "orders")>>],
   order |-> [tag |-> <<Ref(<<"owner">>, "ring")>>]]

MCTokens ==
  {Ref(<< >>, "name"), Ref(<<"city">>, "name"), Ref(<<"parent", "city">>, "name"), Ref(<< >>, "label"),
   Ref(<<"parent">>, "family"), Ref(<< >>, "orders"), Ref(<<"parent">>, "orders"), Ref(<<"city">>, "chief"),
   Ref(<< >>, "ring"), Ref(<<"odd">>, "name"), ThisRef(<< >>, "name"), Ref(<< >>, "reach"),
   Ref(<< >>, "deep"), Ref(<<"parent">>, "inner")}
MCRequests == UNION {[1..n -> MCTokens] : n \in 1..3}

MCExpressions ==
  UNION {{MCVirtual[t][n] : n \in DOMAIN MCVirtual[t]} : t \in DOMAIN MCVirtual}
ItemsOf(expressions) == UNION {{e[k] : k \in DOMAIN e} : e \in expressions}
MCReferences ==
  MCTokens \cup ItemsOf(MCExpressions)
  \cup ItemsOf({ref.refs : ref \in {r \in ItemsOf(MCExpressions) : r.kind = "sub"}})
MCPhysical == [person |-> {"id", "name"}, city |-> {"id", "name"}, order |-> {"id", "buyer"}]

-----------------------------------------------------------------------------
(* A part that runs begins as its module says, one that rests has fixed    *)
(* values.                                                                 *)
BindingRests ==
  /\ operation = None /\ contexts = None /\ counter = None /\ names = None /\ uses = None
  /\ params = None /\ snapshot = None /\ status = None
  /\ environment_keys = {} /\ consumed_inputs = {} /\ placed = {} /\ emptied = {}
DirectRests ==
  /\ text_params = None /\ text_names = None /\ text_uses = None /\ keys = None
  /\ text_snapshot = None /\ text_status = None /\ given = None /\ text_placed = {}
PoliciesRest ==
  /\ policies = None /\ rows = None /\ env = None
  /\ compiled = [a \in Actors |-> None]
RenderingRests ==
  /\ query = None /\ terminal = None /\ dialect = None /\ plan = None
  /\ statement = None /\ phase = None
JoinsRest ==
  /\ selects = None /\ stack = None /\ formulas = None /\ leaves = None /\ outcome = None

StatementsInit ==
  /\ part \in Parts
  /\ IF part = "binding" THEN BindingInit ELSE BindingRests
  /\ IF part = "direct" THEN DirectInit ELSE DirectRests
  /\ IF part = "policies" THEN Init ELSE PoliciesRest
  /\ IF part = "rendering" THEN RenderingInit ELSE RenderingRests
  /\ IF part = "joins" THEN JoinsInit ELSE JoinsRest

StatementsNext ==
  \/ /\ part = "binding" /\ BindingNext
     /\ UNCHANGED <<part, directVars, vars, renderingVars, joinsVars>>
  \/ /\ part = "direct" /\ DirectNext
     /\ UNCHANGED <<part, bindingVars, vars, renderingVars, joinsVars>>
  \/ /\ part = "policies" /\ Next
     /\ UNCHANGED <<part, bindingVars, directVars, renderingVars, joinsVars>>
  \/ /\ part = "rendering" /\ RenderingNext
     /\ UNCHANGED <<part, bindingVars, directVars, vars, joinsVars>>
  \/ /\ part = "joins" /\ JoinsNext
     /\ UNCHANGED <<part, bindingVars, directVars, vars, renderingVars>>

statementsVars == <<part, bindingVars, directVars, vars, renderingVars, joinsVars>>

StatementsSpec == StatementsInit /\ [][StatementsNext]_statementsVars

ActorSymmetry == Permutations(Actors)

=============================================================================
