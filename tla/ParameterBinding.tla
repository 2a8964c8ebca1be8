-------------------------- MODULE ParameterBinding --------------------------
(***************************************************************************)
(* Names and values of the bound parameters of one compiled statement      *)
(* (compiler.py, class _Context and the plan_ methods).                    *)
(*                                                                         *)
(* Compilation walks the statement in the order of the code; a step is one *)
(* place that binds a value: a parameter in the text, in scalar or in IN   *)
(* position, an assigned value, a value of the row policies.  contexts is  *)
(* the stack of _Context objects: the statement and the subqueries it is   *)
(* inside of.  What the compiler shares among them (params, state, uses,   *)
(* environment_keys, consumed_inputs) is one variable each.  placed is     *)
(* history: which value each place stands for.                             *)
(***************************************************************************)
EXTENDS ParameterNames

CONSTANTS MaxPlaces,    \* bound: places that bind, or expand to nothing
          MaxSubqueries,\* bound: subqueries, nested or not
          MaxPolicies   \* bound: values of the row policies of one table

ASSUME BindingAssumption == MaxPlaces \in Nat /\ MaxSubqueries \in Nat /\ MaxPolicies \in Nat

VARIABLES operation,  \* which plan_ method runs
          contexts,   \* stack of _Context
          counter,    \* state['counter']: subqueries so far
          names,      \* state['names']
          uses,       \* state['uses']
          params,     \* the statement's parameters
          environment_keys, consumed_inputs,
          snapshot,   \* env_ names with a value in the environment
          status,     \* "compiling", "compiled" or "refused"
          placed,     \* history: the places bound so far
          emptied     \* history: the collections expanded that have no member

bindingVars == <<operation, contexts, counter, names, uses, params, environment_keys,
                 consumed_inputs, snapshot, status, placed, emptied>>

Operations == {"select", "insert", "update", "delete"}
Steps == {"values", "text", "policies", "returning"}

Context(namespace, available, use_keys, origins, step) ==
  [namespace |-> namespace, available |-> available, binding_names |-> NoNames,
   use_keys |-> use_keys, input_origins |-> origins, policy_parameter_index |-> 0,
   step |-> step]

BindingInit ==
  /\ operation \in Operations
  /\ \E given \in SUBSET CallerNames :
       /\ operation # "insert" \/ given = {}
       /\ contexts = <<Context(<<>>, [n \in given |-> Whole(<<"caller">>, n)], NoNames, given,
                               IF operation \in {"insert", "update"} THEN "values" ELSE "text")>>
       /\ names = given
  /\ snapshot \in SUBSET {n \in Names : IsEnvironmentName(n)}
  /\ counter = 0 /\ uses = NoNames /\ params = NoNames
  /\ environment_keys = {} /\ consumed_inputs = {}
  /\ status = "compiling" /\ placed = {} /\ emptied = {}

-----------------------------------------------------------------------------
Top == contexts[Len(contexts)]
IsRoot == Len(contexts) = 1
WithTop(c) == [contexts EXCEPT ![Len(contexts)] = c]
InText == Top.step \in {"text", "returning"}
MayPlace ==
  status = "compiling" /\ Cardinality(placed) + Cardinality(emptied) < MaxPlaces

(* resolve: a name the context does not have is looked up in the snapshot  *)
(* of the environment when it is an env_ name; the key is recorded also    *)
(* when it is missing there.                                               *)
ReadsEnvironment(c, n) == n \notin DOMAIN c.available /\ IsEnvironmentName(n)
Resolves(c, n) == n \in DOMAIN c.available \cup {m \in snapshot : IsEnvironmentName(m)}
Resolved(c, n) ==
  IF ReadsEnvironment(c, n)
  THEN [c EXCEPT !.available = Put(c.available, n, Whole(<<"env">>, n))] ELSE c

(* Mutant: what a subquery reads is its own business. *)
ResolveEffectsAtRoot(c, n) ==
  /\ consumed_inputs' = consumed_inputs \cup ({n} \cap c.input_origins)
  /\ environment_keys' = environment_keys \cup
       (IF ReadsEnvironment(c, n) /\ c.namespace = <<>> THEN {n} ELSE {})

ResolveEffects(c, n) ==
  /\ consumed_inputs' = consumed_inputs \cup ({n} \cap c.input_origins)
  /\ environment_keys' = environment_keys \cup (IF ReadsEnvironment(c, n) THEN {n} ELSE {})

UseKey(c, n) == IF n \in DOMAIN c.use_keys THEN c.use_keys[n] ELSE n

Place(b, v, collection) == [bound |-> b, value |-> v, collection |-> collection]

(* binding: the root binds under the name itself, a subquery under a name  *)
(* of its namespace that is still free; a name bound before keeps its name. *)
BoundName(c, n) ==
  IF n \in DOMAIN c.binding_names THEN c.binding_names[n]
  ELSE IF c.namespace = <<>> THEN n ELSE Underscored(c.namespace \o n, names)

Bind(c, n) ==
  LET b == BoundName(c, n) IN
    /\ names' = names \cup {b}
    /\ contexts' = WithTop([c EXCEPT !.binding_names = Put(c.binding_names, n, b)])
    /\ params' = Put(params, b, c.available[n])
    /\ placed' = placed \cup {Place(b, c.available[n], FALSE)}

(* A parameter in scalar position. *)
BindScalar(n) ==
  LET c == Resolved(Top, n) IN
  /\ MayPlace /\ InText /\ Resolves(Top, n)
  /\ UseFits(uses, UseKey(Top, n), FALSE)
  /\ ResolveEffects(Top, n)
  /\ uses' = Used(uses, UseKey(Top, n), FALSE)
  /\ Bind(c, n)
  /\ UNCHANGED <<operation, counter, snapshot, status, emptied>>

(* A parameter after IN or NOT IN: one binding per member, and none where  *)
(* there is no member: a form without parameters takes the place.          *)
BindCollection(n) ==
  LET c     == Resolved(Top, n)
      value == c.available[n]
      size  == Size[value.name]
      bases == MemberNames(Top.namespace \o n, names, size)
      members == MembersOf(value, bases, size)
  IN
  /\ MayPlace /\ InText /\ Resolves(Top, n) /\ value.name \in Collections
  /\ UseFits(uses, UseKey(Top, n), TRUE)
  /\ ResolveEffects(Top, n)
  /\ uses' = Used(uses, UseKey(Top, n), TRUE)
  /\ names' = names \cup DOMAIN members
  /\ params' = Over(members, params)
  /\ placed' = placed \cup {Place(bases[i], Member(value, i), TRUE) : i \in 1..size}
  /\ emptied' = emptied \cup (IF size = 0 THEN {value} ELSE {})
  /\ contexts' = WithTop(c)
  /\ UNCHANGED <<operation, counter, snapshot, status>>

(* A parameter nobody supplies, one used in the other position before, or  *)
(* one that is not a collection after IN: the statement is refused.  (Any  *)
(* earlier use fits one position and not the other.)                       *)
Refuse(n) ==
  /\ MayPlace /\ InText
  /\ Resolves(Top, n) => \/ UseKey(Top, n) \in DOMAIN uses
                         \/ Resolved(Top, n).available[n].name \notin Collections
  /\ status' = "refused"
  /\ UNCHANGED <<operation, contexts, counter, names, uses, params, environment_keys,
                 consumed_inputs, snapshot, placed, emptied>>

(* _values: an assigned value gets a name no supplied parameter has.       *)
AssignValue ==
  LET n == Underscored(<<"value">> \o Number(Cardinality(placed)), DOMAIN Top.available)
      c == [Top EXCEPT !.available = Put(Top.available, n, Whole(<<"value">>, n))]
  IN
  /\ MayPlace /\ Top.step = "values"
  /\ UseFits(uses, n, FALSE)
  /\ uses' = Used(uses, n, FALSE)
  /\ Bind(c, n)
  /\ UNCHANGED <<operation, counter, environment_keys, consumed_inputs, snapshot, status,
                 emptied>>

(* policy_binding: the same for a value of the row policies. *)
BindPolicy ==
  LET n == Underscored(<<"policy">> \o Number(Top.policy_parameter_index), DOMAIN Top.available)
      c == [Top EXCEPT !.available = Put(Top.available, n, Whole(<<"policy">> \o Top.namespace, n)),
                       !.policy_parameter_index = Top.policy_parameter_index + 1,
                       !.step = "policies"]
  IN
  /\ MayPlace /\ operation # "insert"
  /\ Top.step \in {"text", "policies"} /\ Top.policy_parameter_index < MaxPolicies
  /\ UseFits(uses, n, FALSE)
  /\ uses' = Used(uses, n, FALSE)
  /\ Bind(c, n)
  /\ UNCHANGED <<operation, counter, environment_keys, consumed_inputs, snapshot, status,
                 emptied>>

(* The values are followed by WHERE, for an insert by RETURNING; the row   *)
(* policies of an update or delete are followed by RETURNING.              *)
NextStep ==
  /\ status = "compiling" /\ IsRoot
  /\ \/ /\ Top.step = "values"
        /\ contexts' = WithTop([Top EXCEPT !.step =
                         IF operation = "insert" THEN "returning" ELSE "text"])
     \/ /\ Top.step \in {"text", "policies"} /\ operation \in {"update", "delete"}
        /\ contexts' = WithTop([Top EXCEPT !.step = "returning"])
  /\ UNCHANGED <<operation, counter, names, uses, params, environment_keys,
                 consumed_inputs, snapshot, status, placed, emptied>>

(* Mutant: every name of the subquery counts as the caller's. *)
EnterSubqueryAllInputs(local) ==
  LET space == <<"s">> \o Number(counter + 1)
      available == Over([n \in local |-> Whole(<<"local">> \o space, n)], Top.available)
      keyed == Over([n \in local |-> space \o n], Top.use_keys)
  IN
  /\ MayPlace /\ operation = "select" /\ Top.step = "text"
  /\ counter < MaxSubqueries
  /\ counter' = counter + 1
  /\ contexts' = Append(contexts, Context(space, available, keyed,
                                          Top.input_origins, "text"))
  /\ names' = names \cup DOMAIN available
  /\ UNCHANGED <<operation, uses, params, environment_keys, consumed_inputs, snapshot,
                 status, placed, emptied>>

(* subquery: a child context sees what its parent has, overlaid with its   *)
(* own sqlparams; names it supplies itself are not the caller's inputs.    *)
EnterSubquery(local) ==
  LET space == <<"s">> \o Number(counter + 1)
      available == Over([n \in local |-> Whole(<<"local">> \o space, n)], Top.available)
      keyed == Over([n \in local |-> space \o n], Top.use_keys)
  IN
  /\ MayPlace /\ operation = "select" /\ Top.step = "text"
  /\ counter < MaxSubqueries
  /\ counter' = counter + 1
  /\ contexts' = Append(contexts, Context(space, available, keyed,
                                          Top.input_origins \ local, "text"))
  /\ names' = names \cup DOMAIN available
  /\ UNCHANGED <<operation, uses, params, environment_keys, consumed_inputs, snapshot,
                 status, placed, emptied>>

LeaveSubquery ==
  /\ status = "compiling" /\ ~IsRoot
  /\ contexts' = SubSeq(contexts, 1, Len(contexts) - 1)
  /\ UNCHANGED <<operation, counter, names, uses, params, environment_keys,
                 consumed_inputs, snapshot, status, placed, emptied>>

(* compile_plan: the formatter keeps the parameters that have a place. *)
Compile ==
  /\ status = "compiling" /\ IsRoot
  /\ operation # "select" => Top.step = "returning"
  /\ status' = "compiled"
  /\ params' = [b \in {p.bound : p \in placed} |-> params[b]]
  /\ UNCHANGED <<operation, contexts, counter, names, uses, environment_keys,
                 consumed_inputs, snapshot, placed, emptied>>

BindingNext ==
  \/ \E n \in Names : BindScalar(n) \/ BindCollection(n) \/ Refuse(n)
  \/ \E local \in SUBSET CallerNames : EnterSubquery(local)
  \/ AssignValue \/ BindPolicy \/ NextStep \/ LeaveSubquery \/ Compile

BindingSpec == BindingInit /\ [][BindingNext]_bindingVars

-----------------------------------------------------------------------------
(* Shape of the state: contexts nest, the parameters are those of the      *)
(* places, and every bound name is reserved.                               *)
BindingTypeOK ==
  /\ operation \in Operations /\ status \in {"compiling", "compiled", "refused"}
  /\ contexts # <<>> /\ contexts[1].namespace = <<>>
  /\ \A i \in DOMAIN contexts : contexts[i].step \in Steps
  /\ counter \in 0..MaxSubqueries
  /\ DOMAIN params = {p.bound : p \in placed}
  /\ DOMAIN params \subseteq names

(* Names the compiler may bind at the root though no caller supplied them. *)
MadeUpAtRoot(b) == b[1] \in {"env", "policy", "value", Underscore}

(* Each place gets the value it stands for, whatever the caller, the       *)
(* subqueries and the row policies are called: a parameter in scalar       *)
(* position always, a member of a collection unless the root may bind its  *)
(* name later for itself (a name of the environment or of the policies).   *)
(* compiler.py:187-213 makes the names up while it walks the text.         *)
PlacesAreKept ==
  \A p \in placed :
    params[p.bound] = p.value \/ (p.collection /\ MadeUpAtRoot(p.bound))

(* docs/guide/queries.md:123 says that the compiler binds one parameter    *)
(* per member: every member of every collection keeps its own.             *)
MembersKeepTheirPlace ==
  \A p \in placed : p.collection => params[p.bound] = p.value

(* What the statement depends on: the values it binds, and the collections *)
(* without members, which decide its text though nothing of them is bound. *)
DependsOn == {p.value : p \in placed} \cup emptied

(* A query that depends on the environment says so: whenever a value of    *)
(* the environment is bound or, empty, expanded, also from within a        *)
(* subquery, its key is among those a later execution compares             *)
(* (compiler.py:179, 215-219).                                             *)
EnvironmentIsRecorded ==
  \A v \in DependsOn : v.origin = <<"env">> => v.name \in environment_keys

(* Inputs the caller is told were used are those whose own value the       *)
(* statement depends on, an empty collection included: a subquery's own    *)
(* parameter of the same name is not the caller's.  application_table      *)
(* refuses keyword arguments that are not used (application_table.py:114). *)
ConsumedInputsAreBound ==
  consumed_inputs = {v.name : v \in {w \in DependsOn : w.origin = <<"caller">>}}
=============================================================================
