----------------------------- MODULE QueryJoins -----------------------------
(***************************************************************************)
(* References resolved into joins and aliases (compiler.py, _Context:      *)
(* expression, field, related and subquery).                               *)
(*                                                                         *)
(* An expression is the sequence of its references: a column behind a path *)
(* of relations, the same of the owner (#THIS), or a subquery, itself a    *)
(* table and a sequence of references.  Formulas, aliases and subquery     *)
(* columns are expressions of their table.  An alias is the number of its  *)
(* namespace and its own.  The Python call stack is a stack of frames.     *)
(*                                                                         *)
(* A row is known by its context and the relations that lead to it there:  *)
(* frames and leaves carry it to be compared with what SQL would find.     *)
(***************************************************************************)
EXTENDS Naturals, Sequences, FiniteSets, SequencesExt, TLC

CONSTANTS Physical,   \* the physical columns of each table
          Definitions,\* the expressions of its virtual columns
          Relations,  \* per table: the target and the joined columns of its relations
          References, \* what expressions are made of
          Requests,   \* expressions over Base
          Base,
          Null,
          MaxDepth    \* bound: Python's recursion limit, in frames

Tables == DOMAIN Physical
Expressions == Seq(References)
Aliases == Nat \X Nat
Paths == Seq(STRING)
PlaceAt(c, table, alias, row) == [ctx |-> c, table |-> table, alias |-> alias, row |-> row]
Places == [ctx : Nat, table : Tables, alias : Aliases, row : Nat \X Paths]

ASSUME QueryJoinsAssumption ==
  /\ Base \in Tables /\ MaxDepth \in Nat /\ Null \notin Places /\ Requests \subseteq Expressions
  /\ DOMAIN Definitions = Tables /\ DOMAIN Relations = Tables
  /\ \A t \in Tables : /\ \A n \in DOMAIN Relations[t] : Relations[t][n].target \in Tables
                       /\ \A n \in DOMAIN Definitions[t] : Definitions[t][n] \in Expressions
  /\ \A ref \in References :
       \/ ref.kind \in {"ref", "this"} /\ ref.path \in Paths /\ ref.column \in STRING
       \/ ref.kind = "sub" /\ ref.table \in Tables /\ ref.refs \in Expressions

VARIABLES selects,  \* the query and its subqueries: namespace is the place less one
          stack,    \* expressions under way, the innermost last
          formulas, \* virtual columns under way
          leaves,   \* column references written, each in the subqueries it is nested in
          outcome

joinsVars == <<selects, stack, formulas, leaves, outcome>>

Select(table, outer, joins) == [table |-> table, outer |-> outer, joins |-> joins]
Frame(place, owner, todo, key, scope) ==
  [place |-> place, owner |-> owner, todo |-> todo, key |-> key, scope |-> scope]
BaseAlias(c) == <<c - 1, 0>>
BasePlace(c, table) == PlaceAt(c, table, BaseAlias(c), <<c, << >>>>)

JoinsInit ==
  /\ selects = <<Select(Base, Null, << >>)>>
  /\ \E r \in Requests : stack = <<Frame(BasePlace(1, Base), Null, r, Null, <<1>>)>>
  /\ formulas = {} /\ leaves = {} /\ outcome = "compiling"

Innermost == stack[Len(stack)]
Item == Innermost.todo[1]
Working(kind) == outcome = "compiling" /\ Innermost.todo # << >> /\ Item.kind = kind
WithTodo(todo) ==
  [stack EXCEPT ![Len(stack)] =
     Frame(Innermost.place, Innermost.owner, todo, Innermost.key, Innermost.scope)]
Rest == WithTodo(Tail(Innermost.todo))
Walk(place, path, column) == [kind |-> "walk", place |-> place, path |-> path, column |-> column]
GoOn(place, path) == WithTodo(<<Walk(place, path, Item.column)>> \o Tail(Innermost.todo))

-----------------------------------------------------------------------------
(* expression: $column and @relation.column begin where the expression is. *)
Refer ==
  /\ Working("ref")
  /\ stack' = GoOn(Innermost.place, Item.path)
  /\ UNCHANGED <<selects, formulas, leaves, outcome>>

(* expression: #THIS begins at the owner of the formula or the subquery.   *)
Owner == IF Innermost.owner # Null THEN Innermost.owner ELSE selects[Innermost.place.ctx].outer
This ==
  /\ Working("this")
  /\ IF Owner = Null THEN outcome' = "refused" /\ UNCHANGED stack
     ELSE stack' = GoOn(Owner, Item.path) /\ UNCHANGED outcome
  /\ UNCHANGED <<selects, formulas, leaves>>

(* Mutant: relations of one name share a join. *)
JoinedByName(c, alias, name) == {k \in DOMAIN selects[c].joins : selects[c].joins[k].name = name}

(* related: a join is shared by the paths that reach it from one alias.    *)
Joined(c, alias, name) ==
  {k \in DOMAIN selects[c].joins :
     selects[c].joins[k].source = alias /\ selects[c].joins[k].name = name}

JoinRefused(table, name) ==
  \/ name \notin DOMAIN Relations[table]
  \/ Relations[table][name].column \notin Physical[table]
  \/ Relations[table][name].key \notin Physical[Relations[table][name].target]

(* related, one relation of the path. *)
Follow ==
  /\ Working("walk") /\ Item.path # << >>
  /\ LET p == Item.place
         name == Item.path[1]
         c == selects[p.ctx]
         known == Joined(p.ctx, p.alias, name)
         added == [alias |-> <<p.ctx - 1, Len(c.joins) + 1>>, table |-> Relations[p.table][name].target,
                   source |-> p.alias, name |-> name]
         join == IF known = {} THEN added ELSE c.joins[CHOOSE k \in known : TRUE]
     IN  IF JoinRefused(p.table, name)
         THEN outcome' = "refused" /\ UNCHANGED <<selects, stack>>
         ELSE /\ selects' = IF known # {} THEN selects
                            ELSE [selects EXCEPT ![p.ctx] =
                                    Select(c.table, c.outer, Append(c.joins, added))]
              /\ stack' = GoOn(PlaceAt(p.ctx, join.table, join.alias,
                                       <<p.row[1], Append(p.row[2], name)>>), Tail(Item.path))
              /\ UNCHANGED outcome
  /\ UNCHANGED <<formulas, leaves>>

(* field, of a physical column. *)
Reach ==
  /\ Working("walk") /\ Item.path = << >>
  /\ Item.column \in Physical[Item.place.table]
  /\ leaves' = leaves \cup {[scope |-> Innermost.scope, alias |-> Item.place.alias, row |-> Item.place.row]}
  /\ stack' = Rest
  /\ UNCHANGED <<selects, formulas, outcome>>

(* Mutant: nobody asks what is under way. *)
UnderWayNever(key) == FALSE

UnderWay(key) == key \in formulas

(* field, of a virtual column: its definition, in the context of its row.  *)
Enter ==
  /\ Working("walk") /\ Item.path = << >>
  /\ LET p == Item.place
         key == <<p.table, Item.column>>
     IN  /\ Item.column \in DOMAIN Definitions[p.table]
         /\ IF UnderWay(key) \/ Len(stack) >= MaxDepth
            THEN /\ outcome' = IF UnderWay(key) THEN "cyclic" ELSE "overflow"
                 /\ UNCHANGED <<stack, formulas>>
            ELSE /\ formulas' = formulas \cup {key}
                 /\ stack' = Append(Rest, Frame(p, p, Definitions[p.table][Item.column], key, Innermost.scope))
                 /\ UNCHANGED outcome
  /\ UNCHANGED <<selects, leaves>>

(* subquery: a context of its own, correlated with the row it is in.       *)
Nest ==
  /\ Working("sub")
  /\ LET c == Len(selects) + 1
     IN  /\ selects' = Append(selects, Select(Item.table, Innermost.place, << >>))
         /\ stack' = Append(Rest, Frame(BasePlace(c, Item.table), Null, Item.refs, Null,
                                        Append(Innermost.scope, c)))
  /\ UNCHANGED <<formulas, leaves, outcome>>

(* field: finally, remove the key. *)
Left(key) == formulas \ {key}

Return ==
  /\ outcome = "compiling" /\ Innermost.todo = << >>
  /\ formulas' = Left(Innermost.key)
  /\ stack' = Front(stack)
  /\ outcome' = IF Len(stack) = 1 THEN "done" ELSE outcome
  /\ UNCHANGED <<selects, leaves>>

JoinsNext == Refer \/ This \/ Follow \/ Reach \/ Enter \/ Nest \/ Return

JoinsSpec == JoinsInit /\ [][JoinsNext]_joinsVars

-----------------------------------------------------------------------------
(* SQL takes an alias from the innermost subquery that declares it, as its *)
(* base or for a join; the row it finds there is led to by joins, one from *)
(* another.                                                                *)
Declares(base, joins, alias) == alias = base \/ \E k \in DOMAIN joins : joins[k].alias = alias
Unambiguous(base, joins) ==
  \A k \in DOMAIN joins :
    joins[k].alias # base /\ \A j \in DOMAIN joins : joins[j].alias = joins[k].alias => j = k
Leads(base, joins, path, alias) ==
  IF path = << >> THEN alias = base
  ELSE \E via \in [DOMAIN path -> DOMAIN joins] :
         /\ joins[via[Len(path)]].alias = alias
         /\ \A i \in DOMAIN path :
              /\ joins[via[i]].name = path[i]
              /\ joins[via[i]].source = IF i = 1 THEN base ELSE joins[via[i - 1]].alias
Finds(leaf) ==
  \E k \in DOMAIN leaf.scope :
    LET c == leaf.scope[k]
        joins == selects[c].joins
    IN  /\ Declares(BaseAlias(c), joins, leaf.alias) /\ Unambiguous(BaseAlias(c), joins)
        /\ \A j \in DOMAIN leaf.scope :
             j > k => ~Declares(BaseAlias(leaf.scope[j]), selects[leaf.scope[j]].joins, leaf.alias)
        /\ leaf.row[1] = c /\ Leads(BaseAlias(c), joins, leaf.row[2], leaf.alias)

(* Every column reference of the finished statement names, where it is     *)
(* written, the row its path leads to: through shared joins, formulas of   *)
(* joined tables and subqueries that reach out, back to the row that owns  *)
(* them.  (related, field, subquery)                                       *)
LeavesReachTheirRow == outcome = "done" => \A leaf \in leaves : Finds(leaf)

(* What a virtual column refers to directly. *)
At(table, path) == FoldLeft(LAMBDA t, name : Relations[t][name].target, table, path)
DirectRefs(table, refs) == {<<At(table, refs[k].path), refs[k].column>> : k \in {i \in DOMAIN refs : refs[i].kind # "sub"}}
NestedRefs(table, ref) ==
  {<<At(IF ref.refs[k].kind = "this" THEN table ELSE ref.table, ref.refs[k].path), ref.refs[k].column>> :
     k \in DOMAIN ref.refs}
RefersTo(key) ==
  LET refs == Definitions[key[1]][key[2]]
  IN  DirectRefs(key[1], refs)
      \cup UNION {NestedRefs(key[1], refs[k]) : k \in {i \in DOMAIN refs : refs[i].kind = "sub"}}
VirtualColumns == UNION {{t} \X DOMAIN Definitions[t] : t \in DOMAIN Definitions}
Dependence == UNION {{key} \X RefersTo(key) : key \in VirtualColumns}
Chained(r) == r \cup {<<d[1][1], d[2][2]>> : d \in {e \in r \X r : e[1][2] = e[2][1]}}
Closure == FoldLeft(LAMBDA r, n : Chained(r), Dependence, <<1, 2, 3, 4>>)  \* chains of up to 16
OnCycle(key) == <<key, key>> \in Closure

(* A column is called cyclic only if its definition comes back to it, be   *)
(* it used twice, behind several relations or inside a subquery; and no    *)
(* definition sends the compiler into a recursion without end, through     *)
(* aliases, formulas and subqueries that reach back.  (field)              *)
OnlyCyclesAreRefused ==
  /\ outcome # "overflow"
  /\ outcome = "cyclic" => OnCycle(<<Item.place.table, Item.column>>)
=============================================================================
