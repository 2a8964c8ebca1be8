--------------------------- MODULE QueryRendering ---------------------------
(***************************************************************************)
(* A select and its count, from the options of the query to the statement: *)
(* what the compiler refuses (compiler.py, plan_select and plan_count),    *)
(* what the dialects make of the plan (dialects/postgres.py, sqlite.py)    *)
(* and what the database answers.                                          *)
(*                                                                         *)
(* An expression is a column, a formula of one, an aggregate or, to order  *)
(* by, the alias of a projection; its text may end in a line comment,      *)
(* which hides whatever follows on the line.  A statement is a sequence of *)
(* pieces.  Joins are those of QueryJoins, policies those of RowPolicies.  *)
(***************************************************************************)
EXTENDS Integers, Sequences, FiniteSets, SequencesExt, FiniteSetsExt

CONSTANTS Queries,  \* options of a query
          Plans,    \* plans made by hand, for the dialects alone
          Contents, \* sets of rows [id, a, b]: what the queries may find
          Largest,  \* SQLite's largest integer
          NotGiven  \* an option that is not given

Dialects == {"postgresql", "sqlite"}

Exprs == [kind : {"column", "formula", "count"}, column : {"a", "b", NotGiven}, comment : BOOLEAN]
AliasExprs == [kind : {"alias"}, position : Nat, comment : BOOLEAN]
Perhaps(S) == S \cup {NotGiven}
Options ==
  [columns : Seq(Exprs), where : Perhaps(Exprs), order : Perhaps(Exprs \cup AliasExprs), limit : Perhaps(Int),
   offset : Perhaps(Int), distinct : BOOLEAN, group : Perhaps(Exprs), having : Perhaps(Exprs),
   forUpdate : BOOLEAN, mark : BOOLEAN]
PlanRecords ==
  [operation : {"select", "count"}, projections : Seq(Exprs), where : Perhaps(Exprs),
   order : Perhaps(Exprs \cup AliasExprs), limit : Perhaps(Int), offset : Perhaps(Int), forUpdate : BOOLEAN,
   distinct : BOOLEAN, group : Perhaps(Exprs), having : Perhaps(Exprs)]

ASSUME RenderingAssumption ==
  /\ Queries \subseteq Options /\ Plans \subseteq PlanRecords
  /\ NotGiven \notin Exprs \cup AliasExprs \cup Int \cup Options
  /\ Largest \in Nat /\ Largest >= 2 \* two groups, as columns have two values
  /\ \A rows \in Contents : IsFiniteSet(rows) /\ Cardinality(rows) <= Largest

VARIABLES query,     \* the options, or NotGiven for a plan made by hand
          terminal,  \* select or count
          dialect,
          plan,
          statement, \* the pieces of the SQL text
          phase

renderingVars == <<query, terminal, dialect, plan, statement, phase>>

-----------------------------------------------------------------------------
(* Expressions *)
IsColumn(e) == e.kind = "column"
Same(e, f) == e.kind = f.kind /\ e.column = f.column
AddsUp(e) == e.kind = "count"
Value(e, r) == IF e.kind = "formula" THEN 1 - r[e.column] ELSE r[e.column]

(* _fragment: the comment ends before structural SQL is added.             *)
Terminated(e) == [e EXCEPT !.comment = FALSE]

-----------------------------------------------------------------------------
(* Mutant: the projection is not asked about the order. *)
DistinctOrderingAny(columns, e) == TRUE

(* distinct_ordering: a sort key is a projected alias or expression.       *)
DistinctOrdering(columns, e) ==
  IF e.kind = "alias" THEN e.position \in DOMAIN columns
  ELSE \E k \in DOMAIN columns : Same(columns[k], e)

NotPaged(q) == q.limit = NotGiven /\ q.offset = NotGiven
PageValid(v) == v = NotGiven \/ v \in Nat

(* plan_select *)
SelectAccepts(q) ==
  /\ q.having # NotGiven => q.group # NotGiven
  /\ q.forUpdate => ~q.distinct /\ q.group = NotGiven
  /\ q.mark => ~q.distinct /\ q.group = NotGiven /\ \A k \in DOMAIN q.columns : IsColumn(q.columns[k])
  /\ (q.distinct /\ q.order # NotGiven) => DistinctOrdering(q.columns, q.order)
  /\ PageValid(q.limit) /\ PageValid(q.offset)

PlanSelect(q) ==
  [operation |-> "select",
   projections |-> q.columns \o IF q.mark
     THEN <<[kind |-> "column", column |-> "b", comment |-> FALSE]>> ELSE << >>,
   where |-> q.where, order |-> q.order, limit |-> q.limit, offset |-> q.offset,
   forUpdate |-> q.forUpdate, distinct |-> q.distinct, group |-> q.group, having |-> q.having]

(* plan_count: the same select, neither ordered nor locked; no pages.      *)
Unpaged(q) == [q EXCEPT !.order = NotGiven, !.limit = NotGiven, !.offset = NotGiven, !.forUpdate = FALSE]
CountAccepts(q) == NotPaged(q) /\ SelectAccepts(Unpaged(q))
PlanCount(q) == [PlanSelect(Unpaged(q)) EXCEPT !.operation = "count"]

-----------------------------------------------------------------------------
(* _grouping *)
GroupingAccepts(p) ==
  /\ p.having # NotGiven => p.group # NotGiven
  /\ p.forUpdate => ~p.distinct /\ p.group = NotGiven

(* SQLite: an offset needs a limit, and there is no lock.                  *)
Adapted(d, p) ==
  IF d # "sqlite" THEN p
  ELSE [p EXCEPT !.forUpdate = FALSE,
                 !.limit = IF p.offset # NotGiven /\ p.limit = NotGiven THEN Largest ELSE p.limit]

(* render, of PostgreSQL: what is refused. *)
RenderAccepts(p) ==
  GroupingAccepts(p) /\ p.projections # << >> /\ PageValid(p.limit) /\ PageValid(p.offset)

(* Mutant: SQLite clears the lock before anything is checked. *)
DialectAcceptsCleared(d, p) == RenderAccepts(Adapted(d, p))

(* render, of either dialect: SQLite checks the lock it is about to drop.  *)
DialectAccepts(d, p) == (d = "sqlite" => GroupingAccepts(p)) /\ RenderAccepts(Adapted(d, p))

Piece(clause, e) == [clause |-> clause, e |-> e, comment |-> e.comment]
Plain(clause, v) == [clause |-> clause, e |-> v, comment |-> FALSE]
Clause(clause, e) == IF e = NotGiven THEN << >> ELSE <<Piece(clause, Terminated(e))>>
PageClause(clause, v) == IF v = NotGiven THEN << >> ELSE <<Plain(clause, v)>>

(* render: SELECT ... FROM ... WHERE ... GROUP BY ... ORDER BY ... LIMIT   *)
Projections(p) ==
  [k \in DOMAIN p.projections |-> Piece("projection", Terminated(p.projections[k]))]
Clauses(p) ==
  <<Plain("from", NotGiven)>>
  \o Clause("where", p.where) \o Clause("group", p.group) \o Clause("having", p.having)
  \o Clause("order", p.order) \o PageClause("limit", p.limit) \o PageClause("offset", p.offset)
  \o IF p.forUpdate THEN <<Plain("update", NotGiven)>> ELSE << >>
RenderSelect(d, p) ==
  <<Plain("select", p.distinct)>> \o Projections(p) \o Clauses(Adapted(d, p))

CountStar == [kind |-> "count", column |-> NotGiven, comment |-> FALSE]

(* Mutant: plain columns are counted directly, distinct or not. *)
CountsDirectlyAlways(p) ==
  p.group = NotGiven /\ \A k \in DOMAIN p.projections : IsColumn(p.projections[k])

(* _count: one row for each row of the table, or a count over the select.  *)
CountsDirectly(p) ==
  ~p.distinct /\ p.group = NotGiven /\ \A k \in DOMAIN p.projections : IsColumn(p.projections[k])

RenderCount(d, p) ==
  LET inner == [p EXCEPT !.operation = "select", !.order = NotGiven, !.forUpdate = FALSE] IN
  IF CountsDirectly(p)
  THEN RenderSelect(d, [inner EXCEPT !.projections = <<CountStar>>])
  ELSE <<Plain("outer", NotGiven)>> \o RenderSelect(d, inner) \o <<Plain("close", NotGiven)>>

Rendered(d, p) == IF p.operation = "count" THEN RenderCount(d, p) ELSE RenderSelect(d, p)

-----------------------------------------------------------------------------
(* The database, which is external: what the text says, and its answer.    *)
Seen(s) ==
  LET hides == {k \in DOMAIN s : s[k].comment}
  IN  IF hides = {} THEN s ELSE SubSeq(s, 1, Min(hides))

PositionsOf(s, clause) == {k \in DOMAIN s : s[k].clause = clause}
Has(s, clause) == PositionsOf(s, clause) # {}
Only(s, clause) == s[CHOOSE k \in PositionsOf(s, clause) : TRUE].e
(* The projections stand one after the other.                              *)
Projected(s) ==
  LET at == PositionsOf(s, "projection") IN [k \in 1..Cardinality(at) |-> s[Min(at) + k - 1].e]

Met(s, r) == Has(s, "where") => Value(Only(s, "where"), r) = 1
Groups(s, rows) ==
  LET found == {r \in rows : Met(s, r)}
  IN  IF Has(s, "group")
      THEN {g \in {{r \in found : Value(Only(s, "group"), r) = v} : v \in 0..1} :
              g # {} /\ (Has(s, "having") => Cardinality(g) >= 2)}
      ELSE IF \E k \in DOMAIN Projected(s) : AddsUp(Projected(s)[k]) THEN {found}
      ELSE {{r} : r \in found}
Output(s, g) ==
  [k \in DOMAIN Projected(s) |->
     LET e == Projected(s)[k]
     IN  IF AddsUp(e) THEN Cardinality(g) ELSE Value(e, CHOOSE r \in g : TRUE)]

(* The text is a statement the database can run.                           *)
Runs(d, s) ==
  /\ Has(s, "from")
  /\ Has(s, "outer") => Has(s, "close")
  /\ Has(s, "having") => Has(s, "group")
  /\ Has(s, "update") => d = "postgresql" /\ ~Only(s, "select") /\ ~Has(s, "group")
  /\ (d = "sqlite" /\ Has(s, "offset")) => Has(s, "limit")
  /\ (Has(s, "order") /\ Only(s, "select")) =>
       IF Only(s, "order").kind = "alias" THEN Only(s, "order").position \in DOMAIN Projected(s)
       ELSE \E k \in DOMAIN Projected(s) : Same(Projected(s)[k], Only(s, "order"))

Least(m, n) == IF m < n THEN m ELSE n
(* How many rows come back; the number counted, when it is a count.        *)
Found(s, rows) ==
  IF Only(s, "select") THEN Cardinality({Output(s, g) : g \in Groups(s, rows)})
  ELSE Cardinality(Groups(s, rows))
Answer(s, rows) ==
  LET skipped == IF Has(s, "offset") THEN Only(s, "offset") ELSE 0
      left == IF Found(s, rows) > skipped THEN Found(s, rows) - skipped ELSE 0
  IN  IF Has(s, "limit") THEN Least(left, Only(s, "limit")) ELSE left
Counted(s, rows) ==
  IF Has(s, "outer") THEN Answer(s, rows) ELSE Cardinality({r \in rows : Met(s, r)})

(* The author's own SQL is right: beside an aggregate only what is grouped *)
(* is projected or sorted by.                                              *)
Authored(q) ==
  LET whole == q.group # NotGiven \/ \E k \in DOMAIN q.columns : AddsUp(q.columns[k])
      sound(e) == AddsUp(e) \/ (q.group # NotGiven /\ Same(e, q.group))
  IN  /\ whole => \A k \in DOMAIN q.columns : sound(q.columns[k])
      /\ q.order # NotGiven =>
           IF q.order.kind = "alias" THEN q.order.position \in DOMAIN q.columns
           ELSE whole => sound(q.order)
-----------------------------------------------------------------------------
RenderingInit ==
  /\ terminal \in {"select", "count"} /\ dialect \in Dialects
  /\ statement = << >>
  /\ \/ query \in Queries /\ plan = NotGiven /\ phase = "asked"
     \/ query = NotGiven /\ plan \in {p \in Plans : p.operation = terminal} /\ phase = "planned"

Accepts(q) == IF terminal = "count" THEN CountAccepts(q) ELSE SelectAccepts(q)

Plan ==
  /\ phase = "asked" /\ Accepts(query)
  /\ plan' = IF terminal = "count" THEN PlanCount(query) ELSE PlanSelect(query)
  /\ phase' = "planned"
  /\ UNCHANGED <<query, terminal, dialect, statement>>

Render ==
  /\ phase = "planned" /\ DialectAccepts(dialect, plan)
  /\ statement' = Rendered(dialect, plan)
  /\ phase' = "rendered"
  /\ UNCHANGED <<query, terminal, dialect, plan>>

RefuseQuery ==
  /\ \/ phase = "asked" /\ ~Accepts(query)
     \/ phase = "planned" /\ ~DialectAccepts(dialect, plan)
  /\ phase' = "refused"
  /\ UNCHANGED <<query, terminal, dialect, plan, statement>>

RenderingNext == Plan \/ Render \/ RefuseQuery

RenderingSpec == RenderingInit /\ [][RenderingNext]_renderingVars

-----------------------------------------------------------------------------
(* A query that was accepted, and whose own SQL is right, is one the       *)
(* database runs: no combination of options gives a statement it would     *)
(* refuse, and no part of a statement is hidden by a comment that ends     *)
(* another part.  (plan_select, distinct_ordering, render, _fragment)      *)
AcceptedQueriesRun ==
  phase = "rendered" =>
    /\ Seen(statement) = statement
    /\ (query # NotGiven /\ Authored(query)) => Runs(dialect, statement)

(* count() gives the number of rows fetch() returns, distinct or grouped   *)
(* or not, on every table.  (plan_count, _count)                           *)
CountMatchesFetch ==
  (phase = "rendered" /\ terminal = "count" /\ query # NotGiven /\ Authored(query) /\ SelectAccepts(query)) =>
    \A rows \in Contents :
      Counted(statement, rows) = Answer(RenderSelect(dialect, PlanSelect(query)), rows)

(* Both dialects take the same plans, and both answers have as many rows.  *)
(* (PostgresDialect.render, SqliteDialect.render)                          *)
DialectsAgree ==
  /\ phase \in {"planned", "rendered", "refused"} /\ plan # NotGiven =>
       DialectAccepts("postgresql", plan) = DialectAccepts("sqlite", plan)
  /\ (phase = "rendered" /\ terminal = "select" /\ (query # NotGiven => Authored(query))) =>
       \A rows \in Contents, d \in Dialects :
         Answer(RenderSelect(d, plan), rows) = Answer(statement, rows)
=============================================================================
