----------------------------- MODULE RowPolicies -----------------------------
(***************************************************************************)
(* Row policies of one table: partitions, drafts and logical deletion      *)
(* (compiler.py, class _Context and the plan_ methods; model.py,           *)
(* validate_row_policies), with the environment a query is bound to        *)
(* (contracts.py, EnvironmentBinding).                                     *)
(*                                                                         *)
(* Several actors use the table, each in its own environment, which may    *)
(* change.  Compile resolves a statement against the environment of the    *)
(* moment, Execute runs it later, on the rows the database has then.       *)
(***************************************************************************)
EXTENDS Integers, FiniteSets

CONSTANTS Actors, Keys,       \* who uses the table; the rows there may be
          Columns,            \* its physical columns
          Virtual,            \* its other columns
          BooleanColumns,     \* columns of a boolean type
          Required,           \* columns that are notnull or in the primary key
          Values,             \* values of a column that is not boolean
          None,               \* NULL, Python's None
          NoField,            \* no column, no environment key
          CurrentKeys, AllowedKeys,  \* environment keys of the two roles
          Declarations,       \* row policies a model may declare
          Snapshots,          \* environments an actor may be in
          Assignments,        \* values a write is given: functions of columns
          MaxHeld             \* bound: statements compiled and not dropped

Scopes == [field : Columns \cup Virtual, current : CurrentKeys,
           allowed : AllowedKeys \cup {NoField}, include_null : BOOLEAN]
Fields == Columns \cup Virtual \cup {NoField}
Anything == Values \cup BOOLEAN \cup {None}
Domain(c) == IF c \in BooleanColumns THEN BOOLEAN \cup {None} ELSE Values \cup {None}

ASSUME PolicyAssumption ==
  /\ BooleanColumns \subseteq Columns /\ Required \subseteq Columns
  /\ Columns \cap Virtual = {} /\ NoField \notin Columns \cup Virtual \cup AllowedKeys
  /\ NoField \notin CurrentKeys
  /\ CurrentKeys \cap AllowedKeys = {} /\ None \notin Values \cup BOOLEAN
  /\ \A d \in Declarations : /\ d.partitions \subseteq Scopes
                             /\ d.draft_field \in Fields
                             /\ d.logical_deletion_field \in Fields
  /\ \A s \in Snapshots : DOMAIN s \subseteq CurrentKeys \cup AllowedKeys
  /\ \A s \in Snapshots :
       /\ \A k \in CurrentKeys \cap DOMAIN s : s[k] \in Anything
       /\ \A k \in AllowedKeys \cap DOMAIN s : s[k] \subseteq Anything
  /\ Assignments \subseteq UNION {[S -> Anything] : S \in SUBSET Columns}

VARIABLES policies,  \* Table.policies
          rows,      \* the table: a row or None under each key
          env,       \* each actor's environment
          compiled   \* each actor's compiled statement, or None

vars == <<policies, rows, env, compiled>>

(* Models whose policies are not refused.  Two scopes of one field, a      *)
(* virtual field, a draft that is no boolean or a tombstone that cannot be *)
(* NULL are errors.                                                        *)
Accepted(d) ==
  /\ \A s, t \in d.partitions : s.field = t.field => s = t
  /\ \A s \in d.partitions : s.field \in Columns /\ s.current # s.allowed
  /\ d.draft_field # NoField => d.draft_field \in BooleanColumns
  /\ d.logical_deletion_field # NoField => d.logical_deletion_field \in Columns \ Required
  /\ d.draft_field # NoField => d.draft_field # d.logical_deletion_field

Init ==
  /\ policies \in {d \in Declarations : Accepted(d)}
  /\ rows = [k \in Keys |-> None]
  /\ env \in [Actors -> Snapshots]
  /\ compiled = [a \in Actors |-> None]

-----------------------------------------------------------------------------
(* scope_values: what the environment says about a scope.  A scope with    *)
(* neither a current value nor allowed ones refuses the statement.         *)
ScopeKeys(s) == {s.current} \cup ({s.allowed} \ {NoField})
HasContext(s, snapshot) == ScopeKeys(s) \cap DOMAIN snapshot # {}
HasCurrent(s, snapshot) == s.current \in DOMAIN snapshot
HasAllowed(s, snapshot) == s.allowed \in DOMAIN snapshot

(* Mutant: NULL is admitted by include_null alone. *)
ConditionNullFirst(s, snapshot) ==
  [field |-> s.field,
   equal |-> IF HasCurrent(s, snapshot) THEN {snapshot[s.current]} ELSE Anything,
   among |-> IF ~HasAllowed(s, snapshot) THEN Anything
             ELSE snapshot[s.allowed] \cup (IF s.include_null THEN {None} ELSE {})]

(* partition_predicates: the condition of one scope on a row; anything     *)
(* passes a key the environment does not have.  None in the allowed values,*)
(* or include_null, admits NULL; SQL's = and IN do not.                    *)
Condition(s, snapshot) ==
  [field |-> s.field,
   equal |-> IF HasCurrent(s, snapshot) THEN {snapshot[s.current]} ELSE Anything,
   among |-> IF ~HasAllowed(s, snapshot) THEN Anything
             ELSE IF snapshot[s.allowed] = {} THEN {}
             ELSE snapshot[s.allowed] \cup (IF s.include_null THEN {None} ELSE {})]
Conditions(snapshot, ignore) ==
  IF ignore THEN {} ELSE {Condition(s, snapshot) : s \in policies.partitions}
Satisfies(row, conditions) ==
  \A c \in conditions : row[c.field] \in c.equal \cap c.among

(* The values of m, where over has none. *)
Overlay(m, over) ==
  [k \in DOMAIN over \cup DOMAIN m |-> IF k \in DOMAIN over THEN over[k] ELSE m[k]]

(* guard_values: the values of a write.  An insert gets the current value  *)
(* of a partition it does not name; a value outside the scope is refused.  *)
Completed(values, snapshot, insert, ignore) ==
  IF insert /\ ~ignore
  THEN Overlay([f \in {s.field : s \in policies.partitions} \ DOMAIN values |->
                  snapshot[(CHOOSE s \in policies.partitions : s.field = f).current]], values)
  ELSE values
Unnamed(values, snapshot) ==
  \E s \in policies.partitions : s.field \notin DOMAIN values /\ ~HasCurrent(s, snapshot)
InActiveScope(s, snapshot, v) ==
  /\ HasCurrent(s, snapshot) => v = snapshot[s.current]
  /\ HasAllowed(s, snapshot) =>
       /\ snapshot[s.allowed] # {}
       /\ v \in snapshot[s.allowed] \/ (v = None /\ s.include_null)
Guarded(values, snapshot, insert, ignore) ==
  ~ignore =>
    /\ \A s \in policies.partitions : HasContext(s, snapshot)
    /\ insert => ~Unnamed(values, snapshot)
    /\ LET written == Completed(values, snapshot, insert, ignore) IN
         \A s \in policies.partitions :
           s.field \in DOMAIN written => InActiveScope(s, snapshot, written[s.field])

(* environment_binding: the keys looked at, with their values or absence.  *)
BindingKeys(ignore) ==
  IF ignore THEN {} ELSE UNION {ScopeKeys(s) : s \in policies.partitions}
Bound(keys, snapshot) == [k \in keys \cap DOMAIN snapshot |-> snapshot[k]]

Statement(a, kind, where, values, ignore, hidden) ==
  [kind |-> kind, where |-> where, values |-> values, ignore |-> ignore,
   conditions |-> Conditions(env[a], ignore), hidden |-> hidden,
   keys |-> BindingKeys(ignore), bound |-> Bound(BindingKeys(ignore), env[a])]
MayHold(a) == compiled[a] = None /\ Cardinality({b \in Actors : compiled[b] # None}) < MaxHeld
Keep(a, statement) ==
  /\ compiled' = [compiled EXCEPT ![a] = statement]
  /\ UNCHANGED <<policies, rows, env>>

WellTyped(values) == \A c \in DOMAIN values : values[c] \in Domain(c)

(* plan_insert *)
CompileInsert(a, k, values, ignore) ==
  /\ MayHold(a)
  /\ Guarded(values, env[a], TRUE, ignore)
  /\ Keep(a, Statement(a, "insert", {k}, Completed(values, env[a], TRUE, ignore), ignore, {}))

(* plan_update *)
CompileUpdate(a, where, values, ignore) ==
  /\ MayHold(a) /\ DOMAIN values # {}
  /\ Guarded(values, env[a], FALSE, ignore)
  /\ Keep(a, Statement(a, "update", where, values, ignore, {}))

(* plan_delete *)
CompileDelete(a, where, ignore) ==
  /\ MayHold(a)
  /\ ~ignore => \A s \in policies.partitions : HasContext(s, env[a])
  /\ Keep(a, Statement(a, "delete", where, << >>, ignore, {}))

(* soft_delete and restore: updates of the tombstone. *)
CompileTombstone(a, where, value, ignore) ==
  LET field == policies.logical_deletion_field IN
  /\ field # NoField /\ value \in Domain(field)
  /\ CompileUpdate(a, where, [f \in {field} |-> value], ignore)

(* select_policies: rows hidden because they are drafts or deleted. *)
CompileSelect(a, where, exclude_draft, exclude_logical_deleted, ignore) ==
  /\ MayHold(a)
  /\ ~ignore => \A s \in policies.partitions : HasContext(s, env[a])
  /\ Keep(a, Statement(a, "select", where, << >>, ignore,
       {f \in {policies.draft_field} : f # NoField /\ exclude_draft} \cup
       {f \in {policies.logical_deletion_field} : f # NoField /\ exclude_logical_deleted}))

(* Rows that do not show: a draft is TRUE, a deleted row has a tombstone.  *)
Hidden(row, fields) ==
  \E f \in fields : IF f = policies.draft_field THEN row[f] = TRUE ELSE row[f] # None

Reached(q) ==
  {k \in q.where : /\ rows[k] # None
                   /\ Satisfies(rows[k], q.conditions)
                   /\ ~Hidden(rows[k], q.hidden)}

Written(q, k) ==
  IF q.kind = "insert" THEN Overlay([c \in Columns |-> None], q.values)
  ELSE IF q.kind = "update" THEN Overlay(rows[k], q.values)
  ELSE IF q.kind = "delete" THEN None
  ELSE rows[k]

(* Mutant: a key that was absent is not looked at. *)
ValidPresent(q, snapshot) ==
  /\ DOMAIN q.bound \subseteq DOMAIN snapshot
  /\ \A k \in DOMAIN q.bound : snapshot[k] = q.bound[k]

(* EnvironmentBinding.validate *)
Valid(q, snapshot) == Bound(q.keys, snapshot) = q.bound

(* The database executes the statement, if the environment is still the    *)
(* one it was compiled in; an insert fails if the key is taken.            *)
Execute(a) ==
  LET q    == compiled[a]
      hits == IF q.kind = "insert" THEN q.where ELSE Reached(q)
  IN
  /\ q # None /\ Valid(q, env[a])
  /\ q.kind = "insert" => \A k \in q.where : rows[k] = None
  /\ rows' = [k \in Keys |-> IF k \in hits THEN Written(q, k) ELSE rows[k]]
  /\ UNCHANGED <<policies, env, compiled>>

(* A compiled statement may be executed again or dropped. *)
Drop(a) ==
  /\ compiled[a] # None
  /\ Keep(a, None)

ChangeEnvironment(a, snapshot) ==
  /\ env' = [env EXCEPT ![a] = snapshot]
  /\ UNCHANGED <<policies, rows, compiled>>

Next ==
  \E a \in Actors :
    \/ \E k \in Keys, values \in Assignments, ignore \in BOOLEAN :
         WellTyped(values) /\ CompileInsert(a, k, values, ignore)
    \/ \E where \in (SUBSET Keys) \ {{}}, values \in Assignments, ignore \in BOOLEAN :
         WellTyped(values) /\ CompileUpdate(a, where, values, ignore)
    \/ \E where \in (SUBSET Keys) \ {{}}, ignore \in BOOLEAN : CompileDelete(a, where, ignore)
    \/ \E where \in (SUBSET Keys) \ {{}}, value \in Anything, ignore \in BOOLEAN :
         CompileTombstone(a, where, value, ignore)
    \/ \E where \in (SUBSET Keys) \ {{}}, draft, deleted, ignore \in BOOLEAN :
         CompileSelect(a, where, draft, deleted, ignore)
    \/ Execute(a) \/ Drop(a)
    \/ \E snapshot \in Snapshots : ChangeEnvironment(a, snapshot)

Spec == Init /\ [][Next]_vars

-----------------------------------------------------------------------------
(* The scope of an environment, as the guide of row policies states it: a  *)
(* current value selects the rows that have it, NULL included; a list of   *)
(* allowed values selects its members and, with include_null, NULL; an     *)
(* empty list selects nothing; both together select what both do.          *)
InScope(row, snapshot) ==
  \A s \in policies.partitions :
    /\ {s.current, s.allowed} \cap DOMAIN snapshot # {}
    /\ s.current \in DOMAIN snapshot => row[s.field] = snapshot[s.current]
    /\ s.allowed \in DOMAIN snapshot =>
         /\ snapshot[s.allowed] # {}
         /\ row[s.field] \in snapshot[s.allowed] \/ (s.include_null /\ row[s.field] = None)
View(a) == {k \in Keys : rows[k] # None /\ InScope(rows[k], env[a])}

(* Types: policies are accepted ones, rows are whole rows of the table's   *)
(* columns, a compiled statement is bound to keys of the environment.      *)
TypeOK ==
  /\ policies \in Declarations
  /\ \A k \in Keys : rows[k] # None =>
       DOMAIN rows[k] = Columns /\ \A c \in Columns : rows[k][c] \in Domain(c)
  /\ env \in [Actors -> Snapshots]
  /\ \A a \in Actors : compiled[a] # None =>
       /\ compiled[a].kind \in {"insert", "update", "delete", "select"}
       /\ compiled[a].where \subseteq Keys
       /\ \A c \in compiled[a].conditions : c.field \in Columns
       /\ DOMAIN compiled[a].values \subseteq Columns

(* A statement that does not ignore partitions and may still be executed   *)
(* reaches exactly the rows of its condition that are in its actor's scope *)
(* now and that its visibility options do not hide: partition_predicates,  *)
(* environment_binding and validate agree with the guide, whatever the     *)
(* environment was when the statement was compiled.                        *)
ReachesItsScope ==
  \A a \in Actors :
    LET q == compiled[a] IN
      (q # None /\ Valid(q, env[a]) /\ ~q.ignore /\ q.kind # "insert") =>
        Reached(q) = {k \in q.where \cap View(a) :
                        /\ policies.draft_field \in q.hidden =>
                             rows[k][policies.draft_field] # TRUE
                        /\ policies.logical_deletion_field \in q.hidden =>
                             rows[k][policies.logical_deletion_field] = None}

(* No write that does not ignore partitions takes a row into or out of its *)
(* actor's scope: what it changes is in the scope before, unless it is     *)
(* inserted, and after, unless it is deleted (guard_values beside          *)
(* partition_predicates).                                                  *)
WritesStayInScope ==
  [][\A a \in Actors : Execute(a) /\ ~compiled[a].ignore =>
       \A k \in Keys : rows'[k] # rows[k] =>
         /\ rows[k] # None => InScope(rows[k], env[a])
         /\ rows'[k] # None => InScope(rows'[k], env[a])]_vars
=============================================================================
