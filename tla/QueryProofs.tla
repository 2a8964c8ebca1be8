---------------------------- MODULE QueryProofs ----------------------------
(***************************************************************************)
(* What a query reaches and how it is said, for all values of the          *)
(* constants: its row policies, then its statement.                        *)
(***************************************************************************)
EXTENDS RowPolicies, QueryRendering, SequenceTheorems, FiniteSetTheorems, TLAPS

-----------------------------------------------------------------------------
(***************************************************************************)
(* The row policies of RowPolicies hold for every table, every declaration *)
(* that is accepted and every environment: a compiled statement is sound   *)
(* for the environment it was compiled in, and an execution happens only   *)
(* in an environment that agrees with it on all the keys it looked at.     *)
(***************************************************************************)
-----------------------------------------------------------------------------
(* What is true between any two steps.                                     *)

RowOK(row) == DOMAIN row = Columns /\ \A c \in Columns : row[c] \in Anything

(* The values of a write name columns and keep to the scope of e.          *)
ValuesOK(values, e, insert, ignore) ==
  /\ DOMAIN values \subseteq Columns
  /\ \A c \in DOMAIN values : values[c] \in Anything
  /\ ~ignore => \A s \in policies.partitions :
       /\ insert => s.field \in DOMAIN values
       /\ s.field \in DOMAIN values => InActiveScope(s, e, values[s.field])

(* The statement q is what the compiler makes in the environment e.        *)
SoundIn(q, e) ==
  /\ q.conditions = Conditions(e, q.ignore)
  /\ q.keys = BindingKeys(q.ignore) /\ q.bound = Bound(q.keys, e)
  /\ ~q.ignore => \A s \in policies.partitions : HasContext(s, e)
  /\ ValuesOK(q.values, e, q.kind = "insert", q.ignore)
  /\ q.hidden \subseteq {policies.draft_field, policies.logical_deletion_field} \ {NoField}
  /\ q.where \subseteq Keys /\ q.ignore \in BOOLEAN
  /\ q.kind \in {"insert", "update", "delete", "select"}

PoliciesIInv ==
  /\ policies \in Declarations /\ Accepted(policies)
  /\ \A k \in Keys : rows[k] = None \/ RowOK(rows[k])
  /\ env \in [Actors -> Snapshots]
  /\ compiled = [a \in Actors |-> compiled[a]]
  /\ \A a \in Actors : compiled[a] = None \/ \E e \in Snapshots : SoundIn(compiled[a], e)

-----------------------------------------------------------------------------
(* What a scope asks of a row and of a value.                              *)

LEMMA ScopeIs ==
  ASSUME policies \in Declarations, Accepted(policies),
         NEW s \in policies.partitions
  PROVE  /\ s \in Scopes /\ s.field \in Columns /\ s.current \in CurrentKeys
         /\ s.allowed \in AllowedKeys \cup {NoField} /\ s.include_null \in BOOLEAN
         /\ s.current # NoField
<1>1. s \in Scopes
  BY PolicyAssumption
<1>2. s.field \in Columns
  BY DEF Accepted
<1> QED
  BY <1>1, <1>2, PolicyAssumption DEF Scopes

LEMMA SnapshotIs ==
  ASSUME NEW e \in Snapshots
  PROVE  /\ DOMAIN e \subseteq CurrentKeys \cup AllowedKeys /\ NoField \notin DOMAIN e
         /\ \A k \in CurrentKeys \cap DOMAIN e : e[k] \in Anything
         /\ \A k \in AllowedKeys \cap DOMAIN e : e[k] \subseteq Anything
  BY PolicyAssumption

(* A value passes the condition of a scope iff it is in the active scope:  *)
(* partition_predicates and guard_values agree (compiler.py:269, 301).     *)
LEMMA ConditionMeans ==
  ASSUME policies \in Declarations, Accepted(policies),
         NEW s \in policies.partitions, NEW e \in Snapshots, NEW v \in Anything
  PROVE  /\ Condition(s, e).field = s.field
         /\ v \in Condition(s, e).equal \cap Condition(s, e).among <=> InActiveScope(s, e, v)
<1>1. s.include_null \in BOOLEAN
  BY ScopeIs
<1>2. /\ Condition(s, e).field = s.field
      /\ Condition(s, e).equal = IF HasCurrent(s, e) THEN {e[s.current]} ELSE Anything
      /\ Condition(s, e).among =
           IF ~HasAllowed(s, e) THEN Anything
           ELSE IF e[s.allowed] = {} THEN {}
           ELSE e[s.allowed] \cup (IF s.include_null THEN {None} ELSE {})
  BY DEF Condition
<1>3. v \in Condition(s, e).equal <=> (HasCurrent(s, e) => v = e[s.current])
  BY <1>2
<1>4. v \in Condition(s, e).among <=>
        (HasAllowed(s, e) => /\ e[s.allowed] # {}
                             /\ v \in e[s.allowed] \/ (v = None /\ s.include_null))
  BY <1>1, <1>2
<1> QED
  BY <1>2, <1>3, <1>4 DEF InActiveScope

(* A row satisfies the conditions of a statement iff the guide's scope     *)
(* holds it.                                                               *)
LEMMA SatisfiesIsInScope ==
  ASSUME policies \in Declarations, Accepted(policies),
         NEW e \in Snapshots, NEW row, RowOK(row),
         \A s \in policies.partitions : HasContext(s, e)
  PROVE  Satisfies(row, Conditions(e, FALSE)) <=> InScope(row, e)
<1>1. ASSUME NEW s \in policies.partitions
      PROVE  /\ {s.current, s.allowed} \cap DOMAIN e # {}
             /\ row[s.field] \in Anything
             /\ Condition(s, e).field = s.field
             /\ row[s.field] \in Condition(s, e).equal \cap Condition(s, e).among
                  <=> InActiveScope(s, e, row[s.field])
  <2>1. {s.current, s.allowed} \cap DOMAIN e # {}
    BY DEF HasContext, ScopeKeys
  <2>2. row[s.field] \in Anything
    BY ScopeIs DEF RowOK
  <2> QED
    BY <2>1, <2>2, ConditionMeans
<1>2. Satisfies(row, Conditions(e, FALSE)) <=>
        \A s \in policies.partitions :
          row[s.field] \in Condition(s, e).equal \cap Condition(s, e).among
  <2>1. \A c : c \in Conditions(e, FALSE) <=> \E s \in policies.partitions : c = Condition(s, e)
    BY DEF Conditions
  <2> QED
    BY <1>1, <2>1 DEF Satisfies
<1>3. InScope(row, e) <=>
        \A s \in policies.partitions :
          /\ {s.current, s.allowed} \cap DOMAIN e # {}
          /\ InActiveScope(s, e, row[s.field])
  BY DEF InScope, InActiveScope, HasCurrent, HasAllowed
<1> QED
  BY <1>1, <1>2, <1>3

-----------------------------------------------------------------------------
(* An environment that agrees on the keys a statement is bound to.         *)

LEMMA BoundAgree ==
  ASSUME NEW keys, NEW e, NEW f, Bound(keys, e) = Bound(keys, f)
  PROVE  \A k \in keys : /\ k \in DOMAIN e <=> k \in DOMAIN f
                         /\ k \in DOMAIN e => e[k] = f[k]
<1>1. DOMAIN Bound(keys, e) = keys \cap DOMAIN e /\ DOMAIN Bound(keys, f) = keys \cap DOMAIN f
  BY DEF Bound
<1>2. \A k \in keys \cap DOMAIN e : Bound(keys, e)[k] = e[k]
  BY DEF Bound
<1>3. \A k \in keys \cap DOMAIN f : Bound(keys, f)[k] = f[k]
  BY DEF Bound
<1> QED
  BY <1>1, <1>2, <1>3

LEMMA SameScope ==
  ASSUME policies \in Declarations, Accepted(policies),
         NEW e \in Snapshots, NEW f \in Snapshots,
         Bound(BindingKeys(FALSE), e) = Bound(BindingKeys(FALSE), f),
         NEW s \in policies.partitions
  PROVE  /\ HasContext(s, e) <=> HasContext(s, f)
         /\ Condition(s, e) = Condition(s, f)
         /\ \A v : InActiveScope(s, e, v) <=> InActiveScope(s, f, v)
<1>1. ScopeKeys(s) \subseteq BindingKeys(FALSE)
  BY DEF BindingKeys
<1>2. \A k \in ScopeKeys(s) : /\ k \in DOMAIN e <=> k \in DOMAIN f
                              /\ k \in DOMAIN e => e[k] = f[k]
  <2> DEFINE looked == BindingKeys(FALSE)
  <2> HIDE DEF looked
  <2>1. Bound(looked, e) = Bound(looked, f)
    BY DEF looked
  <2>2. \A k \in looked : /\ k \in DOMAIN e <=> k \in DOMAIN f
                          /\ k \in DOMAIN e => e[k] = f[k]
    BY ONLY <2>1, BoundAgree
  <2>3. ScopeKeys(s) \subseteq looked
    BY <1>1 DEF looked
  <2> QED
    BY <2>2, <2>3
<1>3. s.current \in ScopeKeys(s) /\ (s.allowed = NoField \/ s.allowed \in ScopeKeys(s))
  BY DEF ScopeKeys
<1>4. NoField \notin DOMAIN e /\ NoField \notin DOMAIN f
  BY SnapshotIs
<1>5. /\ HasCurrent(s, e) <=> HasCurrent(s, f)
      /\ HasAllowed(s, e) <=> HasAllowed(s, f)
      /\ HasCurrent(s, e) => e[s.current] = f[s.current]
      /\ HasAllowed(s, e) => e[s.allowed] = f[s.allowed]
  BY <1>2, <1>3, <1>4 DEF HasCurrent, HasAllowed
<1>6. HasContext(s, e) <=> HasContext(s, f)
  BY <1>2 DEF HasContext
<1>7. Condition(s, e) = Condition(s, f)
  BY <1>5 DEF Condition
<1>8. \A v : InActiveScope(s, e, v) <=> InActiveScope(s, f, v)
  BY <1>5 DEF InActiveScope
<1> QED
  BY <1>6, <1>7, <1>8

(* What was compiled in one environment is sound in every other one in     *)
(* which it is still valid (contracts.py, EnvironmentBinding.validate).    *)
LEMMA StillSound ==
  ASSUME PoliciesIInv, NEW q, NEW e \in Snapshots, SoundIn(q, e), ~q.ignore,
         NEW f \in Snapshots, Valid(q, f)
  PROVE  SoundIn(q, f)
<1>1. policies \in Declarations /\ Accepted(policies)
  BY DEF PoliciesIInv
<1>2. q.ignore = FALSE
  BY DEF SoundIn
<1>3. Bound(BindingKeys(FALSE), e) = Bound(BindingKeys(FALSE), f) /\ q.bound = Bound(q.keys, f)
  BY <1>2 DEF SoundIn, Valid
<1>4. \A s \in policies.partitions :
        /\ HasContext(s, e) <=> HasContext(s, f)
        /\ Condition(s, e) = Condition(s, f)
        /\ \A v : InActiveScope(s, e, v) <=> InActiveScope(s, f, v)
  BY <1>1, <1>3, SameScope
<1>5. Conditions(e, FALSE) = Conditions(f, FALSE)
  BY <1>4 DEF Conditions
<1>6. ValuesOK(q.values, f, q.kind = "insert", q.ignore)
  BY <1>4 DEF SoundIn, ValuesOK
<1> QED
  BY <1>2, <1>3, <1>4, <1>5, <1>6 DEF SoundIn

-----------------------------------------------------------------------------
(* What the compiler makes is sound in the environment it made it in.      *)

LEMMA OverlayIs ==
  ASSUME NEW m, NEW over
  PROVE  /\ DOMAIN Overlay(m, over) = DOMAIN over \cup DOMAIN m
         /\ \A k \in DOMAIN over : Overlay(m, over)[k] = over[k]
         /\ \A k \in DOMAIN m \ DOMAIN over : Overlay(m, over)[k] = m[k]
  BY DEF Overlay

LEMMA AssignmentIs ==
  ASSUME NEW values \in Assignments
  PROVE  /\ DOMAIN values \subseteq Columns
         /\ \A c \in DOMAIN values : values[c] \in Anything
<1>1. PICK S \in SUBSET Columns : values \in [S -> Anything]
  BY PolicyAssumption
<1> QED
  BY <1>1

(* The values an insert is completed with (compiler.py, guard_values): the *)
(* current value of every scope it does not name, of the value's type.     *)
LEMMA CompletedIs ==
  ASSUME policies \in Declarations, Accepted(policies),
         NEW e \in Snapshots, NEW values,
         DOMAIN values \subseteq Columns, \A c \in DOMAIN values : values[c] \in Anything,
         ~Unnamed(values, e)
  PROVE  LET written == Completed(values, e, TRUE, FALSE) IN
           /\ DOMAIN written \subseteq Columns
           /\ \A c \in DOMAIN written : written[c] \in Anything
           /\ \A s \in policies.partitions : s.field \in DOMAIN written
<1> DEFINE open == {s.field : s \in policies.partitions} \ DOMAIN values
           fill == [f \in open |-> e[(CHOOSE s \in policies.partitions : s.field = f).current]]
           written == Completed(values, e, TRUE, FALSE)
<1>1. written = Overlay(fill, values)
  BY DEF Completed
<1>2. \A f \in open : fill[f] \in Anything
  <2> SUFFICES ASSUME NEW f \in open
               PROVE  fill[f] \in Anything
    OBVIOUS
  <2> DEFINE s == CHOOSE t \in policies.partitions : t.field = f
  <2>1. s \in policies.partitions /\ s.field = f
    OBVIOUS
  <2>2. fill[f] = e[s.current]
    OBVIOUS
  <2> HIDE DEF s
  <2>3. HasCurrent(s, e) /\ s.current \in CurrentKeys
    BY <2>1, ScopeIs DEF Unnamed
  <2> QED
    BY <2>2, <2>3, SnapshotIs DEF HasCurrent
<1>3. open \subseteq Columns /\ DOMAIN fill = open
  BY ScopeIs
<1>4. \A s \in policies.partitions : s.field \in open \/ s.field \in DOMAIN values
  OBVIOUS
<1> HIDE DEF open, fill, written
<1>5. /\ DOMAIN Overlay(fill, values) = DOMAIN values \cup DOMAIN fill
      /\ \A k \in DOMAIN values : Overlay(fill, values)[k] = values[k]
      /\ \A k \in DOMAIN fill \ DOMAIN values : Overlay(fill, values)[k] = fill[k]
  BY ONLY OverlayIs, Zenon
<1>6. /\ DOMAIN written = DOMAIN values \cup open
      /\ \A k \in DOMAIN values : written[k] = values[k]
      /\ \A k \in open \ DOMAIN values : written[k] = fill[k]
  BY ONLY <1>1, <1>3, <1>5
<1> USE DEF written
<1> QED
  BY <1>2, <1>3, <1>4, <1>6

LEMMA GuardedIsOK ==
  ASSUME policies \in Declarations, Accepted(policies),
         NEW e \in Snapshots, NEW values, NEW insert \in BOOLEAN, NEW ignore \in BOOLEAN,
         DOMAIN values \subseteq Columns, \A c \in DOMAIN values : values[c] \in Anything,
         Guarded(values, e, insert, ignore)
  PROVE  /\ ValuesOK(Completed(values, e, insert, ignore), e, insert, ignore)
         /\ ~ignore => \A s \in policies.partitions : HasContext(s, e)
<1>1. CASE ignore
  BY <1>1 DEF ValuesOK, Completed
<1>2. CASE ~ignore /\ ~insert
  BY <1>2 DEF ValuesOK, Completed, Guarded
<1>3. CASE ~ignore /\ insert
  <2> DEFINE written == Completed(values, e, TRUE, FALSE)
  <2>1. /\ \A s \in policies.partitions : HasContext(s, e)
        /\ ~Unnamed(values, e)
        /\ \A s \in policies.partitions :
             s.field \in DOMAIN written => InActiveScope(s, e, written[s.field])
    BY <1>3 DEF Guarded
  <2>2. /\ DOMAIN written \subseteq Columns
        /\ \A c \in DOMAIN written : written[c] \in Anything
        /\ \A s \in policies.partitions : s.field \in DOMAIN written
    BY <2>1, CompletedIs
  <2> HIDE DEF written
  <2>3. ValuesOK(written, e, TRUE, FALSE)
    BY <2>1, <2>2 DEF ValuesOK
  <2> QED
    BY <1>3, <2>1, <2>3 DEF written
<1> QED
  BY <1>1, <1>2, <1>3

LEMMA StatementIsSound ==
  ASSUME NEW a \in Actors, NEW values, NEW ignore \in BOOLEAN, NEW hidden, NEW where,
         NEW kind \in {"insert", "update", "delete", "select"},
         where \subseteq Keys,
         hidden \subseteq {policies.draft_field, policies.logical_deletion_field} \ {NoField},
         ValuesOK(values, env[a], kind = "insert", ignore),
         ~ignore => \A s \in policies.partitions : HasContext(s, env[a])
  PROVE  SoundIn(Statement(a, kind, where, values, ignore, hidden), env[a])
  BY DEF SoundIn, Statement

-----------------------------------------------------------------------------
(* The invariant, one action at a time.                                    *)

LEMMA PoliciesInit ==
  ASSUME Init
  PROVE  PoliciesIInv
  BY DEF Init, PoliciesIInv

LEMMA KeepKeeps ==
  ASSUME PoliciesIInv, NEW a \in Actors, NEW q, Keep(a, q),
         q = None \/ \E e \in Snapshots : SoundIn(q, e)
  PROVE  PoliciesIInv'
<1>1. /\ policies' = policies /\ rows' = rows /\ env' = env
      /\ compiled' = [compiled EXCEPT ![a] = q]
  BY DEF Keep
<1>2. /\ policies' \in Declarations /\ Accepted(policies)'
      /\ \A k \in Keys : (rows[k] = None \/ RowOK(rows[k]))'
      /\ env' \in [Actors -> Snapshots]
  BY <1>1 DEF PoliciesIInv, Accepted, RowOK
<1>3. compiled' = [b \in Actors |-> compiled'[b]]
  BY <1>1 DEF PoliciesIInv
<1>4. ASSUME NEW b \in Actors
      PROVE  compiled'[b] = None \/ \E e \in Snapshots : SoundIn(compiled'[b], e)
  BY <1>1 DEF PoliciesIInv
<1>5. \A b \in Actors : compiled'[b] = None \/ \E e \in Snapshots : SoundIn(compiled[b], e)'
  <2> SUFFICES ASSUME NEW b \in Actors, compiled'[b] # None
               PROVE  \E e \in Snapshots : SoundIn(compiled[b], e)'
    OBVIOUS
  <2>1. PICK e \in Snapshots : SoundIn(compiled'[b], e)
    BY <1>4
  <2>2. SoundIn(compiled[b], e)'
    BY <1>1, <2>1 DEF SoundIn, ValuesOK, Conditions, BindingKeys
  <2> QED
    BY <2>2
<1> QED
  BY <1>2, <1>3, <1>5 DEF PoliciesIInv

LEMMA CompileInsertStep ==
  ASSUME PoliciesIInv, NEW a \in Actors, NEW k \in Keys,
         NEW values \in Assignments, NEW ignore \in BOOLEAN, CompileInsert(a, k, values, ignore)
  PROVE  PoliciesIInv'
<1> DEFINE written == Completed(values, env[a], TRUE, ignore)
           q == Statement(a, "insert", {k}, written, ignore, {})
<1>1. /\ policies \in Declarations /\ Accepted(policies) /\ env[a] \in Snapshots
      /\ Guarded(values, env[a], TRUE, ignore) /\ Keep(a, q)
  BY DEF PoliciesIInv, CompileInsert
<1>2. /\ ValuesOK(written, env[a], TRUE, ignore)
      /\ ~ignore => \A s \in policies.partitions : HasContext(s, env[a])
  BY <1>1, AssignmentIs, GuardedIsOK
<1> HIDE DEF written
<1>3. SoundIn(q, env[a])
  BY <1>2, StatementIsSound
<1> QED
  BY <1>1, <1>3, KeepKeeps

LEMMA UpdateStep ==
  ASSUME PoliciesIInv, NEW a \in Actors, NEW where \in SUBSET Keys,
         NEW values, DOMAIN values \subseteq Columns,
         \A c \in DOMAIN values : values[c] \in Anything,
         NEW ignore \in BOOLEAN, CompileUpdate(a, where, values, ignore)
  PROVE  PoliciesIInv'
<1> DEFINE q == Statement(a, "update", where, values, ignore, {})
<1>1. /\ policies \in Declarations /\ Accepted(policies) /\ env[a] \in Snapshots
      /\ Guarded(values, env[a], FALSE, ignore) /\ Keep(a, q)
  BY DEF PoliciesIInv, CompileUpdate
<1>2. Completed(values, env[a], FALSE, ignore) = values
  BY DEF Completed
<1>3. /\ ValuesOK(values, env[a], FALSE, ignore)
      /\ ~ignore => \A s \in policies.partitions : HasContext(s, env[a])
  BY <1>1, <1>2, GuardedIsOK
<1>4. SoundIn(q, env[a])
  BY <1>3, StatementIsSound
<1> QED
  BY <1>1, <1>4, KeepKeeps

LEMMA CompileUpdateStep ==
  ASSUME PoliciesIInv, NEW a \in Actors, NEW where \in SUBSET Keys,
         NEW values \in Assignments, NEW ignore \in BOOLEAN,
         CompileUpdate(a, where, values, ignore)
  PROVE  PoliciesIInv'
  BY AssignmentIs, UpdateStep

LEMMA CompileTombstoneStep ==
  ASSUME PoliciesIInv, NEW a \in Actors, NEW where \in SUBSET Keys,
         NEW value \in Anything, NEW ignore \in BOOLEAN,
         CompileTombstone(a, where, value, ignore)
  PROVE  PoliciesIInv'
<1> DEFINE field == policies.logical_deletion_field
           values == [f \in {field} |-> value]
<1>1. CompileUpdate(a, where, values, ignore) /\ field # NoField
  BY DEF CompileTombstone
<1>2. field \in Columns
  BY <1>1 DEF PoliciesIInv, Accepted
<1>3. DOMAIN values \subseteq Columns /\ \A c \in DOMAIN values : values[c] \in Anything
  BY <1>2
<1> HIDE DEF values
<1> QED
  BY <1>1, <1>3, UpdateStep

(* A delete and a select give no values.                                   *)
LEMMA NoValues ==
  ASSUME NEW e, NEW ignore
  PROVE  ValuesOK(<< >>, e, FALSE, ignore)
  BY DEF ValuesOK

LEMMA CompileDeleteStep ==
  ASSUME PoliciesIInv, NEW a \in Actors, NEW where \in SUBSET Keys,
         NEW ignore \in BOOLEAN, CompileDelete(a, where, ignore)
  PROVE  PoliciesIInv'
<1> DEFINE q == Statement(a, "delete", where, << >>, ignore, {})
<1>1. /\ ~ignore => \A s \in policies.partitions : HasContext(s, env[a])
      /\ Keep(a, q) /\ env[a] \in Snapshots
  BY DEF PoliciesIInv, CompileDelete
<1>2. SoundIn(q, env[a])
  BY <1>1, NoValues, StatementIsSound
<1> QED
  BY <1>1, <1>2, KeepKeeps

LEMMA CompileSelectStep ==
  ASSUME PoliciesIInv, NEW a \in Actors, NEW where \in SUBSET Keys,
         NEW draft \in BOOLEAN, NEW deleted \in BOOLEAN, NEW ignore \in BOOLEAN,
         CompileSelect(a, where, draft, deleted, ignore)
  PROVE  PoliciesIInv'
<1> DEFINE hidden == {f \in {policies.draft_field} : f # NoField /\ draft} \cup
                     {f \in {policies.logical_deletion_field} : f # NoField /\ deleted}
           q == Statement(a, "select", where, << >>, ignore, hidden)
<1>1. /\ ~ignore => \A s \in policies.partitions : HasContext(s, env[a])
      /\ Keep(a, q) /\ env[a] \in Snapshots
  BY DEF PoliciesIInv, CompileSelect
<1>2. hidden \subseteq {policies.draft_field, policies.logical_deletion_field} \ {NoField}
  OBVIOUS
<1> HIDE DEF hidden
<1>3. SoundIn(q, env[a])
  BY <1>1, <1>2, NoValues, StatementIsSound
<1> QED
  BY <1>1, <1>3, KeepKeeps

(* What an execution leaves under a key it touches is a whole row.         *)
LEMMA WrittenIsRow ==
  ASSUME NEW q, q.kind \in {"insert", "update", "delete", "select"},
         DOMAIN q.values \subseteq Columns, \A c \in DOMAIN q.values : q.values[c] \in Anything,
         NEW k \in Keys, rows[k] = None \/ RowOK(rows[k]),
         q.kind = "update" => rows[k] # None
  PROVE  Written(q, k) = None \/ RowOK(Written(q, k))
<1>1. CASE q.kind = "insert"
  <2> DEFINE blank == [c \in Columns |-> None]
  <2>1. DOMAIN blank = Columns /\ \A c \in Columns : blank[c] \in Anything
    BY DEF Anything
  <2> HIDE DEF blank
  <2>2. Written(q, k) = Overlay(blank, q.values)
    BY <1>1 DEF Written, blank
  <2> QED
    BY <2>1, <2>2 DEF Overlay, RowOK
<1>2. CASE q.kind = "update"
  BY <1>2 DEF Written, Overlay, RowOK
<1>3. CASE q.kind \in {"delete", "select"}
  BY <1>3 DEF Written
<1> QED
  BY <1>1, <1>2, <1>3

LEMMA ExecuteStep ==
  ASSUME PoliciesIInv, NEW a \in Actors, Execute(a)
  PROVE  PoliciesIInv'
<1> DEFINE q == compiled[a]
<1>1. /\ policies' = policies /\ env' = env /\ compiled' = compiled /\ q # None
      /\ \A k \in Keys : rows'[k] = rows[k] \/
           (rows'[k] = Written(q, k) /\ (q.kind = "insert" \/ k \in Reached(q)))
  BY DEF Execute
<1>2. PICK e \in Snapshots : SoundIn(q, e)
  BY <1>1 DEF PoliciesIInv
<1>3. ASSUME NEW k \in Keys
      PROVE  rows'[k] = None \/ RowOK(rows'[k])
  <2>1. rows[k] = None \/ RowOK(rows[k])
    BY DEF PoliciesIInv
  <2>2. CASE rows'[k] = Written(q, k) /\ (q.kind = "insert" \/ k \in Reached(q))
    <3>1. q.kind = "update" => rows[k] # None
      BY <2>2 DEF Reached
    <3> QED
      BY <1>2, <2>1, <2>2, <3>1, WrittenIsRow DEF SoundIn, ValuesOK
  <2> QED
    BY <1>1, <2>1, <2>2
<1>4. \A k \in Keys : (rows[k] = None \/ RowOK(rows[k]))'
  BY <1>3 DEF RowOK
<1>5. \A b \in Actors : (compiled[b] = None \/ \E f \in Snapshots : SoundIn(compiled[b], f))'
  BY <1>1, ZenonT(60) DEF PoliciesIInv, SoundIn, ValuesOK, Conditions, BindingKeys
<1> QED
  BY <1>1, <1>4, <1>5 DEF PoliciesIInv, Accepted

LEMMA ChangeStep ==
  ASSUME PoliciesIInv, NEW a \in Actors, NEW snapshot \in Snapshots,
         ChangeEnvironment(a, snapshot)
  PROVE  PoliciesIInv'
<1>1. /\ policies' = policies /\ rows' = rows /\ compiled' = compiled
      /\ env' \in [Actors -> Snapshots]
  BY DEF ChangeEnvironment, PoliciesIInv
<1>2. \A b \in Actors : (compiled[b] = None \/ \E f \in Snapshots : SoundIn(compiled[b], f))'
  BY <1>1, ZenonT(60) DEF PoliciesIInv, SoundIn, ValuesOK, Conditions, BindingKeys
<1> QED
  BY <1>1, <1>2 DEF PoliciesIInv, Accepted, RowOK

LEMMA PoliciesStep ==
  ASSUME PoliciesIInv, [Next]_vars
  PROVE  PoliciesIInv'
<1>1. CASE UNCHANGED vars
  BY <1>1, ZenonT(60) DEF vars, PoliciesIInv, Accepted, RowOK, SoundIn, ValuesOK, Conditions, BindingKeys
<1>2. CASE Next
  <2>1. PICK a \in Actors :
          \/ \E k \in Keys, values \in Assignments, ignore \in BOOLEAN :
               WellTyped(values) /\ CompileInsert(a, k, values, ignore)
          \/ \E where \in (SUBSET Keys) \ {{}}, values \in Assignments, ignore \in BOOLEAN :
               WellTyped(values) /\ CompileUpdate(a, where, values, ignore)
          \/ \E where \in (SUBSET Keys) \ {{}}, ignore \in BOOLEAN : CompileDelete(a, where, ignore)
          \/ \E where \in (SUBSET Keys) \ {{}}, value \in Anything, ignore \in BOOLEAN :
               CompileTombstone(a, where, value, ignore)
          \/ \E where \in (SUBSET Keys) \ {{}}, draft, deleted, ignore \in BOOLEAN :
               CompileSelect(a, where, draft, deleted, ignore)
          \/ Execute(a) \/ Drop(a)
          \/ \E snapshot \in Snapshots : ChangeEnvironment(a, snapshot)
    BY <1>2, Zenon DEF Next
  <2>2. CASE \E k \in Keys, values \in Assignments, ignore \in BOOLEAN :
               WellTyped(values) /\ CompileInsert(a, k, values, ignore)
    BY <2>2, CompileInsertStep
  <2>3. CASE \E where \in (SUBSET Keys) \ {{}}, values \in Assignments, ignore \in BOOLEAN :
               WellTyped(values) /\ CompileUpdate(a, where, values, ignore)
    BY <2>3, CompileUpdateStep
  <2>4. CASE \E where \in (SUBSET Keys) \ {{}}, ignore \in BOOLEAN :
               CompileDelete(a, where, ignore)
    BY <2>4, CompileDeleteStep
  <2>5. CASE \E where \in (SUBSET Keys) \ {{}}, value \in Anything, ignore \in BOOLEAN :
               CompileTombstone(a, where, value, ignore)
    BY <2>5, CompileTombstoneStep
  <2>6. CASE \E where \in (SUBSET Keys) \ {{}}, draft, deleted, ignore \in BOOLEAN :
               CompileSelect(a, where, draft, deleted, ignore)
    BY <2>6, CompileSelectStep
  <2>7. CASE Execute(a)
    BY <2>7, ExecuteStep
  <2>8. CASE Drop(a)
    BY <2>8, KeepKeeps DEF Drop
  <2>9. CASE \E snapshot \in Snapshots : ChangeEnvironment(a, snapshot)
    BY <2>9, ChangeStep
  <2> QED
    BY <2>1, <2>2, <2>3, <2>4, <2>5, <2>6, <2>7, <2>8, <2>9
<1> QED
  BY <1>1, <1>2

-----------------------------------------------------------------------------
(* What a statement that is still valid knows of its actor's environment.  *)
LEMMA ValidIsSound ==
  ASSUME PoliciesIInv, NEW a \in Actors, compiled[a] # None,
         Valid(compiled[a], env[a]), ~compiled[a].ignore
  PROVE  /\ SoundIn(compiled[a], env[a]) /\ compiled[a].ignore = FALSE
         /\ compiled[a].conditions = Conditions(env[a], FALSE)
         /\ \A s \in policies.partitions : HasContext(s, env[a])
         /\ \A k \in Keys : rows[k] # None =>
              (Satisfies(rows[k], compiled[a].conditions) <=> InScope(rows[k], env[a]))
<1>1. PICK e \in Snapshots : SoundIn(compiled[a], e)
  BY DEF PoliciesIInv
<1>2. env[a] \in Snapshots /\ policies \in Declarations /\ Accepted(policies)
  BY DEF PoliciesIInv
<1>3. SoundIn(compiled[a], env[a])
  BY <1>1, <1>2, StillSound
<1>4. /\ compiled[a].ignore = FALSE /\ compiled[a].conditions = Conditions(env[a], FALSE)
      /\ \A s \in policies.partitions : HasContext(s, env[a])
  BY <1>3 DEF SoundIn
<1>5. \A k \in Keys : rows[k] # None =>
        (Satisfies(rows[k], Conditions(env[a], FALSE)) <=> InScope(rows[k], env[a]))
  BY <1>2, <1>4, SatisfiesIsInScope DEF PoliciesIInv
<1> QED
  BY <1>3, <1>4, <1>5

(* The rows a query hides are those the visibility options name.           *)
LEMMA HiddenMeans ==
  ASSUME Accepted(policies), NEW row, NEW hidden,
         hidden \subseteq {policies.draft_field, policies.logical_deletion_field} \ {NoField}
  PROVE  ~Hidden(row, hidden) <=>
           /\ policies.draft_field \in hidden => row[policies.draft_field] # TRUE
           /\ policies.logical_deletion_field \in hidden =>
                row[policies.logical_deletion_field] = None
<1>1. policies.draft_field \in hidden =>
        policies.draft_field # policies.logical_deletion_field
  BY DEF Accepted
<1> QED
  BY <1>1 DEF Hidden

LEMMA ReachesStep ==
  ASSUME PoliciesIInv
  PROVE  ReachesItsScope
<1> SUFFICES ASSUME NEW a \in Actors, compiled[a] # None, Valid(compiled[a], env[a]),
                    ~compiled[a].ignore
             PROVE  Reached(compiled[a]) =
                      {k \in compiled[a].where \cap View(a) :
                         /\ policies.draft_field \in compiled[a].hidden =>
                              rows[k][policies.draft_field] # TRUE
                         /\ policies.logical_deletion_field \in compiled[a].hidden =>
                              rows[k][policies.logical_deletion_field] = None}
  BY DEF ReachesItsScope
<1> DEFINE q == compiled[a]
<1>1. /\ SoundIn(q, env[a])
      /\ \A k \in Keys : rows[k] # None =>
           (Satisfies(rows[k], q.conditions) <=> InScope(rows[k], env[a]))
  BY ValidIsSound
<1>2. /\ q.where \subseteq Keys
      /\ q.hidden \subseteq {policies.draft_field, policies.logical_deletion_field} \ {NoField}
  BY <1>1 DEF SoundIn
<1>3. \A k \in q.where : ~Hidden(rows[k], q.hidden) <=>
        /\ policies.draft_field \in q.hidden => rows[k][policies.draft_field] # TRUE
        /\ policies.logical_deletion_field \in q.hidden =>
             rows[k][policies.logical_deletion_field] = None
  BY <1>2, HiddenMeans DEF PoliciesIInv
<1> HIDE DEF q
<1>4. ASSUME NEW k \in q.where
      PROVE  (rows[k] # None /\ Satisfies(rows[k], q.conditions)) <=> k \in View(a)
  BY <1>1, <1>2, <1>4 DEF View
<1>5. \A k : k \in Reached(q) <=> (k \in q.where /\ k \in View(a) /\ ~Hidden(rows[k], q.hidden))
  BY <1>4 DEF Reached
<1> USE DEF q
<1> QED
  BY <1>3, <1>5

(* A write that does not ignore partitions keeps what it touches in scope. *)
LEMMA ExecuteInScope ==
  ASSUME PoliciesIInv, NEW a \in Actors, Execute(a), ~compiled[a].ignore,
         NEW k \in Keys, rows'[k] # rows[k]
  PROVE  /\ rows[k] # None => InScope(rows[k], env[a])
         /\ rows'[k] # None => InScope(rows'[k], env[a])
<1> DEFINE q == compiled[a]
<1>1. q # None /\ Valid(q, env[a])
  BY DEF Execute
<1>2. /\ SoundIn(q, env[a]) /\ q.ignore = FALSE
      /\ \A s \in policies.partitions : HasContext(s, env[a])
      /\ rows[k] # None => (Satisfies(rows[k], q.conditions) <=> InScope(rows[k], env[a]))
  BY <1>1, ValidIsSound
<1>3. /\ rows'[k] = Written(q, k)
      /\ q.kind = "insert" => rows[k] = None
      /\ q.kind # "insert" => k \in Reached(q)
  BY DEF Execute
<1>4. /\ q.kind \in {"insert", "update", "delete", "select"}
      /\ DOMAIN q.values \subseteq Columns
      /\ \A s \in policies.partitions :
           /\ q.kind = "insert" => s.field \in DOMAIN q.values
           /\ s.field \in DOMAIN q.values => InActiveScope(s, env[a], q.values[s.field])
  BY <1>2 DEF SoundIn, ValuesOK
<1> HIDE DEF q
<1>5. q.kind # "insert" => rows[k] # None /\ InScope(rows[k], env[a])
  BY <1>2, <1>3 DEF Reached
<1>6. ASSUME NEW row, \A s \in policies.partitions : InActiveScope(s, env[a], row[s.field])
      PROVE  InScope(row, env[a])
  BY <1>2, <1>6 DEF InScope, HasContext, ScopeKeys, InActiveScope, HasCurrent, HasAllowed
<1>7. q.kind # "insert" =>
        \A s \in policies.partitions : InActiveScope(s, env[a], rows[k][s.field])
  BY <1>5 DEF InScope, InActiveScope, HasCurrent, HasAllowed
<1>8. \A s \in policies.partitions : s.field \in Columns
  BY ScopeIs DEF PoliciesIInv
<1>9. CASE q.kind = "insert"
  <2> DEFINE blank == [c \in Columns |-> None]
             row == Overlay(blank, q.values)
  <2>1. \A s \in policies.partitions : row[s.field] = q.values[s.field]
    BY <1>4, <1>9 DEF Overlay
  <2>2. rows'[k] = row
    BY <1>3, <1>9 DEF Written
  <2> HIDE DEF row
  <2>3. InScope(row, env[a])
    BY <1>4, <1>6, <1>9, <2>1
  <2> QED
    BY <1>3, <1>9, <2>2, <2>3
<1>10. CASE q.kind = "update"
  <2> DEFINE row == Overlay(rows[k], q.values)
  <2>1. DOMAIN rows[k] = Columns
    BY <1>5, <1>10 DEF PoliciesIInv, RowOK
  <2>2. \A s \in policies.partitions :
          row[s.field] = IF s.field \in DOMAIN q.values THEN q.values[s.field]
                         ELSE rows[k][s.field]
    BY <1>8, <2>1 DEF Overlay
  <2>3. rows'[k] = row
    BY <1>3, <1>10 DEF Written
  <2> HIDE DEF row
  <2>4. \A s \in policies.partitions : InActiveScope(s, env[a], row[s.field])
    BY <1>4, <1>7, <1>10, <2>2
  <2>5. InScope(row, env[a])
    BY <1>6, <2>4
  <2> QED
    BY <1>5, <1>10, <2>3, <2>5
<1>11. CASE q.kind \in {"delete", "select"}
  BY <1>3, <1>5, <1>11 DEF Written
<1> QED
  BY <1>4, <1>9, <1>10, <1>11

-----------------------------------------------------------------------------
(* A compiled statement always carries the conditions, the guarded values  *)
(* and the binding of one environment its actor has been in, and rows are  *)
(* whole rows, for every table and every declaration that is accepted      *)
(* (compiler.py, class _Context; model.py, validate_row_policies).         *)
THEOREM PoliciesInvariance == Spec => []PoliciesIInv
<1>1. Init => PoliciesIInv
  BY PoliciesInit
<1>2. PoliciesIInv /\ [Next]_vars => PoliciesIInv'
  BY PoliciesStep
<1> QED
  BY <1>1, <1>2, PTL DEF Spec

(* A statement that may still be executed reaches exactly the rows of its  *)
(* condition that are in its actor's scope now and that its visibility     *)
(* options do not hide (compiler.py, partition_predicates,                 *)
(* environment_binding; contracts.py, EnvironmentBinding.validate).        *)
THEOREM StatementsReachTheirScope == Spec => []ReachesItsScope
<1>1. PoliciesIInv => ReachesItsScope
  BY ReachesStep
<1> QED
  BY <1>1, PoliciesInvariance, PTL

(* No write that does not ignore partitions takes a row into its actor's   *)
(* scope from outside or out of it (compiler.py, guard_values beside       *)
(* partition_predicates).                                                  *)
THEOREM WritesKeepToTheirScope == Spec => WritesStayInScope
<1>1. ASSUME PoliciesIInv
      PROVE  \A a \in Actors : Execute(a) /\ ~compiled[a].ignore =>
               \A k \in Keys : rows'[k] # rows[k] =>
                 /\ rows[k] # None => InScope(rows[k], env[a])
                 /\ rows'[k] # None => InScope(rows'[k], env[a])
  BY <1>1, ExecuteInScope
<1> QED
  BY <1>1, PoliciesInvariance, PTL DEF WritesStayInScope

-----------------------------------------------------------------------------
(***************************************************************************)
(* The statements of QueryRendering, for every query, every plan made by   *)
(* hand and every content of the table: accepted options make statements   *)
(* that run, count() counts what fetch() returns, the dialects agree.      *)
(***************************************************************************)
ClauseNames == {"select", "projection", "from", "where", "group", "having", "order", "limit", "offset",
                "update", "outer", "close"}
Entries == Exprs \cup AliasExprs \cup Int \cup BOOLEAN \cup {NotGiven}
AnyExprs == Perhaps(Exprs \cup AliasExprs)
Pieces == [clause : ClauseNames, e : Entries, comment : {FALSE}]

Outer == Plain("outer", NotGiven)
Close == Plain("close", NotGiven)

LEMMA TerminatedIs ==
  ASSUME NEW e \in Exprs \cup AliasExprs
  PROVE  /\ Terminated(e) \in Exprs \cup AliasExprs /\ Terminated(e).comment = FALSE
         /\ e \in Exprs => Terminated(e) \in Exprs /\ Terminated(e).column = e.column
         /\ e \in AliasExprs => Terminated(e).position = e.position
         /\ Terminated(e).kind = e.kind
BY DEF Terminated, Exprs, AliasExprs

LEMMA GivenIs ==
  /\ \A e \in Exprs \cup AliasExprs : e # NotGiven
  /\ \A n \in Int : n # NotGiven
BY RenderingAssumption

(* What a statement says, clause by clause, whatever it is nested in.      *)
Gives(s, clause, v) == (Has(s, clause) <=> v # NotGiven) /\ (v # NotGiven => Only(s, clause) = v)
GivesExpr(s, clause, e) ==
  (Has(s, clause) <=> e # NotGiven) /\ (e # NotGiven => Only(s, clause) = Terminated(e))
Says(s, p) ==
  /\ Has(s, "from") /\ Only(s, "select") = p.distinct
  /\ GivesExpr(s, "where", p.where) /\ GivesExpr(s, "group", p.group)
  /\ GivesExpr(s, "having", p.having) /\ GivesExpr(s, "order", p.order)
  /\ Gives(s, "limit", p.limit) /\ Gives(s, "offset", p.offset)
  /\ Has(s, "update") <=> p.forUpdate
  /\ Projected(s) = [k \in 1..Len(p.projections) |-> Terminated(p.projections[k])]

-----------------------------------------------------------------------------
(* The pieces of a statement.                                              *)
Optional(clause, e) == IF e = NotGiven THEN {} ELSE {Piece(clause, Terminated(e))}
Number(clause, v) == IF v = NotGiven THEN {} ELSE {Plain(clause, v)}
ClausePieces(p) ==
  {Plain("from", NotGiven)}
  \cup Optional("where", p.where) \cup Optional("group", p.group)
  \cup Optional("having", p.having) \cup Optional("order", p.order)
  \cup Number("limit", p.limit) \cup Number("offset", p.offset)
  \cup (IF p.forUpdate THEN {Plain("update", NotGiven)} ELSE {})

LEMMA OneIs ==
  ASSUME NEW S, NEW x \in S
  PROVE  /\ <<x>> \in Seq(S) /\ Range(<<x>>) = {x} /\ Len(<<x>>) = 1 /\ <<x>>[1] = x
<1>1. <<x>> \in Seq(S) /\ Len(<<x>>) = 1 /\ DOMAIN <<x>> = 1..1 /\ <<x>>[1] = x
  OBVIOUS
<1>2. Range(<<x>>) = {x}
  BY <1>1 DEF Range
<1> QED
  BY <1>1, <1>2

LEMMA NoneIs ==
  ASSUME NEW S
  PROVE  << >> \in Seq(S) /\ Range(<< >>) = {}
BY EmptySeq DEF Range

LEMMA PlainIs ==
  ASSUME NEW clause \in ClauseNames, NEW v \in Entries
  PROVE  /\ Plain(clause, v) \in Pieces
         /\ Plain(clause, v).clause = clause /\ Plain(clause, v).e = v
BY DEF Plain, Pieces

LEMMA PieceIs ==
  ASSUME NEW clause \in ClauseNames, NEW e \in Exprs \cup AliasExprs
  PROVE  /\ Piece(clause, Terminated(e)) \in Pieces
         /\ Piece(clause, Terminated(e)).clause = clause
         /\ Piece(clause, Terminated(e)).e = Terminated(e)
<1>1. Terminated(e) \in Exprs \cup AliasExprs /\ Terminated(e).comment = FALSE
  BY TerminatedIs
<1> QED
  BY <1>1 DEF Piece, Pieces, Entries

LEMMA ClauseIs ==
  ASSUME NEW clause \in ClauseNames, NEW e \in AnyExprs
  PROVE  Clause(clause, e) \in Seq(Pieces) /\ Range(Clause(clause, e)) = Optional(clause, e)
<1>1. CASE e = NotGiven
  BY <1>1, NoneIs DEF Clause, Optional
<1>2. CASE e # NotGiven
  <2>1. Piece(clause, Terminated(e)) \in Pieces
    BY <1>2, PieceIs DEF AnyExprs, Perhaps
  <2> QED
    BY <1>2, <2>1, OneIs DEF Clause, Optional
<1> QED
  BY <1>1, <1>2

LEMMA PageClauseIs ==
  ASSUME NEW clause \in ClauseNames, NEW v \in Perhaps(Int)
  PROVE  PageClause(clause, v) \in Seq(Pieces) /\ Range(PageClause(clause, v)) = Number(clause, v)
<1>1. CASE v = NotGiven
  BY <1>1, NoneIs DEF PageClause, Number
<1>2. CASE v # NotGiven
  <2>1. Plain(clause, v) \in Pieces
    BY <1>2, PlainIs DEF Perhaps, Entries
  <2> QED
    BY <1>2, <2>1, OneIs DEF PageClause, Number
<1> QED
  BY <1>1, <1>2

LEMMA ClausesAre ==
  ASSUME NEW p \in PlanRecords
  PROVE  Clauses(p) \in Seq(Pieces) /\ Range(Clauses(p)) = ClausePieces(p)
<1>1. /\ {p.where, p.group, p.having, p.order} \subseteq AnyExprs
      /\ {p.limit, p.offset} \subseteq Perhaps(Int)
  BY DEF PlanRecords, AnyExprs, Perhaps
<1> DEFINE from == <<Plain("from", NotGiven)>>
           update == IF p.forUpdate THEN <<Plain("update", NotGiven)>> ELSE << >>
<1>2. from \in Seq(Pieces) /\ Range(from) = {Plain("from", NotGiven)}
  <2>1. Plain("from", NotGiven) \in Pieces
    BY PlainIs DEF ClauseNames, Entries
  <2> QED
    BY <2>1, OneIs
<1>3. /\ update \in Seq(Pieces)
      /\ Range(update) = IF p.forUpdate THEN {Plain("update", NotGiven)} ELSE {}
  <2>1. Plain("update", NotGiven) \in Pieces
    BY PlainIs DEF ClauseNames, Entries
  <2> QED
    BY <2>1, OneIs, NoneIs
<1>4. PICK where, group, having, order \in Seq(Pieces) :
        /\ where = Clause("where", p.where) /\ Range(where) = Optional("where", p.where)
        /\ group = Clause("group", p.group) /\ Range(group) = Optional("group", p.group)
        /\ having = Clause("having", p.having) /\ Range(having) = Optional("having", p.having)
        /\ order = Clause("order", p.order) /\ Range(order) = Optional("order", p.order)
  <2>1. \A clause \in {"where", "group", "having", "order"}, e \in AnyExprs :
          Clause(clause, e) \in Seq(Pieces) /\ Range(Clause(clause, e)) = Optional(clause, e)
    BY ClauseIs DEF ClauseNames
  <2>2. /\ Clause("where", p.where) \in Seq(Pieces) /\ Clause("group", p.group) \in Seq(Pieces)
        /\ Clause("having", p.having) \in Seq(Pieces) /\ Clause("order", p.order) \in Seq(Pieces)
        /\ Range(Clause("where", p.where)) = Optional("where", p.where)
        /\ Range(Clause("group", p.group)) = Optional("group", p.group)
        /\ Range(Clause("having", p.having)) = Optional("having", p.having)
        /\ Range(Clause("order", p.order)) = Optional("order", p.order)
    BY <1>1, <2>1
  <2> QED
    BY <2>2
<1>5. PICK limit, offset \in Seq(Pieces) :
        /\ limit = PageClause("limit", p.limit) /\ Range(limit) = Number("limit", p.limit)
        /\ offset = PageClause("offset", p.offset) /\ Range(offset) = Number("offset", p.offset)
  <2>1. \A clause \in {"limit", "offset"}, v \in Perhaps(Int) :
          PageClause(clause, v) \in Seq(Pieces) /\ Range(PageClause(clause, v)) = Number(clause, v)
    BY PageClauseIs DEF ClauseNames
  <2>2. /\ PageClause("limit", p.limit) \in Seq(Pieces)
        /\ Range(PageClause("limit", p.limit)) = Number("limit", p.limit)
        /\ PageClause("offset", p.offset) \in Seq(Pieces)
        /\ Range(PageClause("offset", p.offset)) = Number("offset", p.offset)
    BY <1>1, <2>1
  <2> QED
    BY <2>2
<1> HIDE DEF from, update
<1> DEFINE Joins(s, t) == s \o t \in Seq(Pieces) /\ Range(s \o t) = Range(s) \cup Range(t)
<1>15. \A s, t \in Seq(Pieces) : Joins(s, t)
  BY ConcatProperties, RangeConcatenation
<1>6. PICK s1 \in Seq(Pieces) : s1 = from \o where /\ Range(s1) = Range(from) \cup Range(where)
  BY <1>2, <1>4, <1>15
<1>7. PICK s2 \in Seq(Pieces) : s2 = s1 \o group /\ Range(s2) = Range(s1) \cup Range(group)
  BY <1>4, <1>15
<1>8. PICK s3 \in Seq(Pieces) : s3 = s2 \o having /\ Range(s3) = Range(s2) \cup Range(having)
  BY <1>4, <1>15
<1>9. PICK s4 \in Seq(Pieces) : s4 = s3 \o order /\ Range(s4) = Range(s3) \cup Range(order)
  BY <1>4, <1>15
<1>10. PICK s5 \in Seq(Pieces) : s5 = s4 \o limit /\ Range(s5) = Range(s4) \cup Range(limit)
  BY <1>5, <1>15
<1>11. PICK s6 \in Seq(Pieces) : s6 = s5 \o offset /\ Range(s6) = Range(s5) \cup Range(offset)
  BY <1>5, <1>15
<1>12. s6 \o update \in Seq(Pieces) /\ Range(s6 \o update) = Range(s6) \cup Range(update)
  BY <1>3, <1>15
<1>13. Clauses(p) = s6 \o update
  BY <1>4, <1>5, <1>6, <1>7, <1>8, <1>9, <1>10, <1>11 DEF Clauses, from, update
<1>14. Range(s6 \o update) = ClausePieces(p)
  <2>1. Range(s3) = Range(from) \cup Range(where) \cup Range(group) \cup Range(having)
    BY <1>6, <1>7, <1>8
  <2>2. Range(s6) = Range(s3) \cup Range(order) \cup Range(limit) \cup Range(offset)
    BY <1>9, <1>10, <1>11
  <2>3. Range(s6 \o update)
          = Range(from) \cup Range(where) \cup Range(group) \cup Range(having) \cup Range(order)
            \cup Range(limit) \cup Range(offset) \cup Range(update)
    BY <1>12, <2>1, <2>2
  <2> QED
    BY <1>2, <1>3, <1>4, <1>5, <2>3, Zenon DEF ClausePieces
<1> QED
  BY <1>12, <1>13, <1>14

LEMMA ProjectionsAre ==
  ASSUME NEW p \in PlanRecords
  PROVE  /\ Len(p.projections) \in Nat /\ Projections(p) \in Seq(Pieces)
         /\ Len(Projections(p)) = Len(p.projections)
         /\ \A k \in 1..Len(p.projections) :
              /\ p.projections[k] \in Exprs
              /\ Projections(p)[k].clause = "projection"
              /\ Projections(p)[k].e = Terminated(p.projections[k])
<1>1. /\ p.projections \in Seq(Exprs) /\ Len(p.projections) \in Nat
      /\ DOMAIN p.projections = 1..Len(p.projections)
      /\ \A k \in 1..Len(p.projections) : p.projections[k] \in Exprs
  BY LenProperties, ElementOfSeq DEF PlanRecords
<1>2. \A k \in 1..Len(p.projections) :
        /\ Piece("projection", Terminated(p.projections[k])) \in Pieces
        /\ Piece("projection", Terminated(p.projections[k])).clause = "projection"
        /\ Piece("projection", Terminated(p.projections[k])).e = Terminated(p.projections[k])
  BY <1>1, PieceIs DEF ClauseNames
<1>3. Projections(p) \in [1..Len(p.projections) -> Pieces]
  BY <1>1, <1>2 DEF Projections
<1>4. Projections(p) \in Seq(Pieces)
  BY <1>1, <1>3, IsASeq
<1>5. Len(Projections(p)) = Len(p.projections)
  BY <1>1, <1>3, <1>4, LenProperties
<1> QED
  BY <1>1, <1>2, <1>4, <1>5 DEF Projections

(* Where the elements of a concatenation stand. *)
IsJoined(s, a, b) ==
  /\ s = a \o b /\ Range(s) = Range(a) \cup Range(b) /\ Len(s) = Len(a) + Len(b)
  /\ \A i \in 1..Len(a) : s[i] = a[i]
  /\ \A i \in 1..Len(b) : s[Len(a) + i] = b[i]

LEMMA Joined ==
  ASSUME NEW S, NEW a \in Seq(S), NEW b \in Seq(S)
  PROVE  \E s \in Seq(S) : IsJoined(s, a, b)
<1>1. PICK s \in Seq(S) : s = a \o b
  BY ConcatProperties
<1>2. /\ Len(s) = Len(a) + Len(b)
      /\ \A i \in 1..Len(a) + Len(b) : s[i] = IF i <= Len(a) THEN a[i] ELSE b[i - Len(a)]
  BY <1>1, ConcatProperties
<1>3. Len(a) \in Nat /\ Len(b) \in Nat
  BY LenProperties
<1>4. \A i \in 1..Len(b) : s[Len(a) + i] = b[i]
  <2> TAKE i \in 1..Len(b)
  <2>1. Len(a) + i \in 1..Len(a) + Len(b) /\ ~(Len(a) + i <= Len(a)) /\ Len(a) + i - Len(a) = i
    BY <1>3
  <2> QED
    BY <1>2, <2>1
<1>5. \A i \in 1..Len(a) : s[i] = a[i]
  BY <1>2, <1>3
<1>6. Range(s) = Range(a) \cup Range(b)
  BY <1>1, RangeConcatenation
<1> QED
  BY <1>1, <1>2, <1>4, <1>5, <1>6 DEF IsJoined

LEMMA SelectIs ==
  ASSUME NEW p \in PlanRecords, NEW clauses \in Seq(Pieces), NEW head \in Seq(Pieces),
         \A x \in Range(head) \cup Range(clauses) : x.clause # "projection"
  PROVE  LET s == head \o Projections(p) \o clauses
         IN  /\ s \in Seq(Pieces)
             /\ Range(s) = Range(head) \cup Range(Projections(p)) \cup Range(clauses)
             /\ Projected(s) = [k \in 1..Len(p.projections) |-> Terminated(p.projections[k])]
<1>1. PICK n \in Nat, projections \in Seq(Pieces) :
        /\ n = Len(p.projections) /\ projections = Projections(p) /\ Len(projections) = n
        /\ \A k \in 1..n : /\ projections[k].clause = "projection"
                          /\ projections[k].e = Terminated(p.projections[k])
  BY ProjectionsAre
<1>2. PICK m \in Nat, l \in Nat :
        m = Len(head) /\ DOMAIN head = 1..m /\ l = Len(clauses) /\ DOMAIN clauses = 1..l
  BY LenProperties
<1>3. PICK t \in Seq(Pieces) :
        /\ t = head \o projections /\ Range(t) = Range(head) \cup Range(projections) /\ Len(t) = m + n
        /\ \A i \in 1..m : t[i] = head[i]
        /\ \A i \in 1..n : t[m + i] = projections[i]
  <2>1. PICK s \in Seq(Pieces) : IsJoined(s, head, projections)
    BY Joined
  <2> QED
    BY <1>1, <1>2, <2>1 DEF IsJoined
<1>4. PICK s \in Seq(Pieces) :
        /\ s = t \o clauses /\ Range(s) = Range(t) \cup Range(clauses) /\ Len(s) = (m + n) + l
        /\ \A i \in 1..m + n : s[i] = t[i]
        /\ \A i \in 1..l : s[(m + n) + i] = clauses[i]
  <2>1. PICK u \in Seq(Pieces) : IsJoined(u, t, clauses)
    BY Joined
  <2>2. /\ u = t \o clauses /\ Range(u) = Range(t) \cup Range(clauses)
        /\ Len(u) = (m + n) + l /\ \A i \in 1..m + n : u[i] = t[i]
    BY <1>2, <1>3, <2>1 DEF IsJoined
  <2>3. \A i \in 1..l : u[(m + n) + i] = clauses[i]
    BY <1>2, <1>3, <2>1 DEF IsJoined
  <2> QED
    BY <2>2, <2>3
<1>5. DOMAIN s = 1..(m + n) + l
  BY <1>4, LenProperties
<1>6. \A i \in 1..m : s[i].clause # "projection"
  <2> TAKE i \in 1..m
  <2>1. s[i] = head[i]
    BY <1>3, <1>4
  <2> QED
    BY <1>2, <2>1 DEF Range
<1>7. \A i \in 1..l : s[(m + n) + i].clause # "projection"
  <2> TAKE i \in 1..l
  <2>1. s[(m + n) + i] = clauses[i]
    BY <1>4
  <2> QED
    BY <1>2, <2>1 DEF Range
<1>8. \A k \in 1..n : s[m + k].clause = "projection" /\ s[m + k].e = Terminated(p.projections[k])
  <2> TAKE k \in 1..n
  <2>1. s[m + k] = projections[k]
    BY <1>3, <1>4
  <2> QED
    BY <1>1, <2>1
<1> DEFINE at == PositionsOf(s, "projection")
<1>9. at = m + 1..m + n
  <2>1. ASSUME NEW i \in DOMAIN s, s[i].clause = "projection"
        PROVE  i \in m + 1..m + n
    <3>1. i \notin 1..m
      BY <1>6, <2>1
    <3>2. ASSUME i > m + n
          PROVE  FALSE
      <4>1. i - (m + n) \in 1..l /\ i = (m + n) + (i - (m + n))
        BY <1>5, <3>2
      <4> QED
        BY <1>7, <2>1, <4>1
    <3> QED
      BY <1>5, <3>1, <3>2
  <2>2. ASSUME NEW i \in m + 1..m + n
        PROVE  i \in DOMAIN s /\ s[i].clause = "projection"
    <3>1. i - m \in 1..n /\ i = m + (i - m) /\ i \in DOMAIN s
      BY <1>5, <2>2
    <3> QED
      BY <1>8, <3>1
  <2> QED
    BY <2>1, <2>2 DEF PositionsOf
<1>10. Cardinality(at) = n
  <2>1. Cardinality(m + 1..m + n) = IF m + 1 > m + n THEN 0 ELSE m + n - (m + 1) + 1
    BY FS_Interval
  <2> QED
    BY <1>9, <2>1
<1>11. ASSUME n # 0
       PROVE  Min(at) = m + 1
  <2>1. m + 1 \in at /\ \A i \in at : m + 1 <= i
    BY <1>9, <1>11
  <2>2. \A i \in at : (\A j \in at : i <= j) => i = m + 1
    BY <1>9, <2>1
  <2> HIDE DEF at
  <2> QED
    BY <2>1, <2>2 DEF Min
<1>12. \A k \in 1..n : s[Min(at) + k - 1].e = Terminated(p.projections[k])
  <2> TAKE k \in 1..n
  <2>1. Min(at) + k - 1 = m + k
    BY <1>11
  <2> QED
    BY <1>8, <2>1
<1>13. Projected(s) = [k \in 1..n |-> Terminated(p.projections[k])]
  BY <1>10, <1>12 DEF Projected
<1> QED
  BY <1>1, <1>3, <1>4, <1>13

-----------------------------------------------------------------------------
(* What is read from a statement depends on its pieces alone.              *)
LEMMA Reading ==
  ASSUME NEW s \in Seq(Pieces), NEW clause
  PROVE  /\ Has(s, clause) <=> \E x \in Range(s) : x.clause = clause
         /\ Has(s, clause) => \E x \in Range(s) : x.clause = clause /\ Only(s, clause) = x.e
<1>1. Has(s, clause) <=> \E x \in Range(s) : x.clause = clause
  BY DEF Has, PositionsOf, Range
<1>2. ASSUME Has(s, clause)
      PROVE  \E x \in Range(s) : x.clause = clause /\ Only(s, clause) = x.e
  <2>1. PICK k : k = CHOOSE i \in PositionsOf(s, clause) : TRUE
    OBVIOUS
  <2>2. k \in PositionsOf(s, clause)
    BY <1>2, <2>1 DEF Has
  <2>3. k \in DOMAIN s /\ s[k].clause = clause /\ Only(s, clause) = s[k].e
    BY <2>1, <2>2 DEF PositionsOf, Only
  <2> QED
    BY <2>3 DEF Range
<1> QED
  BY <1>1, <1>2

LEMMA OptionalIs ==
  ASSUME NEW clause \in ClauseNames, NEW e \in AnyExprs
  PROVE  /\ \A x \in Optional(clause, e) :
              x.clause = clause /\ x.e = Terminated(e) /\ e # NotGiven
         /\ e # NotGiven => \E x \in Optional(clause, e) : x.clause = clause
<1>1. CASE e = NotGiven
  BY <1>1 DEF Optional
<1>2. CASE e # NotGiven
  <2>1. e \in Exprs \cup AliasExprs
    BY <1>2 DEF AnyExprs, Perhaps
  <2>2. Piece(clause, Terminated(e)).clause = clause /\ Piece(clause, Terminated(e)).e = Terminated(e)
    BY <2>1, PieceIs
  <2> QED
    BY <1>2, <2>2 DEF Optional
<1> QED
  BY <1>1, <1>2

LEMMA NumberIs ==
  ASSUME NEW clause \in ClauseNames, NEW v \in Perhaps(Int)
  PROVE  /\ \A x \in Number(clause, v) : x.clause = clause /\ x.e = v /\ v # NotGiven
         /\ v # NotGiven => \E x \in Number(clause, v) : x.clause = clause
<1>1. Plain(clause, v).clause = clause /\ Plain(clause, v).e = v
  BY DEF Plain
<1>2. CASE v = NotGiven
  BY <1>2 DEF Number
<1>3. CASE v # NotGiven
  BY <1>1, <1>3 DEF Number
<1> QED
  BY <1>2, <1>3

(* A clause is read from the pieces that have its name. *)
LEMMA ReadsExpr ==
  ASSUME NEW s \in Seq(Pieces), NEW clause \in ClauseNames, NEW e \in AnyExprs,
         {x \in Range(s) : x.clause = clause} = Optional(clause, e)
  PROVE  GivesExpr(s, clause, e)
<1>1. /\ \A x \in Range(s) : x.clause = clause => x.e = Terminated(e) /\ e # NotGiven
      /\ e # NotGiven => \E x \in Range(s) : x.clause = clause
  BY OptionalIs
<1> QED
  BY <1>1, Reading DEF GivesExpr

LEMMA ReadsNumber ==
  ASSUME NEW s \in Seq(Pieces), NEW clause \in ClauseNames, NEW v \in Perhaps(Int),
         {x \in Range(s) : x.clause = clause} = Number(clause, v)
  PROVE  Gives(s, clause, v)
<1>1. /\ \A x \in Range(s) : x.clause = clause => x.e = v /\ v # NotGiven
      /\ v # NotGiven => \E x \in Range(s) : x.clause = clause
  BY NumberIs
<1> QED
  BY <1>1, Reading DEF Gives

Named(S, clause) == {x \in S : x.clause = clause}

LEMMA NamedClauses ==
  ASSUME NEW p \in PlanRecords
  PROVE  /\ Named(ClausePieces(p), "where") = Optional("where", p.where)
         /\ Named(ClausePieces(p), "group") = Optional("group", p.group)
         /\ Named(ClausePieces(p), "having") = Optional("having", p.having)
         /\ Named(ClausePieces(p), "order") = Optional("order", p.order)
         /\ Named(ClausePieces(p), "limit") = Number("limit", p.limit)
         /\ Named(ClausePieces(p), "offset") = Number("offset", p.offset)
         /\ Named(ClausePieces(p), "from") # {}
         /\ Named(ClausePieces(p), "update") # {} <=> p.forUpdate
         /\ \A clause \in {"select", "projection", "outer", "close"} : Named(ClausePieces(p), clause) = {}
<1>1. /\ {p.where, p.group, p.having, p.order} \subseteq AnyExprs
      /\ {p.limit, p.offset} \subseteq Perhaps(Int)
  BY DEF PlanRecords, AnyExprs, Perhaps
<1>2. \A e \in AnyExprs :
        /\ \A x \in Optional("where", e) : x.clause = "where"
        /\ \A x \in Optional("group", e) : x.clause = "group"
        /\ \A x \in Optional("having", e) : x.clause = "having"
        /\ \A x \in Optional("order", e) : x.clause = "order"
  <2> TAKE e \in AnyExprs
  <2>1. \A clause \in {"where", "group", "having", "order"} : \A x \in Optional(clause, e) : x.clause = clause
    BY OptionalIs DEF ClauseNames
  <2> QED
    BY <2>1
<1>3. \A v \in Perhaps(Int) : /\ \A x \in Number("limit", v) : x.clause = "limit"
                             /\ \A x \in Number("offset", v) : x.clause = "offset"
  BY NumberIs DEF ClauseNames
<1>4. PICK from, update : /\ from = Plain("from", NotGiven) /\ from.clause = "from"
                          /\ update = Plain("update", NotGiven) /\ update.clause = "update"
  <2>1. Plain("from", NotGiven).clause = "from" /\ Plain("update", NotGiven).clause = "update"
    BY DEF Plain
  <2> QED
    BY <2>1
<1>5. PICK where, group, having, order :
        /\ where = Optional("where", p.where) /\ group = Optional("group", p.group)
        /\ having = Optional("having", p.having) /\ order = Optional("order", p.order)
        /\ \A x \in where : x.clause = "where"
        /\ \A x \in group : x.clause = "group"
        /\ \A x \in having : x.clause = "having"
        /\ \A x \in order : x.clause = "order"
  BY <1>1, <1>2
<1>6. PICK limit, offset :
        /\ limit = Number("limit", p.limit) /\ offset = Number("offset", p.offset)
        /\ \A x \in limit : x.clause = "limit"
        /\ \A x \in offset : x.clause = "offset"
  BY <1>1, <1>3
<1>7. ClausePieces(p) = {from} \cup where \cup group \cup having \cup order \cup limit \cup offset
                        \cup (IF p.forUpdate THEN {update} ELSE {})
  BY <1>4, <1>5, <1>6 DEF ClausePieces
<1> QED
  BY <1>4, <1>5, <1>6, <1>7 DEF Named

LEMMA StatementSays ==
  ASSUME NEW p \in PlanRecords, NEW head \in Seq(Pieces), NEW clauses \in Seq(Pieces),
         NEW nested \in BOOLEAN,
         Range(head) = {Plain("select", p.distinct)} \cup (IF nested THEN {Outer} ELSE {}),
         Range(clauses) = ClausePieces(p) \cup (IF nested THEN {Close} ELSE {})
  PROVE  LET s == head \o Projections(p) \o clauses
         IN  /\ s \in Seq(Pieces) /\ Says(s, p)
             /\ Has(s, "outer") <=> nested
             /\ Has(s, "close") <=> nested
<1> DEFINE select == Plain("select", p.distinct)
<1>1. /\ select.clause = "select" /\ select.e = p.distinct
      /\ Outer.clause = "outer" /\ Close.clause = "close"
  BY DEF Plain, Outer, Close
<1> HIDE DEF select
<1>2. /\ Named(Range(head), "select") = {select}
      /\ \A clause \in ClauseNames \ {"select", "outer"} : Named(Range(head), clause) = {}
      /\ Named(Range(head), "outer") # {} <=> nested
  BY <1>1 DEF Named, select
<1>3. /\ \A clause \in ClauseNames \ {"close"} : Named(Range(clauses), clause) = Named(ClausePieces(p), clause)
      /\ Named(Range(clauses), "close") # {} <=> nested
  <2>1. Named(ClausePieces(p), "close") = {}
    BY NamedClauses
  <2> QED
    BY <1>1, <2>1 DEF Named
<1>4. \A x \in Range(Projections(p)) : x.clause = "projection"
  BY ProjectionsAre, LenProperties DEF Range
<1>5. \A x \in Range(head) \cup Range(clauses) : x.clause # "projection"
  <2>1. Named(Range(head), "projection") = {} /\ Named(Range(clauses), "projection") = {}
    BY <1>2, <1>3, NamedClauses DEF ClauseNames
  <2> QED
    BY <2>1 DEF Named
<1>6. PICK s \in Seq(Pieces) :
        /\ s = head \o Projections(p) \o clauses
        /\ Range(s) = Range(head) \cup Range(Projections(p)) \cup Range(clauses)
        /\ Projected(s) = [k \in 1..Len(p.projections) |-> Terminated(p.projections[k])]
  BY <1>5, SelectIs
<1>7. \A clause \in ClauseNames \ {"projection"} :
        Named(Range(s), clause) = Named(Range(head), clause) \cup Named(Range(clauses), clause)
  BY <1>4, <1>6 DEF Named
<1>8. \A clause \in {"from", "where", "group", "having", "order", "limit", "offset", "update"} :
        Named(Range(s), clause) = Named(ClausePieces(p), clause)
  <2> TAKE clause \in {"from", "where", "group", "having", "order", "limit", "offset", "update"}
  <2>1. clause \in ClauseNames \ {"select", "projection", "outer", "close"}
    BY DEF ClauseNames
  <2>2. Named(Range(head), clause) = {} /\ Named(Range(clauses), clause) = Named(ClausePieces(p), clause)
    BY <1>2, <1>3, <2>1
  <2> QED
    BY <1>7, <2>1, <2>2
<1>9. \A clause \in ClauseNames : Has(s, clause) <=> Named(Range(s), clause) # {}
  BY Reading DEF Named
<1>10. /\ {p.where, p.group, p.having, p.order} \subseteq AnyExprs
       /\ {p.limit, p.offset} \subseteq Perhaps(Int)
  BY DEF PlanRecords, AnyExprs, Perhaps
<1>11. \A clause \in ClauseNames, e \in AnyExprs :
         Named(Range(s), clause) = Optional(clause, e) => GivesExpr(s, clause, e)
  BY ReadsExpr DEF Named
<1>12. \A clause \in ClauseNames, v \in Perhaps(Int) :
         Named(Range(s), clause) = Number(clause, v) => Gives(s, clause, v)
  BY ReadsNumber DEF Named
<1>13. GivesExpr(s, "where", p.where) /\ GivesExpr(s, "group", p.group)
  BY <1>8, <1>10, <1>11, NamedClauses DEF ClauseNames
<1>14. GivesExpr(s, "having", p.having) /\ GivesExpr(s, "order", p.order)
  BY <1>8, <1>10, <1>11, NamedClauses DEF ClauseNames
<1>15. Gives(s, "limit", p.limit) /\ Gives(s, "offset", p.offset)
  BY <1>8, <1>10, <1>12, NamedClauses DEF ClauseNames
<1>16. Has(s, "from") /\ (Has(s, "update") <=> p.forUpdate)
  BY <1>8, <1>9, NamedClauses DEF ClauseNames
<1>17. Only(s, "select") = p.distinct
  <2>1. Named(Range(s), "select") = {select}
    <3>1. Named(ClausePieces(p), "select") = {}
      BY NamedClauses
    <3>2. Named(Range(clauses), "select") = {}
      BY <1>3, <3>1 DEF ClauseNames
    <3> QED
      BY <1>2, <1>7, <3>2 DEF ClauseNames
  <2> QED
    BY <1>1, <2>1, Reading DEF Named
<1>18. (Has(s, "outer") <=> nested) /\ (Has(s, "close") <=> nested)
  <2>1. Named(ClausePieces(p), "outer") = {}
    BY NamedClauses
  <2>2. /\ "outer" \in ClauseNames \ {"projection"} /\ "outer" \in ClauseNames \ {"close"}
        /\ "close" \in ClauseNames \ {"projection"} /\ "close" \in ClauseNames \ {"select", "outer"}
    BY DEF ClauseNames
  <2>3. Named(Range(s), "outer") = Named(Range(head), "outer")
    BY <1>3, <1>7, <2>1, <2>2
  <2>4. Named(Range(s), "close") = Named(Range(clauses), "close")
    BY <1>2, <1>7, <2>2
  <2> QED
    BY <1>2, <1>3, <1>9, <2>2, <2>3, <2>4
<1> QED
  BY <1>6, <1>13, <1>14, <1>15, <1>16, <1>17, <1>18 DEF Says

(* What a dialect leaves as it is in the plan it is given.                 *)
Kept(a, p) ==
  /\ a.projections = p.projections /\ a.where = p.where /\ a.order = p.order
  /\ a.offset = p.offset /\ a.distinct = p.distinct /\ a.group = p.group /\ a.having = p.having

LEMMA ReplacedIs ==
  ASSUME NEW p \in PlanRecords, NEW forUpdate \in BOOLEAN, NEW limit \in Perhaps(Int)
  PROVE  LET a == [p EXCEPT !.forUpdate = forUpdate, !.limit = limit]
         IN  a \in PlanRecords /\ Kept(a, p) /\ a.forUpdate = forUpdate /\ a.limit = limit
BY DEF PlanRecords, Kept

LEMMA AdaptedIs ==
  ASSUME NEW p \in PlanRecords, NEW d \in Dialects
  PROVE  /\ Adapted(d, p) \in PlanRecords /\ Kept(Adapted(d, p), p)
         /\ Adapted(d, p).forUpdate <=> p.forUpdate /\ d = "postgresql"
         /\ Adapted(d, p).limit =
              IF d = "sqlite" /\ p.offset # NotGiven /\ p.limit = NotGiven THEN Largest ELSE p.limit
<1>1. CASE d # "sqlite"
  <2>1. Adapted(d, p) = p /\ d = "postgresql"
    BY <1>1 DEF Adapted, Dialects
  <2> QED
    BY <1>1, <2>1 DEF Kept
<1>2. CASE d = "sqlite"
  <2>1. p.limit \in Perhaps(Int) /\ Largest \in Perhaps(Int)
    BY RenderingAssumption DEF PlanRecords, Perhaps
  <2>2. PICK limit \in Perhaps(Int) :
          limit = IF p.offset # NotGiven /\ p.limit = NotGiven THEN Largest ELSE p.limit
    BY <2>1
  <2>3. Adapted(d, p) = [p EXCEPT !.forUpdate = FALSE, !.limit = limit]
    BY <1>2, <2>2 DEF Adapted
  <2>4. LET a == [p EXCEPT !.forUpdate = FALSE, !.limit = limit]
        IN  a \in PlanRecords /\ Kept(a, p) /\ a.forUpdate = FALSE /\ a.limit = limit
    BY ReplacedIs
  <2>5. /\ Adapted(d, p) \in PlanRecords /\ Kept(Adapted(d, p), p)
        /\ Adapted(d, p).forUpdate = FALSE /\ Adapted(d, p).limit = limit
    BY <2>3, <2>4, Zenon
  <2> QED
    BY <1>2, <2>2, <2>5
<1> QED
  BY <1>1, <1>2

LEMMA RenderSelectIs ==
  ASSUME NEW p \in PlanRecords, NEW a \in PlanRecords, NEW d \in Dialects, a = Adapted(d, p)
  PROVE  RenderSelect(d, p) = <<Plain("select", a.distinct)>> \o Projections(a) \o Clauses(a)
<1>1. a.distinct = p.distinct /\ a.projections = p.projections
  BY AdaptedIs DEF Kept
<1>2. Projections(p) = Projections(a)
  BY <1>1 DEF Projections
<1> QED
  BY <1>1, <1>2 DEF RenderSelect

LEMMA HeadIs ==
  ASSUME NEW a \in PlanRecords
  PROVE  /\ Plain("select", a.distinct) \in Pieces
         /\ <<Plain("select", a.distinct)>> \in Seq(Pieces)
         /\ Range(<<Plain("select", a.distinct)>>) = {Plain("select", a.distinct)}
<1>1. Plain("select", a.distinct) \in Pieces
  BY PlainIs DEF ClauseNames, Entries, PlanRecords
<1> QED
  BY <1>1, OneIs

LEMMA RenderSelectSays ==
  ASSUME NEW p \in PlanRecords, NEW d \in Dialects
  PROVE  /\ RenderSelect(d, p) \in Seq(Pieces) /\ Says(RenderSelect(d, p), Adapted(d, p))
         /\ ~Has(RenderSelect(d, p), "outer")
<1>1. PICK a \in PlanRecords : a = Adapted(d, p)
  BY AdaptedIs
<1>2. PICK head \in Seq(Pieces) : /\ head = <<Plain("select", a.distinct)>>
                                  /\ Range(head) = {Plain("select", a.distinct)}
  BY HeadIs
<1>3. PICK clauses \in Seq(Pieces) : clauses = Clauses(a) /\ Range(clauses) = ClausePieces(a)
  BY ClausesAre
<1>4. /\ Range(head) = {Plain("select", a.distinct)} \cup (IF FALSE THEN {Outer} ELSE {})
      /\ Range(clauses) = ClausePieces(a) \cup (IF FALSE THEN {Close} ELSE {})
  BY <1>2, <1>3
<1>5. LET s == head \o Projections(a) \o clauses
      IN  s \in Seq(Pieces) /\ Says(s, a) /\ (Has(s, "outer") <=> FALSE)
  BY <1>4, StatementSays
<1>6. RenderSelect(d, p) = head \o Projections(a) \o clauses
  BY <1>1, <1>2, <1>3, RenderSelectIs
<1> QED
  BY <1>1, <1>5, <1>6

Nested(s) == <<Outer>> \o s \o <<Close>>

(* The outer select stands before the select, its end after it.            *)
Regroups(a, b, c) == (a \o b) \o c = a \o (b \o c)

LEMMA SequencesRegroup ==
  ASSUME NEW S, NEW a \in Seq(S), NEW b \in Seq(S), NEW c \in Seq(S)
  PROVE  a \o b \in Seq(S) /\ Regroups(a, b, c)
BY ConcatProperties, ConcatAssociative DEF Regroups

Encloses(outer, head, projections, clauses, close) ==
  outer \o (head \o projections \o clauses) \o close
    = (outer \o head) \o projections \o (clauses \o close)

LEMMA Regrouped ==
  ASSUME NEW S, NEW outer \in Seq(S), NEW head \in Seq(S), NEW projections \in Seq(S),
         NEW clauses \in Seq(S), NEW close \in Seq(S)
  PROVE  Encloses(outer, head, projections, clauses, close)
<1> DEFINE body == head \o projections
           front == outer \o head
           long == front \o projections
<1>1. body \in Seq(S) /\ front \in Seq(S)
  BY SequencesRegroup, Zenon
<1>2. long \in Seq(S)
  <2> HIDE DEF front
  <2> QED
    BY <1>1, SequencesRegroup, Zenon
<1>3. Regroups(outer, head, projections)
  BY SequencesRegroup
<1>4. Regroups(outer, body, clauses)
  <2> HIDE DEF body
  <2> QED
    BY <1>1, SequencesRegroup
<1>5. Regroups(long, clauses, close)
  <2> HIDE DEF long
  <2> QED
    BY <1>2, SequencesRegroup
<1>6. outer \o body = long
  BY <1>3 DEF Regroups
<1>7. outer \o (body \o clauses) = long \o clauses
  <2> HIDE DEF body, long
  <2> QED
    BY <1>4, <1>6 DEF Regroups
<1>8. (outer \o (body \o clauses)) \o close = long \o (clauses \o close)
  <2> HIDE DEF body, long
  <2> QED
    BY <1>5, <1>7 DEF Regroups
<1> QED
  BY <1>8, Zenon DEF Encloses

JoinsTo(a, b) == a \o b \in Seq(Pieces) /\ Range(a \o b) = Range(a) \cup Range(b)

LEMMA EndsAre ==
  ASSUME NEW a \in Seq(Pieces), NEW b \in Seq(Pieces)
  PROVE  JoinsTo(a, b)
BY ConcatProperties, RangeConcatenation DEF JoinsTo

LEMMA OuterIs ==
  /\ <<Outer>> \in Seq(Pieces) /\ Range(<<Outer>>) = {Outer}
  /\ <<Close>> \in Seq(Pieces) /\ Range(<<Close>>) = {Close}
<1>1. Outer \in Pieces /\ Close \in Pieces
  BY PlainIs DEF ClauseNames, Entries, Outer, Close
<1> QED
  BY <1>1, OneIs

LEMMA NestedSays ==
  ASSUME NEW p \in PlanRecords, NEW d \in Dialects
  PROVE  LET s == Nested(RenderSelect(d, p))
         IN  s \in Seq(Pieces) /\ Says(s, Adapted(d, p)) /\ Has(s, "outer") /\ Has(s, "close")
<1>1. PICK a \in PlanRecords : a = Adapted(d, p)
  BY AdaptedIs
<1> DEFINE select == <<Plain("select", a.distinct)>>
           front == <<Outer>> \o select
           back == Clauses(a) \o <<Close>>
<1>2. front \in Seq(Pieces) /\ Range(front) = {Plain("select", a.distinct)} \cup {Outer}
  <2>1. select \in Seq(Pieces) /\ Range(select) = {Plain("select", a.distinct)}
    BY HeadIs
  <2> HIDE DEF select
  <2>2. JoinsTo(<<Outer>>, select)
    BY <2>1, OuterIs, EndsAre
  <2> QED
    BY <2>1, <2>2, OuterIs DEF JoinsTo
<1>3. back \in Seq(Pieces) /\ Range(back) = ClausePieces(a) \cup {Close}
  <2>1. Clauses(a) \in Seq(Pieces) /\ Range(Clauses(a)) = ClausePieces(a)
    BY ClausesAre
  <2>2. JoinsTo(Clauses(a), <<Close>>)
    BY <2>1, OuterIs, EndsAre
  <2> QED
    BY <2>1, <2>2, OuterIs DEF JoinsTo
<1>4. Nested(RenderSelect(d, p)) = front \o Projections(a) \o back
  <2>1. select \in Seq(Pieces) /\ Projections(a) \in Seq(Pieces) /\ Clauses(a) \in Seq(Pieces)
    BY HeadIs, ProjectionsAre, ClausesAre
  <2>2. RenderSelect(d, p) = select \o Projections(a) \o Clauses(a)
    BY <1>1, RenderSelectIs
  <2> HIDE DEF select
  <2>3. Encloses(<<Outer>>, select, Projections(a), Clauses(a), <<Close>>)
    BY <2>1, OuterIs, Regrouped
  <2> QED
    BY <2>2, <2>3, Zenon DEF Encloses, Nested
<1>5. /\ Range(front) = {Plain("select", a.distinct)} \cup (IF TRUE THEN {Outer} ELSE {})
      /\ Range(back) = ClausePieces(a) \cup (IF TRUE THEN {Close} ELSE {})
  BY <1>2, <1>3
<1> HIDE DEF front, back
<1>6. LET s == front \o Projections(a) \o back
      IN  s \in Seq(Pieces) /\ Says(s, a) /\ (Has(s, "outer") <=> TRUE) /\ (Has(s, "close") <=> TRUE)
  BY <1>2, <1>3, <1>5, StatementSays
<1> QED
  BY <1>1, <1>4, <1>6
-----------------------------------------------------------------------------
(* Statements that say the same of the rows find the same ones.            *)
SaysAlike(s, t) ==
  /\ Only(s, "select") = Only(t, "select") /\ Projected(s) = Projected(t)
  /\ \A clause \in {"where", "group", "having"} :
       /\ Has(s, clause) <=> Has(t, clause)
       /\ Has(s, clause) => Only(s, clause) = Only(t, clause)

LEMMA AlikeIs ==
  ASSUME NEW p, NEW q, p.distinct = q.distinct, p.projections = q.projections,
         p.where = q.where, p.group = q.group, p.having = q.having,
         NEW s, NEW t, Says(s, p), Says(t, q)
  PROVE  SaysAlike(s, t)
<1>1. Only(s, "select") = Only(t, "select") /\ Projected(s) = Projected(t)
  BY DEF Says
<1>2. \A clause, e : GivesExpr(s, clause, e) /\ GivesExpr(t, clause, e) =>
        /\ Has(s, clause) <=> Has(t, clause)
        /\ Has(s, clause) => Only(s, clause) = Only(t, clause)
  BY DEF GivesExpr
<1>3. \A clause \in {"where", "group", "having"} :
        \E e : GivesExpr(s, clause, e) /\ GivesExpr(t, clause, e)
  BY DEF Says
<1> QED
  BY <1>1, <1>2, <1>3 DEF SaysAlike

Meeting(s, content) == {r \in content : Met(s, r)}
Group(s, content, v) == {r \in Meeting(s, content) : Value(Only(s, "group"), r) = v}
Totals(s) == \E k \in DOMAIN Projected(s) : AddsUp(Projected(s)[k])

LEMMA GroupsIs ==
  ASSUME NEW s, NEW content
  PROVE  Groups(s, content) =
           IF Has(s, "group")
           THEN {g \in {Group(s, content, v) : v \in 0..1} :
                   g # {} /\ (Has(s, "having") => Cardinality(g) >= 2)}
           ELSE IF Totals(s) THEN {Meeting(s, content)} ELSE {{r} : r \in Meeting(s, content)}
BY Zenon DEF Groups, Meeting, Group, Totals

OutputOf(projected, g) ==
  [k \in DOMAIN projected |->
     LET e == projected[k]
     IN  IF AddsUp(e) THEN Cardinality(g) ELSE Value(e, CHOOSE r \in g : TRUE)]

LEMMA FoundAlike ==
  ASSUME NEW s, NEW t, SaysAlike(s, t), NEW content
  PROVE  Found(s, content) = Found(t, content)
<1>1. Meeting(s, content) = Meeting(t, content)
  <2>1. \A r : Met(s, r) <=> Met(t, r)
    BY DEF Met, SaysAlike
  <2> QED
    BY <2>1 DEF Meeting
<1>2. Totals(s) <=> Totals(t)
  BY DEF Totals, SaysAlike
<1>3. Groups(s, content) = Groups(t, content)
  <2>1. CASE Has(s, "group")
    <3>1. \A v : Group(s, content, v) = Group(t, content, v)
      BY <1>1, <2>1 DEF Group, SaysAlike
    <3>2. Has(t, "group") /\ (Has(s, "having") <=> Has(t, "having"))
      BY <2>1 DEF SaysAlike
    <3> QED
      BY <2>1, <3>1, <3>2, GroupsIs
  <2>2. CASE ~Has(s, "group")
    <3>1. ~Has(t, "group")
      BY <2>2 DEF SaysAlike
    <3> QED
      BY <1>1, <1>2, <2>2, <3>1, GroupsIs
  <2> QED
    BY <2>1, <2>2
<1>4. \A g : Output(s, g) = Output(t, g)
  <2>1. \A g : Output(s, g) = OutputOf(Projected(s), g) /\ Output(t, g) = OutputOf(Projected(t), g)
    BY Zenon DEF Output, OutputOf
  <2> QED
    BY <2>1 DEF SaysAlike
<1>5. {Output(s, g) : g \in Groups(s, content)} = {Output(t, g) : g \in Groups(t, content)}
  BY <1>3, <1>4
<1> QED
  BY <1>3, <1>5 DEF Found, SaysAlike

LEMMA ImageIs ==
  ASSUME NEW S, IsFiniteSet(S), NEW f, DOMAIN f = S
  PROVE  IsFiniteSet({f[x] : x \in S}) /\ Cardinality({f[x] : x \in S}) <= Cardinality(S)
<1> DEFINE T == {f[x] : x \in S}
<1>1. [x \in S |-> f[x]] \in Surjection(S, T)
  BY DEF Surjection
<1> QED
  BY <1>1, FS_Surjection

LEMMA SinglesAre ==
  ASSUME NEW S, IsFiniteSet(S)
  PROVE  IsFiniteSet({{x} : x \in S}) /\ Cardinality({{x} : x \in S}) = Cardinality(S)
<1> DEFINE T == {{x} : x \in S}
           f == [x \in S |-> {x}]
<1>1. f \in Bijection(S, T)
  BY DEF Bijection, Injection, Surjection, IsInjective
<1> QED
  BY <1>1, FS_Bijection DEF ExistsBijection

LEMMA MeetingIs ==
  ASSUME NEW s, NEW content, IsFiniteSet(content)
  PROVE  /\ IsFiniteSet(Meeting(s, content)) /\ Cardinality(Meeting(s, content)) \in Nat
         /\ Cardinality(Meeting(s, content)) <= Cardinality(content)
BY FS_Subset, FS_CardinalityType DEF Meeting

LEMMA GroupsAreFew ==
  ASSUME NEW s, NEW content \in Contents
  PROVE  IsFiniteSet(Groups(s, content)) /\ Cardinality(Groups(s, content)) <= Largest
<1>1. /\ IsFiniteSet(content) /\ Cardinality(content) <= Largest /\ Cardinality(content) \in Nat
      /\ Largest \in Nat /\ Largest >= 2
  BY RenderingAssumption, FS_CardinalityType
<1> DEFINE found == Meeting(s, content)
<1>2. IsFiniteSet(found) /\ Cardinality(found) \in Nat /\ Cardinality(found) <= Largest
  BY <1>1, MeetingIs
<1>3. CASE Has(s, "group")
  <2> DEFINE f == [v \in 0..1 |-> Group(s, content, v)]
             S == {f[v] : v \in 0..1}
  <2>1. IsFiniteSet(0..1) /\ Cardinality(0..1) = 2
    <3>1. 0..1 = {0} \cup {1} /\ 1 \notin {0}
      OBVIOUS
    <3>2. IsFiniteSet({0}) /\ Cardinality({0}) = 1
      BY FS_Singleton, Zenon
    <3>3. /\ IsFiniteSet({0} \cup {1})
          /\ Cardinality({0} \cup {1}) = IF 1 \in {0} THEN Cardinality({0}) ELSE Cardinality({0}) + 1
      BY <3>2, FS_AddElement, Zenon
    <3>4. Cardinality({0} \cup {1}) = 2
      BY <3>1, <3>2, <3>3
    <3> QED
      BY <3>1, <3>3, <3>4, Zenon
  <2>2. IsFiniteSet(S) /\ Cardinality(S) <= 2 /\ Cardinality(S) \in Nat
    <3>1. DOMAIN f = 0..1
      OBVIOUS
    <3> HIDE DEF f
    <3> QED
      BY <2>1, <3>1, ImageIs, FS_CardinalityType
  <2>3. Groups(s, content) \in SUBSET S
    BY <1>3, GroupsIs
  <2> HIDE DEF S
  <2>4. /\ IsFiniteSet(Groups(s, content)) /\ Cardinality(Groups(s, content)) \in Nat
        /\ Cardinality(Groups(s, content)) <= Cardinality(S)
    BY <2>2, <2>3, FS_Subset, FS_CardinalityType
  <2> QED
    BY <1>1, <2>2, <2>4
<1>4. CASE ~Has(s, "group") /\ Totals(s)
  <2>1. Groups(s, content) = {found}
    BY <1>4, GroupsIs
  <2>2. IsFiniteSet({found}) /\ Cardinality({found}) = 1
    BY FS_Singleton, Zenon
  <2> HIDE DEF found
  <2> QED
    BY <1>1, <2>1, <2>2
<1>5. CASE ~Has(s, "group") /\ ~Totals(s)
  <2>1. Groups(s, content) = {{r} : r \in found}
    BY <1>5, GroupsIs
  <2> HIDE DEF found
  <2> QED
    BY <1>2, <2>1, SinglesAre
<1> QED
  BY <1>3, <1>4, <1>5

LEMMA FoundIs ==
  ASSUME NEW s, NEW content \in Contents
  PROVE  Found(s, content) \in Nat /\ Found(s, content) <= Largest
<1> DEFINE groups == Groups(s, content)
           f == [g \in groups |-> Output(s, g)]
<1>1. IsFiniteSet(groups) /\ Cardinality(groups) <= Largest /\ Cardinality(groups) \in Nat
  BY GroupsAreFew, FS_CardinalityType
<1>2. Largest \in Nat
  BY RenderingAssumption
<1>3. {Output(s, g) : g \in groups} = {f[g] : g \in groups}
  OBVIOUS
<1>4. DOMAIN f = groups
  OBVIOUS
<1> HIDE DEF groups, f
<1>5. IsFiniteSet({f[g] : g \in groups}) /\ Cardinality({f[g] : g \in groups}) <= Cardinality(groups)
  BY <1>1, <1>4, ImageIs
<1>6. Cardinality({f[g] : g \in groups}) \in Nat
  BY <1>5, FS_CardinalityType
<1>7. Found(s, content) = IF Only(s, "select") THEN Cardinality({f[g] : g \in groups}) ELSE Cardinality(groups)
  BY <1>3 DEF Found, groups
<1> QED
  BY <1>1, <1>2, <1>5, <1>6, <1>7
-----------------------------------------------------------------------------
(* The page a statement answers with, out of what it finds.                *)
Page(n, limit, offset) ==
  LET skipped == IF offset = NotGiven THEN 0 ELSE offset
      left == IF n > skipped THEN n - skipped ELSE 0
  IN  IF limit = NotGiven THEN left ELSE Least(left, limit)

LEMMA AnswerIs ==
  ASSUME NEW s, NEW a, Says(s, a), NEW content
  PROVE  Answer(s, content) = Page(Found(s, content), a.limit, a.offset)
<1>1. Gives(s, "limit", a.limit) /\ Gives(s, "offset", a.offset)
  BY DEF Says
<1>2. /\ Has(s, "limit") <=> a.limit # NotGiven
      /\ a.limit # NotGiven => Only(s, "limit") = a.limit
  BY <1>1 DEF Gives
<1>3. /\ Has(s, "offset") <=> a.offset # NotGiven
      /\ a.offset # NotGiven => Only(s, "offset") = a.offset
  BY <1>1 DEF Gives
<1> QED
  BY <1>2, <1>3 DEF Answer, Page

LEMMA LargestPage ==
  ASSUME NEW n \in Nat, n <= Largest, NEW offset \in Nat
  PROVE  Page(n, Largest, offset) = Page(n, NotGiven, offset)
<1>1. Largest \in Nat /\ Largest # NotGiven /\ offset # NotGiven
  BY RenderingAssumption
<1> QED
  BY <1>1 DEF Page, Least

LEMMA WholePage ==
  ASSUME NEW n \in Nat
  PROVE  Page(n, NotGiven, NotGiven) = n
BY DEF Page

(* A plan's statement, of either dialect, answers with the page of the     *)
(* plan: the limit SQLite adds cuts nothing off.                           *)
LEMMA SelectAnswers ==
  ASSUME NEW p \in PlanRecords, PageValid(p.offset), NEW d \in Dialects, NEW content \in Contents
  PROVE  LET s == RenderSelect(d, p) IN Answer(s, content) = Page(Found(s, content), p.limit, p.offset)
<1>1. PICK s : s = RenderSelect(d, p)
  OBVIOUS
<1>2. PICK a \in PlanRecords : a = Adapted(d, p)
  BY AdaptedIs
<1>3. /\ a.offset = p.offset
      /\ a.limit = IF d = "sqlite" /\ p.offset # NotGiven /\ p.limit = NotGiven THEN Largest ELSE p.limit
  BY <1>2, AdaptedIs DEF Kept
<1>4. Says(s, a)
  BY <1>1, <1>2, RenderSelectSays
<1>5. Answer(s, content) = Page(Found(s, content), a.limit, a.offset)
  BY <1>4, AnswerIs
<1>6. Found(s, content) \in Nat /\ Found(s, content) <= Largest
  BY FoundIs
<1>7. CASE d = "sqlite" /\ p.offset # NotGiven /\ p.limit = NotGiven
  <2>1. p.offset \in Nat
    BY <1>7 DEF PageValid
  <2>2. Page(Found(s, content), Largest, p.offset) = Page(Found(s, content), NotGiven, p.offset)
    BY <1>6, <2>1, LargestPage
  <2> QED
    BY <1>1, <1>3, <1>5, <1>7, <2>2
<1>8. CASE ~(d = "sqlite" /\ p.offset # NotGiven /\ p.limit = NotGiven)
  BY <1>1, <1>3, <1>5, <1>8
<1> QED
  BY <1>7, <1>8

(* What two plans have in common that find the same rows.                  *)
Selects(a, b) ==
  /\ a.projections = b.projections /\ a.where = b.where /\ a.distinct = b.distinct
  /\ a.group = b.group /\ a.having = b.having

LEMMA SelectedAlike ==
  ASSUME NEW p \in PlanRecords, NEW r \in PlanRecords, Selects(p, r),
         NEW d \in Dialects, NEW c \in Dialects, NEW s, NEW t,
         Says(s, Adapted(d, p)), Says(t, Adapted(c, r)), NEW content
  PROVE  Found(s, content) = Found(t, content)
<1>1. Kept(Adapted(d, p), p) /\ Kept(Adapted(c, r), r)
  BY AdaptedIs
<1>2. PICK a, b : a = Adapted(d, p) /\ b = Adapted(c, r)
  OBVIOUS
<1>3. /\ a.distinct = b.distinct /\ a.projections = b.projections
      /\ a.where = b.where /\ a.group = b.group /\ a.having = b.having
  BY <1>1, <1>2 DEF Kept, Selects
<1>4. SaysAlike(s, t)
  BY <1>2, <1>3, AlikeIs
<1> QED
  BY <1>4, FoundAlike

LEMMA DialectsAnswerAlike ==
  ASSUME NEW p \in PlanRecords, PageValid(p.offset), NEW d \in Dialects, NEW c \in Dialects,
         NEW content \in Contents
  PROVE  Answer(RenderSelect(d, p), content) = Answer(RenderSelect(c, p), content)
<1>1. /\ Says(RenderSelect(d, p), Adapted(d, p)) /\ Says(RenderSelect(c, p), Adapted(c, p))
  BY RenderSelectSays
<1>2. Selects(p, p)
  BY DEF Selects
<1>3. Found(RenderSelect(d, p), content) = Found(RenderSelect(c, p), content)
  BY <1>1, <1>2, SelectedAlike
<1>4. /\ Answer(RenderSelect(d, p), content) = Page(Found(RenderSelect(d, p), content), p.limit, p.offset)
      /\ Answer(RenderSelect(c, p), content) = Page(Found(RenderSelect(c, p), content), p.limit, p.offset)
  BY SelectAnswers
<1> QED
  BY <1>3, <1>4

(* SQLite checks the lock it drops: the dialects take the same plans.      *)
LEMMA AcceptedIs ==
  ASSUME NEW p \in PlanRecords, NEW d \in Dialects
  PROVE  DialectAccepts(d, p) <=> RenderAccepts(p)
<1>1. PICK a \in PlanRecords : a = Adapted(d, p)
  BY AdaptedIs
<1>2. /\ Kept(a, p) /\ (a.forUpdate <=> p.forUpdate /\ d = "postgresql")
      /\ a.limit = IF d = "sqlite" /\ p.offset # NotGiven /\ p.limit = NotGiven THEN Largest ELSE p.limit
  BY <1>1, AdaptedIs
<1>3. PageValid(a.limit) <=> PageValid(p.limit)
  BY <1>2, RenderingAssumption DEF PageValid
<1>4. CASE d = "sqlite"
  BY <1>1, <1>2, <1>3, <1>4 DEF DialectAccepts, RenderAccepts, GroupingAccepts, Kept
<1>5. CASE d # "sqlite"
  <2>1. a = p
    BY <1>1, <1>5 DEF Adapted
  <2> QED
    BY <1>1, <1>5, <2>1 DEF DialectAccepts
<1> QED
  BY <1>4, <1>5
-----------------------------------------------------------------------------
(* The database runs what the dialects make of a plan whose lock and order *)
(* fit its grouping and its projections.                                   *)
LEMMA ProjectedIs ==
  ASSUME NEW a \in PlanRecords, NEW s, Says(s, a)
  PROVE  /\ DOMAIN Projected(s) = DOMAIN a.projections
         /\ \A k \in DOMAIN a.projections : Projected(s)[k] = Terminated(a.projections[k])
<1>1. Projected(s) = [k \in 1..Len(a.projections) |-> Terminated(a.projections[k])]
  BY DEF Says
<1>2. DOMAIN a.projections = 1..Len(a.projections)
  BY LenProperties DEF PlanRecords
<1> QED
  BY <1>1, <1>2

LEMMA SortsIs ==
  ASSUME NEW a \in PlanRecords, a.order # NotGiven, DistinctOrdering(a.projections, a.order),
         NEW s, Says(s, a), NEW order, order = Only(s, "order")
  PROVE  IF order.kind = "alias" THEN order.position \in DOMAIN Projected(s)
         ELSE \E k \in DOMAIN Projected(s) : Same(Projected(s)[k], order)
<1>1. a.order \in Exprs \cup AliasExprs
  BY DEF PlanRecords, Perhaps
<1>2. order = Terminated(a.order)
  BY DEF Says, GivesExpr
<1>3. order.kind = a.order.kind
  BY <1>1, <1>2, TerminatedIs
<1>4. CASE a.order.kind = "alias"
  <2>1. a.order \in AliasExprs
    BY <1>1, <1>4 DEF Exprs
  <2>2. order.position = a.order.position
    BY <1>2, <2>1, TerminatedIs
  <2> QED
    BY <1>3, <1>4, <2>2, ProjectedIs DEF DistinctOrdering
<1>5. CASE a.order.kind # "alias"
  <2>1. a.order \in Exprs
    BY <1>1, <1>5 DEF AliasExprs
  <2>2. order.column = a.order.column
    BY <1>2, <2>1, TerminatedIs
  <2>3. PICK k \in DOMAIN a.projections : Same(a.projections[k], a.order)
    BY <1>5 DEF DistinctOrdering
  <2>4. PICK e \in Exprs : e = a.projections[k]
    BY ElementOfSeq DEF PlanRecords
  <2>5. Terminated(e).kind = e.kind /\ Terminated(e).column = e.column
    BY TerminatedIs
  <2>6. Projected(s)[k] = Terminated(e)
    BY <2>4, ProjectedIs
  <2>7. Same(Projected(s)[k], order)
    BY <1>3, <2>2, <2>3, <2>4, <2>5, <2>6 DEF Same
  <2> QED
    BY <1>3, <1>5, <2>7, ProjectedIs
<1> QED
  BY <1>4, <1>5

Sorts(p) == (p.order # NotGiven /\ p.distinct) => DistinctOrdering(p.projections, p.order)

LEMMA StatementRuns ==
  ASSUME NEW p \in PlanRecords, NEW d \in Dialects, GroupingAccepts(p), Sorts(p),
         NEW s, Says(s, Adapted(d, p)), Has(s, "outer") => Has(s, "close")
  PROVE  Runs(d, s)
<1>1. PICK a \in PlanRecords : a = Adapted(d, p)
  BY AdaptedIs
<1>2. /\ Kept(a, p) /\ (a.forUpdate <=> p.forUpdate /\ d = "postgresql")
      /\ a.limit = IF d = "sqlite" /\ p.offset # NotGiven /\ p.limit = NotGiven THEN Largest ELSE p.limit
  BY <1>1, AdaptedIs
<1>3. Says(s, a)
  BY <1>1
<1>4. /\ Has(s, "from") /\ Only(s, "select") = p.distinct
      /\ Has(s, "having") <=> p.having # NotGiven
      /\ Has(s, "group") <=> p.group # NotGiven
      /\ Has(s, "order") <=> p.order # NotGiven
      /\ Has(s, "limit") <=> a.limit # NotGiven
      /\ Has(s, "offset") <=> p.offset # NotGiven
      /\ Has(s, "update") <=> a.forUpdate
  BY <1>2, <1>3 DEF Says, Gives, GivesExpr, Kept
<1>5. Has(s, "having") => Has(s, "group")
  BY <1>4 DEF GroupingAccepts
<1>6. Has(s, "update") => d = "postgresql" /\ ~Only(s, "select") /\ ~Has(s, "group")
  BY <1>2, <1>4 DEF GroupingAccepts
<1>7. (d = "sqlite" /\ Has(s, "offset")) => Has(s, "limit")
  BY <1>2, <1>4, RenderingAssumption
<1>8. ASSUME Has(s, "order"), Only(s, "select")
      PROVE  IF Only(s, "order").kind = "alias" THEN Only(s, "order").position \in DOMAIN Projected(s)
             ELSE \E k \in DOMAIN Projected(s) : Same(Projected(s)[k], Only(s, "order"))
  <2>1. a.order # NotGiven /\ DistinctOrdering(a.projections, a.order)
    BY <1>2, <1>4, <1>8 DEF Sorts, Kept
  <2> QED
    BY <1>3, <2>1, SortsIs
<1> QED
  BY <1>4, <1>5, <1>6, <1>7, <1>8 DEF Runs

LEMMA SeenIs ==
  ASSUME NEW s \in Seq(Pieces)
  PROVE  Seen(s) = s
<1>1. \A k \in DOMAIN s : s[k].comment = FALSE
  <2>1. \A k \in DOMAIN s : s[k] \in Pieces
    BY ElementOfSeq, LenProperties
  <2>2. \A x \in Pieces : x.comment = FALSE
    BY DEF Pieces
  <2> QED
    BY <2>1, <2>2
<1>2. {k \in DOMAIN s : s[k].comment} = {}
  BY <1>1
<1> QED
  BY <1>2 DEF Seen

-----------------------------------------------------------------------------
(* A count and the select inside it.                                       *)
Inner(p) == [p EXCEPT !.operation = "select", !.order = NotGiven, !.forUpdate = FALSE]
Direct(p) == [Inner(p) EXCEPT !.projections = <<CountStar>>]

LEMMA InnerIs ==
  ASSUME NEW p \in PlanRecords
  PROVE  /\ Inner(p) \in PlanRecords /\ Selects(Inner(p), p)
         /\ Inner(p).order = NotGiven /\ Inner(p).forUpdate = FALSE
         /\ Inner(p).limit = p.limit /\ Inner(p).offset = p.offset
BY DEF Inner, PlanRecords, Selects, Perhaps

LEMMA DirectIs ==
  ASSUME NEW p \in PlanRecords
  PROVE  /\ Direct(p) \in PlanRecords /\ Direct(p).where = p.where
         /\ Direct(p).group = p.group /\ Direct(p).having = p.having /\ Direct(p).distinct = p.distinct
         /\ Direct(p).order = NotGiven /\ Direct(p).forUpdate = FALSE
<1>1. CountStar \in Exprs
  BY DEF CountStar, Exprs
<1>2. <<CountStar>> \in Seq(Exprs)
  BY <1>1, OneIs
<1>3. PICK columns \in Seq(Exprs) : columns = <<CountStar>>
  BY <1>2
<1>4. PICK inner \in PlanRecords : inner = Inner(p)
  BY InnerIs
<1>5. LET direct == [inner EXCEPT !.projections = columns]
      IN  /\ direct \in PlanRecords /\ direct.where = inner.where /\ direct.group = inner.group
          /\ direct.having = inner.having /\ direct.distinct = inner.distinct
          /\ direct.order = inner.order /\ direct.forUpdate = inner.forUpdate
  BY DEF PlanRecords
<1>6. Direct(p) = [inner EXCEPT !.projections = columns]
  BY <1>3, <1>4 DEF Direct
<1> QED
  BY <1>4, <1>5, <1>6, InnerIs DEF Selects

LEMMA RenderCountIs ==
  ASSUME NEW p, NEW d
  PROVE  RenderCount(d, p) = IF CountsDirectly(p) THEN RenderSelect(d, Direct(p))
                             ELSE Nested(RenderSelect(d, Inner(p)))
BY Zenon DEF RenderCount, Inner, Direct, Nested, Outer, Close

(* Every statement is made of pieces of which none hides another; it runs  *)
(* when the lock and the order of its plan fit.                            *)
LEMMA RenderedIs ==
  ASSUME NEW p \in PlanRecords, NEW d \in Dialects, NEW s, s = Rendered(d, p)
  PROVE  /\ s \in Seq(Pieces)
         /\ (GroupingAccepts(p) /\ (p.operation = "select" => Sorts(p))) => Runs(d, s)
<1>1. CASE p.operation # "count"
  <2>1. s = RenderSelect(d, p)
    BY <1>1 DEF Rendered
  <2>2. p.operation = "select"
    BY <1>1 DEF PlanRecords
  <2> QED
    BY <2>1, <2>2, RenderSelectSays, StatementRuns
<1>2. CASE p.operation = "count" /\ CountsDirectly(p)
  <2>1. s = RenderSelect(d, Direct(p))
    BY <1>2, RenderCountIs DEF Rendered
  <2>2. PICK direct \in PlanRecords : direct = Direct(p)
    BY DirectIs
  <2>3. GroupingAccepts(p) => GroupingAccepts(direct) /\ Sorts(direct)
    BY <2>2, DirectIs DEF GroupingAccepts, Sorts
  <2> QED
    BY <2>1, <2>2, <2>3, RenderSelectSays, StatementRuns
<1>3. CASE p.operation = "count" /\ ~CountsDirectly(p)
  <2>1. s = Nested(RenderSelect(d, Inner(p)))
    BY <1>3, RenderCountIs DEF Rendered
  <2>2. PICK inner \in PlanRecords : inner = Inner(p)
    BY InnerIs
  <2>3. GroupingAccepts(p) => GroupingAccepts(inner) /\ Sorts(inner)
    BY <2>2, InnerIs DEF GroupingAccepts, Sorts, Selects
  <2> QED
    BY <2>1, <2>2, <2>3, NestedSays, StatementRuns
<1> QED
  BY <1>1, <1>2, <1>3

LEMMA NestedCounts ==
  ASSUME NEW p \in PlanRecords, NEW r \in PlanRecords, Selects(p, r),
         p.limit = NotGiven, p.offset = NotGiven, r.limit = NotGiven, r.offset = NotGiven,
         ~CountsDirectly(p), NEW d \in Dialects, NEW content \in Contents
  PROVE  Counted(RenderCount(d, p), content) = Answer(RenderSelect(d, r), content)
<1>1. PICK inner \in PlanRecords : /\ inner = Inner(p) /\ Selects(inner, r)
                                   /\ inner.limit = NotGiven /\ inner.offset = NotGiven
  <2>1. Selects(Inner(p), r)
    BY InnerIs DEF Selects
  <2> QED
    BY <2>1, InnerIs
<1>2. PICK s : s = Nested(RenderSelect(d, inner))
  OBVIOUS
<1>3. RenderCount(d, p) = s
  BY <1>1, <1>2, RenderCountIs
<1>4. Has(s, "outer") /\ Says(s, Adapted(d, inner))
  BY <1>2, NestedSays
<1>5. Says(RenderSelect(d, r), Adapted(d, r))
  BY RenderSelectSays
<1>6. Found(s, content) = Found(RenderSelect(d, r), content)
  BY <1>1, <1>4, <1>5, SelectedAlike
<1>7. PICK n \in Nat : n = Found(s, content)
  BY FoundIs
<1>8. Answer(s, content) = n
  <2>1. Adapted(d, inner).limit = NotGiven /\ Adapted(d, inner).offset = NotGiven
    BY <1>1, AdaptedIs DEF Kept
  <2> QED
    BY <1>4, <1>7, <2>1, AnswerIs, WholePage
<1>9. Answer(RenderSelect(d, r), content) = n
  <2>1. PageValid(r.offset) /\ r.limit = NotGiven /\ r.offset = NotGiven
    BY DEF PageValid
  <2> QED
    BY <1>6, <1>7, <2>1, SelectAnswers, WholePage
<1> QED
  BY <1>3, <1>4, <1>8, <1>9 DEF Counted

LEMMA DirectCounts ==
  ASSUME NEW p \in PlanRecords, NEW r \in PlanRecords, Selects(p, r),
         r.limit = NotGiven, r.offset = NotGiven,
         CountsDirectly(p), NEW d \in Dialects, NEW content \in Contents
  PROVE  Counted(RenderCount(d, p), content) = Answer(RenderSelect(d, r), content)
<1>1. PICK direct \in PlanRecords : direct = Direct(p) /\ direct.where = r.where
  <2>1. Direct(p) \in PlanRecords /\ Direct(p).where = p.where
    BY DirectIs
  <2>2. p.where = r.where
    BY DEF Selects
  <2> QED
    BY <2>1, <2>2
<1>2. PICK s, t : s = RenderSelect(d, direct) /\ t = RenderSelect(d, r)
  OBVIOUS
<1>3. RenderCount(d, p) = s
  BY <1>1, <1>2, RenderCountIs
<1>4. Says(s, Adapted(d, direct)) /\ ~Has(s, "outer")
  BY <1>2, RenderSelectSays
<1>5. PICK a \in PlanRecords : a = Adapted(d, r) /\ Says(t, a) /\ Kept(a, r)
  BY <1>2, RenderSelectSays, AdaptedIs
<1>6. Meeting(s, content) = Meeting(t, content)
  <2>1. GivesExpr(s, "where", r.where) /\ GivesExpr(t, "where", r.where)
    BY <1>1, <1>4, <1>5, AdaptedIs DEF Says, Kept
  <2>2. \A x : Met(s, x) <=> Met(t, x)
    BY <2>1 DEF Met, GivesExpr
  <2> QED
    BY <2>2 DEF Meeting
<1>7. ~Has(t, "group") /\ ~Only(t, "select")
  BY <1>5 DEF Says, GivesExpr, Kept, Selects, CountsDirectly
<1>8. ~Totals(t)
  <2>1. /\ DOMAIN Projected(t) = DOMAIN r.projections
        /\ \A k \in DOMAIN r.projections : Projected(t)[k] = Terminated(r.projections[k])
    BY <1>5, ProjectedIs DEF Kept
  <2>2. \A k \in DOMAIN r.projections : r.projections[k] \in Exprs /\ r.projections[k].kind = "column"
    BY ElementOfSeq DEF PlanRecords, CountsDirectly, IsColumn, Selects
  <2>3. \A k \in DOMAIN r.projections : Projected(t)[k].kind = "column"
    <3> TAKE k \in DOMAIN r.projections
    <3>1. PICK e \in Exprs : e = r.projections[k] /\ e.kind = "column"
      BY <2>2
    <3>2. Terminated(e).kind = "column"
      BY <3>1, TerminatedIs
    <3> QED
      BY <2>1, <3>1, <3>2
  <2> QED
    BY <2>1, <2>3 DEF Totals, AddsUp
<1>9. Groups(t, content) = {{x} : x \in Meeting(t, content)}
  BY <1>7, <1>8, GroupsIs
<1>10. IsFiniteSet(Meeting(t, content)) /\ Cardinality(Meeting(t, content)) \in Nat
  BY RenderingAssumption, MeetingIs
<1>11. Found(t, content) = Cardinality(Meeting(t, content))
  BY <1>7, <1>9, <1>10, SinglesAre DEF Found
<1>12. Answer(t, content) = Cardinality(Meeting(t, content))
  <2>1. PageValid(r.offset)
    BY DEF PageValid
  <2>2. Answer(t, content) = Page(Found(t, content), NotGiven, NotGiven)
    BY <1>2, <2>1, SelectAnswers
  <2> QED
    BY <1>10, <1>11, <2>2, WholePage
<1>13. Counted(s, content) = Cardinality(Meeting(s, content))
  BY <1>4, Zenon DEF Counted, Meeting
<1> QED
  BY <1>2, <1>3, <1>6, <1>12, <1>13
-----------------------------------------------------------------------------
(* What the compiler makes of the options.                                 *)
LEMMA PlanSelectIs ==
  ASSUME NEW q \in Options
  PROVE  /\ PlanSelect(q) \in PlanRecords /\ PlanSelect(q).operation = "select"
         /\ PlanSelect(q).where = q.where /\ PlanSelect(q).group = q.group
         /\ PlanSelect(q).having = q.having /\ PlanSelect(q).distinct = q.distinct
         /\ PlanSelect(q).order = q.order /\ PlanSelect(q).forUpdate = q.forUpdate
         /\ PlanSelect(q).limit = q.limit /\ PlanSelect(q).offset = q.offset
<1> DEFINE mark == IF q.mark THEN <<[kind |-> "column", column |-> "b", comment |-> FALSE]>> ELSE << >>
<1>1. q.columns \in Seq(Exprs) /\ mark \in Seq(Exprs)
  <2>1. [kind |-> "column", column |-> "b", comment |-> FALSE] \in Exprs
    BY DEF Exprs
  <2> QED
    BY <2>1, OneIs, NoneIs DEF Options
<1>2. PICK columns \in Seq(Exprs) : columns = q.columns \o mark
  BY <1>1, ConcatProperties
<1>3. PlanSelect(q) =
        [operation |-> "select", projections |-> columns,
         where |-> q.where, order |-> q.order, limit |-> q.limit, offset |-> q.offset,
         forUpdate |-> q.forUpdate, distinct |-> q.distinct, group |-> q.group, having |-> q.having]
  BY <1>2 DEF PlanSelect
<1> QED
  BY <1>3 DEF PlanRecords, Options

LEMMA PlanSelectProjects ==
  ASSUME NEW q \in Options
  PROVE  /\ ~q.mark => PlanSelect(q).projections = q.columns
         /\ \A r \in Options : (r.columns = q.columns /\ r.mark = q.mark) =>
              PlanSelect(r).projections = PlanSelect(q).projections
<1>1. ~q.mark => PlanSelect(q).projections = q.columns
  <2>1. q.columns \in Seq(Exprs)
    BY DEF Options
  <2>2. q.columns \o << >> = q.columns
    BY <2>1, ConcatEmptySeq
  <2> QED
    BY <2>2 DEF PlanSelect
<1> QED
  BY <1>1 DEF PlanSelect

LEMMA UnpagedIs ==
  ASSUME NEW q \in Options
  PROVE  /\ Unpaged(q) \in Options
         /\ Unpaged(q).columns = q.columns /\ Unpaged(q).mark = q.mark
         /\ Unpaged(q).where = q.where /\ Unpaged(q).group = q.group
         /\ Unpaged(q).having = q.having /\ Unpaged(q).distinct = q.distinct
         /\ Unpaged(q).order = NotGiven /\ Unpaged(q).forUpdate = FALSE
         /\ Unpaged(q).limit = NotGiven /\ Unpaged(q).offset = NotGiven
BY DEF Unpaged, Options, Perhaps

LEMMA PlanCountIs ==
  ASSUME NEW q \in Options
  PROVE  /\ PlanCount(q) \in PlanRecords /\ PlanCount(q).operation = "count"
         /\ Selects(PlanCount(q), PlanSelect(q))
         /\ PlanCount(q).limit = NotGiven /\ PlanCount(q).offset = NotGiven
<1>1. PICK u \in Options :
        /\ u = Unpaged(q) /\ u.columns = q.columns /\ u.mark = q.mark
        /\ u.where = q.where /\ u.group = q.group /\ u.having = q.having
        /\ u.distinct = q.distinct /\ u.limit = NotGiven /\ u.offset = NotGiven
  BY UnpagedIs
<1>2. PICK p \in PlanRecords : p = PlanSelect(u)
  BY PlanSelectIs
<1>3. Selects(p, PlanSelect(q)) /\ p.limit = NotGiven /\ p.offset = NotGiven
  BY <1>1, <1>2, PlanSelectIs, PlanSelectProjects DEF Selects
<1>4. LET c == [p EXCEPT !.operation = "count"]
      IN  /\ c \in PlanRecords /\ c.operation = "count" /\ Selects(c, p)
          /\ c.limit = p.limit /\ c.offset = p.offset
  BY DEF PlanRecords, Selects
<1>5. PlanCount(q) = [p EXCEPT !.operation = "count"]
  BY <1>1, <1>2 DEF PlanCount
<1>6. Selects(PlanCount(q), p)
  BY <1>4, <1>5
<1>7. Selects(PlanCount(q), PlanSelect(q))
  BY <1>3, <1>6 DEF Selects
<1> QED
  BY <1>3, <1>4, <1>5, <1>7

(* The compiler asked the order of a distinct select to be projected.      *)
LEMMA AcceptedSorts ==
  ASSUME NEW q \in Options, SelectAccepts(q)
  PROVE  Sorts(PlanSelect(q))
<1> SUFFICES ASSUME PlanSelect(q).order # NotGiven, PlanSelect(q).distinct
             PROVE  DistinctOrdering(PlanSelect(q).projections, PlanSelect(q).order)
  BY DEF Sorts
<1>1. q.order # NotGiven /\ q.distinct /\ ~q.mark
  BY PlanSelectIs DEF SelectAccepts
<1>2. DistinctOrdering(q.columns, q.order)
  BY <1>1 DEF SelectAccepts
<1> QED
  BY <1>1, <1>2, PlanSelectIs, PlanSelectProjects

-----------------------------------------------------------------------------
(* What the states of the model have in common.                            *)
Planned ==
  /\ plan \in PlanRecords /\ plan.operation = terminal
  /\ query # NotGiven =>
       Accepts(query) /\ plan = IF terminal = "count" THEN PlanCount(query) ELSE PlanSelect(query)

RenderingInv ==
  /\ terminal \in {"select", "count"} /\ dialect \in Dialects
  /\ query \in Options \cup {NotGiven}
  /\ phase \in {"asked", "planned", "rendered", "refused"}
  /\ phase = "asked" => query \in Options /\ plan = NotGiven
  /\ phase \in {"planned", "rendered"} => Planned
  /\ phase = "refused" => plan = NotGiven \/ Planned
  /\ phase = "rendered" => DialectAccepts(dialect, plan) /\ statement = Rendered(dialect, plan)

(* The plan is the compiler's own, of a query it accepts, and the          *)
(* statement the dialect's own, of a plan it accepts.  (Query.select,      *)
(* compiler.py; render)                                                    *)
THEOREM RenderingInvariance == RenderingSpec => []RenderingInv
<1>1. RenderingInit => RenderingInv
  BY RenderingAssumption DEF RenderingInit, RenderingInv, Planned
<1>2. RenderingInv /\ [RenderingNext]_renderingVars => RenderingInv'
  <2> SUFFICES ASSUME RenderingInv, [RenderingNext]_renderingVars
               PROVE  RenderingInv'
    OBVIOUS
  <2>1. CASE Plan
    <3>1. query \in Options /\ phase' = "planned" /\ Accepts(query)
      BY <2>1 DEF Plan, RenderingInv
    <3>2. plan' \in PlanRecords /\ plan'.operation = terminal
      BY <2>1, <3>1, PlanCountIs, PlanSelectIs DEF Plan, RenderingInv
    <3> QED
      BY <2>1, <3>1, <3>2 DEF Plan, RenderingInv, Planned, Accepts
  <2>2. CASE Render
    BY <2>2 DEF Render, RenderingInv, Planned, Accepts
  <2>3. CASE RefuseQuery
    BY <2>3 DEF RefuseQuery, RenderingInv, Planned, Accepts
  <2>4. CASE UNCHANGED renderingVars
    BY <2>4 DEF renderingVars, RenderingInv, Planned, Accepts
  <2> QED
    BY <2>1, <2>2, <2>3, <2>4 DEF RenderingNext
<1> QED
  BY <1>1, <1>2, PTL DEF RenderingSpec

(* Accepted queries run: nothing hides a part of their text, and no        *)
(* combination of options makes a statement the database refuses.          *)
(* (plan_select, distinct_ordering, render, _fragment)                     *)
THEOREM QueriesRun == RenderingSpec => []AcceptedQueriesRun
<1>1. RenderingInv => AcceptedQueriesRun
  <2> SUFFICES ASSUME RenderingInv, phase = "rendered"
               PROVE  /\ Seen(statement) = statement
                      /\ query # NotGiven => Runs(dialect, statement)
    BY DEF AcceptedQueriesRun
  <2>1. /\ plan \in PlanRecords /\ dialect \in Dialects /\ plan.operation = terminal
        /\ DialectAccepts(dialect, plan) /\ statement = Rendered(dialect, plan)
    BY DEF RenderingInv, Planned
  <2>2. statement \in Seq(Pieces)
    BY <2>1, RenderedIs
  <2>3. GroupingAccepts(plan)
    BY <2>1, AcceptedIs DEF RenderAccepts
  <2>4. ASSUME query # NotGiven
        PROVE  Runs(dialect, statement)
    <3>1. plan.operation = "select" => Sorts(plan)
      <4> SUFFICES ASSUME plan.operation = "select"
                   PROVE  Sorts(plan)
        OBVIOUS
      <4>1. query \in Options /\ SelectAccepts(query) /\ plan = PlanSelect(query)
        BY <2>1, <2>4 DEF RenderingInv, Planned, Accepts
      <4> QED
        BY <4>1, AcceptedSorts
    <3> QED
      BY <2>1, <2>3, <3>1, RenderedIs
  <2> QED
    BY <2>2, <2>4, SeenIs
<1> QED
  BY <1>1, RenderingInvariance, PTL

(* count() is the number of rows fetch() returns, on every table.          *)
(* (plan_count, _count)                                                    *)
THEOREM CountsMatch == RenderingSpec => []CountMatchesFetch
<1>1. RenderingInv => CountMatchesFetch
  <2> SUFFICES ASSUME RenderingInv, phase = "rendered", terminal = "count", query # NotGiven,
                      NEW content \in Contents
               PROVE  Counted(statement, content) = Answer(RenderSelect(dialect, PlanSelect(query)), content)
    BY DEF CountMatchesFetch
  <2>1. /\ query \in Options /\ dialect \in Dialects
        /\ plan = PlanCount(query) /\ CountAccepts(query) /\ statement = Rendered(dialect, plan)
    BY DEF RenderingInv, Planned, Accepts
  <2>2. PICK p \in PlanRecords : p = PlanCount(query)
    BY <2>1, PlanCountIs
  <2>3. PICK r \in PlanRecords : r = PlanSelect(query)
    BY <2>1, PlanSelectIs
  <2>4. p.operation = "count" /\ Selects(p, r) /\ p.limit = NotGiven /\ p.offset = NotGiven
    BY <2>1, <2>2, <2>3, PlanCountIs
  <2>5. r.limit = NotGiven /\ r.offset = NotGiven
    BY <2>1, <2>3, PlanSelectIs DEF CountAccepts, NotPaged
  <2>6. statement = RenderCount(dialect, p)
    BY <2>1, <2>2, <2>4 DEF Rendered
  <2>7. Counted(RenderCount(dialect, p), content) = Answer(RenderSelect(dialect, r), content)
    <3>1. CASE CountsDirectly(p)
      BY <2>1, <2>4, <2>5, <3>1, DirectCounts
    <3>2. CASE ~CountsDirectly(p)
      BY <2>1, <2>4, <2>5, <3>2, NestedCounts
    <3> QED
      BY <3>1, <3>2
  <2> QED
    BY <2>3, <2>6, <2>7
<1> QED
  BY <1>1, RenderingInvariance, PTL

(* The dialects take the same plans, and answer with as many rows.         *)
(* (PostgresDialect.render, SqliteDialect.render)                          *)
THEOREM DialectsAlike == RenderingSpec => []DialectsAgree
<1>1. RenderingInv => DialectsAgree
  <2> SUFFICES ASSUME RenderingInv
               PROVE  DialectsAgree
    OBVIOUS
  <2>1. ASSUME plan \in PlanRecords
        PROVE  DialectAccepts("postgresql", plan) = DialectAccepts("sqlite", plan)
    <3>1. "postgresql" \in Dialects /\ "sqlite" \in Dialects
      BY DEF Dialects
    <3>2. DialectAccepts("postgresql", plan) <=> DialectAccepts("sqlite", plan)
      BY <2>1, <3>1, AcceptedIs
    <3>3. DialectAccepts("postgresql", plan) \in BOOLEAN /\ DialectAccepts("sqlite", plan) \in BOOLEAN
      BY Zenon DEF DialectAccepts
    <3> QED
      BY <3>2, <3>3
  <2>2. ASSUME phase = "rendered", terminal = "select", NEW content \in Contents, NEW d \in Dialects
        PROVE  Answer(RenderSelect(d, plan), content) = Answer(statement, content)
    <3>1. /\ plan \in PlanRecords /\ plan.operation = "select" /\ dialect \in Dialects
          /\ DialectAccepts(dialect, plan) /\ statement = Rendered(dialect, plan)
      BY <2>2 DEF RenderingInv, Planned
    <3>2. PageValid(plan.offset)
      BY <3>1, AcceptedIs DEF RenderAccepts
    <3>3. statement = RenderSelect(dialect, plan)
      BY <3>1 DEF Rendered
    <3> QED
      BY <3>1, <3>2, <3>3, DialectsAnswerAlike
  <2>3. (phase \in {"planned", "rendered", "refused"} /\ plan # NotGiven) => plan \in PlanRecords
    BY DEF RenderingInv, Planned
  <2> QED
    BY <2>1, <2>2, <2>3 DEF DialectsAgree
<1> QED
  BY <1>1, RenderingInvariance, PTL
=============================================================================
