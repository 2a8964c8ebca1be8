------------------------------- MODULE Writes -------------------------------
(***************************************************************************)
(* Table writes of src/asqueel/writes.py and their hooks, by several       *)
(* threads over the rows of one table.  Each thread has its own connection *)
(* and call stack (runtime.py keeps both thread-local); threads meet in    *)
(* the database, which locks rows for whoever reads them FOR UPDATE or     *)
(* changes them, until that connection completes.                          *)
(*                                                                         *)
(* A column's value is the number of the write that gave it its value, 0   *)
(* at the start, so a committed row tells where each part of it is from.   *)
(* Primary keys are not changed; one connection name per thread.           *)
(***************************************************************************)
EXTENDS Integers, Sequences, FiniteSets

CONSTANTS
  Threads,
  Keys,           \* primary keys of the table
  Columns,        \* its other columns
  Starts,         \* bound: the sets of rows that may be there at first
  Absent,         \* "no row"
  Nobody,         \* "not locked"
  MaxWrites,      \* bound: write operations entered
  MaxDepth,       \* bound: nested operations on one call stack
  MaxFailures     \* bound: statements that fail

ASSUME ThreadAssumption == Nobody \notin Threads
ASSUME RowAssumption ==
  /\ Absent \notin [Columns -> Nat] /\ IsFiniteSet(Keys)
  /\ \A held \in Starts : held \subseteq Keys
ASSUME WriteBoundAssumption == {MaxWrites, MaxDepth, MaxFailures} \subseteq Nat

VARIABLES
  conn,       \* per thread: its _ConnectionState
  stack,      \* per thread: writes in progress, innermost last
  triggers,   \* per thread: TriggerStack.stack, the writes named by its items
  exc,        \* per thread: the propagating exception
  \* The database:
  committed,  \* per key: the committed row
  lock,       \* per key: the thread whose open unit has locked the row
  own,        \* per key: the row as that unit sees it
  \* History, for the properties only:
  within,     \* per write: the writes in progress it was entered in
  broken,     \* writes an exception escaped from
  unit,       \* per thread: number of its latest unit of work
  begun,      \* units begun so far
  durable,    \* units the database accepted
  touched,    \* <<w, u>>: the statement of write w ran in unit u
  stale,      \* units with an update from a snapshot of an earlier unit
  failures    \* statements that failed

program == <<conn, stack, triggers, exc>>
database == <<committed, lock, own>>
history == <<within, broken, unit, begun, durable, touched, stale, failures>>
vars == <<program, database, history>>

----------------------------------------------------------------------------
NoError == 0
Other == -1
Rows == [Columns -> Nat]
States == [pending : BOOLEAN, failed : BOOLEAN, execution_count : Nat, execution_error : Nat]

\* A write in progress.  "read": before the locked read; "before" and "after":
\* the hooks before and after the statement have control; "batch": runtime code
\* between the inner writes of a list insert or a soft delete.  "failed": what
\* the runtime raised after the hooks is out of their reach.
Operations == {"insert", "update", "delete", "batch"}
Phases == {"read", "before", "after", "batch", "failed"}
Frames == [op : Operations, raw : BOOLEAN, phase : Phases, id : Nat, count : Nat,
           keys : SUBSET Keys,               \* rows the caller's selector matches
           set : SUBSET Columns,             \* columns caller and hooks assign
           old : Rows \cup {Absent},         \* old_record
           unit : Nat,                       \* the unit old_record was read in
           inner : Operations, left : Nat]   \* of a batch: writes still to do

Init ==
  /\ conn = [t \in Threads |-> [pending |-> FALSE, failed |-> FALSE,
                                execution_count |-> 0, execution_error |-> NoError]]
  /\ stack = [t \in Threads |-> <<>>]
  /\ triggers = [t \in Threads |-> <<>>]
  /\ exc = [t \in Threads |-> NoError]
  /\ \E held \in Starts :
       committed = [k \in Keys |-> IF k \in held THEN [c \in Columns |-> 0] ELSE Absent]
  /\ lock = [k \in Keys |-> Nobody] /\ own = committed
  /\ within = <<>> /\ broken = {} /\ begun = 0 /\ durable = {} /\ touched = {}
  /\ unit = [t \in Threads |-> 0] /\ stale = {} /\ failures = 0

TypeOK ==
  /\ conn \in [Threads -> States]
  /\ stack \in [Threads -> Seq(Frames)]
  /\ triggers \in [Threads -> Seq(1..Len(within))]
  /\ exc \in [Threads -> {NoError, Other} \cup Nat]
  /\ committed \in [Keys -> Rows \cup {Absent}] /\ own \in [Keys -> Rows \cup {Absent}]
  /\ lock \in [Keys -> Threads \cup {Nobody}]
  /\ within \in Seq(SUBSET Nat) /\ broken \subseteq 1..Len(within)
  /\ begun \in Nat /\ unit \in [Threads -> 0..begun]
  /\ durable \subseteq 1..begun /\ stale \subseteq 1..begun
  /\ touched \subseteq (1..Len(within)) \X (1..begun)
  /\ failures \in Nat

----------------------------------------------------------------------------
Top(t) == stack[t][Len(stack[t])]
OnTop(t, phases) == stack[t] # <<>> /\ Top(t).phase \in phases
Below(t) == SubSeq(stack[t], 1, Len(stack[t]) - 1)
SetStack(t, s) == stack' = [stack EXCEPT ![t] = s]
ChangeTop(t, f) == SetStack(t, Append(Below(t), f))
Raise(t, e) == exc' = [exc EXCEPT ![t] = e]
\* The runtime raises in the innermost write.
Escapes(t) ==
  IF Top(t).phase = "before" THEN ChangeTop(t, [Top(t) EXCEPT !.phase = "failed"])
  ELSE UNCHANGED stack

\* The application or a hook has control.
UserCode(t) == stack[t] = <<>> \/ OnTop(t, {"before", "after"})
MayCall(t) == UserCode(t) /\ exc[t] = NoError
\* The runtime's code has control, or takes it back from the hooks.
Running(t, phases) == OnTop(t, phases) /\ exc[t] = NoError
\* Mutant of Usable: rollback-only is not consulted.
UsableAlways(t) == TRUE
Usable(t) == ~conn[t].failed
\* Mutant of Boundary: completion is not refused in a hook.
BoundaryIgnored(t) == TRUE
Boundary(t) == stack[t] = <<>>                 \* write_depth = 0

----------------------------------------------------------------------------
(* The database and the connection.                                         *)

\* What t sees: its own uncommitted changes over the committed rows.
View(t, k) == IF lock[k] = t THEN own[k] ELSE committed[k]
Visible(t, keys) == {k \in keys : View(t, k) # Absent}
Free(t, keys) == \A k \in keys : lock[k] \in {t, Nobody}
LockedBy(t, keys) == [k \in Keys |-> IF k \in keys THEN t ELSE lock[k]]

\* Mutant of UnitOf: every statement opens a unit.
UnitOfEachStatement(t) == begun + 1
\* The unit a statement of t runs in; the first one opens it.
UnitOf(t) == IF conn[t].pending THEN unit[t] ELSE begun + 1
Executed(t) ==
  /\ conn' = [conn EXCEPT ![t].pending = TRUE, ![t].execution_count = @ + 1,
                          ![t].execution_error = NoError]
  /\ unit' = [unit EXCEPT ![t] = UnitOf(t)]
  /\ begun' = IF conn[t].pending THEN begun ELSE begun + 1

\* The unit of t is over and leaves these rows.
Release(t, rows) ==
  /\ committed' = rows
  /\ lock' = [k \in Keys |-> IF lock[k] = t THEN Nobody ELSE lock[k]]
  /\ own' = [k \in Keys |-> IF lock[k] = t THEN rows[k] ELSE own[k]]
Accepted(t) == [k \in Keys |-> View(t, k)]

\* _execute_on_connection raised: what the unit had done is rolled back, or
\* the rollback failed and the connection was discarded.
ExecutionFails(t, rolledBack) ==
  /\ Usable(t) /\ failures < MaxFailures
  /\ LET e == conn[t].execution_count + 1 IN
     /\ conn' = [conn EXCEPT ![t] = [pending |-> FALSE, failed |-> ~rolledBack,
                                     execution_count |-> e, execution_error |-> e]]
     /\ Raise(t, e)
  /\ Release(t, committed)
  /\ failures' = failures + 1
  /\ UNCHANGED <<triggers, within, broken, unit, begun, durable, touched, stale>>

\* A statement of the application or of a hook.
UserStatementFails(t, rolledBack) ==
  MayCall(t) /\ ExecutionFails(t, rolledBack) /\ UNCHANGED stack

\* The locked read, or the statement of the write.
OwnStatementFails(t, rolledBack) ==
  /\ Running(t, {"read", "before"}) /\ ExecutionFails(t, rolledBack)
  /\ Escapes(t)

----------------------------------------------------------------------------
(* A write: its scope, trigger item, locked read, hooks and statement.      *)

HasItem(f) == f.op # "batch" /\ ~(f.op = "delete" /\ f.phase = "read")
Entered(t, f) == IF HasItem(f) THEN Append(triggers[t], f.id) ELSE triggers[t]
\* Mutant of Left: the item of a write that failed stays on the stack.
LeftIfReturned(t, f) ==
  IF HasItem(f) /\ exc[t] = NoError
  THEN SubSeq(triggers[t], 1, Len(triggers[t]) - 1) ELSE triggers[t]
Left(t, f) ==
  IF HasItem(f) THEN SubSeq(triggers[t], 1, Len(triggers[t]) - 1) ELSE triggers[t]

Frame(t, op, raw, keys, set) ==
  [op |-> op, raw |-> raw, id |-> Len(within) + 1, count |-> conn[t].execution_count,
   phase |-> IF op = "batch" THEN "batch"
             ELSE IF op = "insert" \/ raw THEN "before" ELSE "read",
   keys |-> keys, set |-> set, old |-> Absent, unit |-> 0, inner |-> op, left |-> 0]

Enter(t, below, f) ==
  /\ Usable(t)
  /\ Len(within) < MaxWrites /\ Len(below) < MaxDepth
  /\ SetStack(t, Append(below, f))
  /\ triggers' = [triggers EXCEPT ![t] = Entered(t, f)]
  /\ within' = Append(within, {stack[t][i].id : i \in DOMAIN stack[t]})
  /\ UNCHANGED <<conn, exc, database, broken, unit, begun, durable, touched, stale, failures>>

\* insert, update, delete and their raw forms.  A selector is the rows it
\* matches; an insert names one row and all columns.
WriteBegin(t) ==
  /\ MayCall(t)
  /\ \E raw \in BOOLEAN, keys \in (SUBSET Keys) \ {{}} :
       \/ Cardinality(keys) = 1 /\ Enter(t, stack[t], Frame(t, "insert", raw, keys, Columns))
       \/ \E set \in (SUBSET Columns) \ {{}} :
            Enter(t, stack[t], Frame(t, "update", raw, keys, set))
       \/ Enter(t, stack[t], Frame(t, "delete", raw, keys, {}))

\* The scope around the raw inserts of a list, or around the update of a soft
\* delete or restore.
BatchBegin(t) ==
  /\ MayCall(t)
  /\ Len(stack[t]) + 1 < MaxDepth
  /\ \E inner \in {"insert", "update"}, left \in 1..2 :
       /\ inner = "update" => left = 1
       /\ Enter(t, stack[t], [Frame(t, "batch", TRUE, {}, {}) EXCEPT
                                !.inner = inner, !.left = left])

BatchStep(t) ==
  /\ Running(t, {"batch"}) /\ Top(t).left > 0
  /\ LET f == [Top(t) EXCEPT !.left = @ - 1] IN
     \E keys \in (SUBSET Keys) \ {{}} :
       IF f.inner = "insert"
       THEN /\ Cardinality(keys) = 1
            /\ Enter(t, Append(Below(t), f), Frame(t, "insert", TRUE, keys, Columns))
       ELSE \E c \in Columns :
              Enter(t, Append(Below(t), f), Frame(t, "update", FALSE, keys, {c}))

\* The arguments are refused inside the scope of the write.
WriteRejected(t) ==
  /\ MayCall(t) /\ Usable(t)
  /\ conn' = [conn EXCEPT ![t].failed = TRUE]
  /\ Raise(t, Other)
  /\ UNCHANGED <<stack, triggers, database, history>>

\* Mutant of LocksRead: the read takes no lock.
LocksReadNothing(found) == {}
\* FOR UPDATE locks what the read returns.
LocksRead(found) == found

\* _locked_record: up to two of the matching rows, exactly one is required.
LockedRead(t) ==
  /\ Running(t, {"read"})
  /\ \E found \in SUBSET Visible(t, Top(t).keys) :
       LET f == [Top(t) EXCEPT !.phase = "before", !.keys = found,
                               !.old = View(t, CHOOSE k \in found : TRUE), !.unit = UnitOf(t)]
       IN
       /\ \/ Cardinality(found) = 2
          \/ Cardinality(found) < 2 /\ found = Visible(t, Top(t).keys)
       /\ Free(t, found)
       /\ Executed(t)
       /\ lock' = LockedBy(t, LocksRead(found))
       /\ IF Cardinality(found) = 1
          THEN /\ ChangeTop(t, f)
               /\ triggers' = IF f.op = "delete"
                              THEN [triggers EXCEPT ![t] = Entered(t, f)] ELSE triggers
               /\ UNCHANGED exc
          ELSE Raise(t, Other) /\ UNCHANGED <<stack, triggers>>
  /\ UNCHANGED <<committed, own, within, broken, durable, touched, stale, failures>>

\* A hook that runs before the statement assigns a column of the record.
HookAssigns(t) ==
  /\ Running(t, {"before"}) /\ Top(t).op = "update"
  /\ \E c \in Columns \ Top(t).set : ChangeTop(t, [Top(t) EXCEPT !.set = @ \cup {c}])
  /\ UNCHANGED <<conn, triggers, exc, database, history>>

\* The row a statement leaves.  An ordinary update writes the whole record, the
\* old one with what caller and hooks assigned.
NewRow(f, row) ==
  IF f.op = "delete" THEN Absent
  ELSE [c \in Columns |-> IF c \in f.set THEN f.id ELSE IF f.raw THEN row[c] ELSE f.old[c]]

\* The hooks have returned and the statement runs on the rows the selector, or
\* the key of the locked record, still matches.
Statement(t) ==
  /\ Running(t, {"before"}) /\ Usable(t)
  /\ LET f == Top(t)
         seen == Visible(t, f.keys)
         hit == IF f.op = "insert" THEN f.keys ELSE seen
     IN
     /\ f.op = "insert" => seen = {}
     /\ Free(t, hit)
     /\ Executed(t)
     /\ lock' = LockedBy(t, hit)
     /\ own' = [k \in Keys |-> IF k \in hit THEN NewRow(f, View(t, k)) ELSE own[k]]
     /\ touched' = touched \cup {<<f.id, UnitOf(t)>>}
     /\ stale' = IF f.op = "update" /\ ~f.raw /\ f.unit # UnitOf(t)
                 THEN stale \cup {UnitOf(t)} ELSE stale
     /\ IF f.raw \/ Cardinality(hit) = 1
        THEN ChangeTop(t, [f EXCEPT !.phase = "after"]) /\ UNCHANGED exc
        ELSE Raise(t, Other) /\ Escapes(t)
  /\ UNCHANGED <<triggers, committed, within, broken, durable, failures>>

\* The runtime refuses the statement or the next inner write: a hook swallowed
\* what made the connection rollback-only, or the values do not compile.
StatementRefused(t) ==
  /\ Running(t, {"before", "batch"})
  /\ Top(t).phase = "batch" => Top(t).left > 0
  /\ Raise(t, Other) /\ Escapes(t)
  /\ UNCHANGED <<conn, triggers, database, history>>

WriteReturns(t) ==
  /\ Running(t, {"after", "batch"}) /\ Top(t).left = 0
  /\ SetStack(t, Below(t))
  /\ triggers' = [triggers EXCEPT ![t] = Left(t, Top(t))]
  /\ UNCHANGED <<conn, exc, database, history>>

\* Only the error of a statement this write ran has rolled the unit back.
RolledBackBy(s, f, e) == s.execution_count # f.count /\ s.execution_error = e

WriteFails(t) ==
  /\ stack[t] # <<>> /\ exc[t] # NoError
  /\ conn' = [conn EXCEPT ![t].failed = @ \/ ~RolledBackBy(conn[t], Top(t), exc[t])]
  /\ broken' = broken \cup {Top(t).id}
  /\ SetStack(t, Below(t))
  /\ triggers' = [triggers EXCEPT ![t] = Left(t, Top(t))]
  /\ UNCHANGED <<exc, database, within, unit, begun, durable, touched, stale, failures>>

----------------------------------------------------------------------------
(* User code raises and catches; the application completes its unit.        *)

UserRaise(t) ==
  /\ MayCall(t) /\ stack[t] # <<>>
  /\ Raise(t, Other)
  /\ UNCHANGED <<conn, stack, triggers, database, history>>

UserCatch(t) ==
  /\ UserCode(t) /\ exc[t] # NoError
  /\ Raise(t, NoError)
  /\ UNCHANGED <<conn, stack, triggers, database, history>>

MayComplete(t) == MayCall(t) /\ Boundary(t) /\ conn[t].pending

Commit(t) ==
  /\ MayComplete(t) /\ Usable(t)
  /\ Release(t, Accepted(t))
  /\ durable' = durable \cup {unit[t]}
  /\ conn' = [conn EXCEPT ![t].pending = FALSE]
  /\ UNCHANGED <<stack, triggers, exc, within, broken, unit, begun, touched, stale, failures>>

\* The driver raised; the database accepted the unit or did not.
CommitUncertain(t) ==
  /\ MayComplete(t) /\ Usable(t) /\ failures < MaxFailures
  /\ \/ Release(t, committed) /\ UNCHANGED durable
     \/ Release(t, Accepted(t)) /\ durable' = durable \cup {unit[t]}
  /\ conn' = [conn EXCEPT ![t].pending = FALSE, ![t].failed = TRUE]
  /\ Raise(t, Other)
  /\ failures' = failures + 1
  /\ UNCHANGED <<stack, triggers, within, broken, unit, begun, touched, stale>>

Rollback(t, ok) ==
  /\ MayCall(t) /\ Boundary(t) /\ (conn[t].pending \/ conn[t].failed)
  /\ ~ok => conn[t].pending /\ failures < MaxFailures
  /\ Release(t, committed)
  /\ conn' = [conn EXCEPT ![t].pending = FALSE, ![t].failed = ~ok]
  /\ Raise(t, IF ok THEN NoError ELSE Other)
  /\ failures' = IF ok THEN failures ELSE failures + 1
  /\ UNCHANGED <<stack, triggers, within, broken, unit, begun, durable, touched, stale>>

----------------------------------------------------------------------------
Next == \E t \in Threads :
  \/ WriteBegin(t) \/ BatchBegin(t) \/ BatchStep(t) \/ WriteRejected(t)
  \/ LockedRead(t) \/ HookAssigns(t) \/ Statement(t) \/ StatementRefused(t)
  \/ WriteReturns(t) \/ WriteFails(t)
  \/ UserRaise(t) \/ UserCatch(t)
  \/ Commit(t) \/ CommitUncertain(t)
  \/ \E ok \in BOOLEAN : \/ UserStatementFails(t, ok) \/ OwnStatementFails(t, ok)
                         \/ Rollback(t, ok)

Spec == Init /\ [][Next]_vars

----------------------------------------------------------------------------
(* What table writes promise.                                               *)

Present(rows) == {k \in Keys : rows[k] # Absent}
InProgress == UNION {{stack[t][i].id : i \in DOMAIN stack[t]} : t \in Threads}
\* The writes committed rows come from, with the writes these were entered in.
Origins ==
  (UNION {{committed[k][c] : c \in Columns} : k \in Present(committed)}) \ {0}
Family(w) == {w} \cup within[w]

\* Between its locked read and its statement an ordinary write works on what it
\* read: as long as no failure ended the unit, the row is locked and changed by
\* writes of its own hooks only, whatever other threads do (writes.py:103-116).
LockedSnapshotHolds ==
  \A t \in Threads : \A i \in DOMAIN stack[t] :
    LET f == stack[t][i] IN
    /\ f.op \in {"update", "delete"} /\ ~f.raw /\ f.phase = "before"
    /\ conn[t].pending /\ f.unit = unit[t]
    => \A k \in f.keys :
         /\ lock[k] = t
         /\ \/ own[k] = Absent
            \/ \A c \in Columns : own[k][c] = f.old[c] \/ f.id \in within[own[k][c]]

\* No part of a committed row comes from a write that an exception escaped
\* from, that is still in progress, or that was entered in such a write, also
\* where a later update copied it from a record it had read (runtime.py:234).
BrokenWriteLeavesNothing ==
  \A w \in Origins : Family(w) \cap (broken \cup InProgress) = {}

\* A commit brings what its own unit wrote and leaves the rest of every row as
\* it was: no update puts back a value another thread has replaced since
\* (writes.py:114).  Units with an update from the snapshot of an earlier unit
\* are set apart: see RolledBackStaysOut.
CommitsItsOwnWork ==
  [][\A t \in Threads :
       conn[t].pending /\ ~conn'[t].pending /\ unit[t] \notin stale
       => \A k \in Present(committed') : \A c \in Columns :
            \/ k \in Present(committed) /\ committed'[k][c] = committed[k][c]
            \/ <<committed'[k][c], unit[t]>> \in touched]_vars

\* The trigger stack names the application writes in progress, in their order,
\* on every way out of a write (triggers.py:53).
Items(t) == {i \in DOMAIN stack[t] : HasItem(stack[t][i])}
TriggersMirrorWrites ==
  \A t \in Threads :
    /\ Len(triggers[t]) = Cardinality(Items(t))
    /\ \A i \in Items(t) :
         triggers[t][Cardinality({j \in Items(t) : j <= i})] = stack[t][i].id

\* What was rolled back is not in the database: every value in a committed row
\* was written by a statement of an accepted unit (docs/guide/writes.md:173: an
\* SQL error rolls back all pending work, including earlier writes).
RolledBackStaysOut ==
  \A w \in Origins : \E u \in durable : <<w, u>> \in touched

\* Each thread's connection is a unit of work as Connections.tla has it.
Abstract == INSTANCE UnitOfWork WITH
  Names <- Threads,
  phase <- [t \in Threads |-> IF conn[t].failed THEN "blocked"
                              ELSE IF conn[t].pending THEN "open" ELSE "idle"]
ImplementsUnitOfWork == Abstract!Spec
=============================================================================
