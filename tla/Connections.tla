---------------------------- MODULE Connections ----------------------------
(***************************************************************************)
(* The execution service of src/asqueel/runtime.py as one thread sees it:  *)
(* the named connections of the thread, the write operations and commits   *)
(* in progress on its call stack, the exception propagating through that   *)
(* stack, and what user code (hooks, deferred callbacks, driver callbacks, *)
(* the application itself) may do whenever it has control.  Thread state   *)
(* is thread-local in the code, so threads meet only in the database.      *)
(*                                                                         *)
(* User code may select any connection name before any call (tempEnv), so  *)
(* the name is an input of every action.  A refused call changes nothing   *)
(* and raises: UserRaise stands for it.                                    *)
(***************************************************************************)
EXTENDS Integers, Sequences

CONSTANTS
  Names,          \* connection names used by the thread
  Callbacks,      \* (callback, _deferredId) keys of deferred callbacks
  Recursive,      \* the callbacks with deferredCommitRecursion set
  NoCallback,     \* "no callback is running"
  MaxExecs,       \* bound: statements executed
  MaxWrites,      \* bound: write operations entered
  MaxDepth        \* bound: nested operations on the call stack

ASSUME CallbackAssumption == Recursive \subseteq Callbacks /\ NoCallback \notin Callbacks
ASSUME BoundAssumption == {MaxExecs, MaxWrites, MaxDepth} \subseteq Nat

VARIABLES
  conn,       \* per name: the _ConnectionState record
  stack,      \* operations in progress, innermost last
  exc,        \* the propagating exception
  closed,     \* _ThreadState.closed
  \* History, for the properties only:
  execs,      \* statements executed so far; also names their exceptions
  writes,     \* write operations entered so far
  held,       \* the SQL exception user code caught last and may raise again
  unit,       \* per name: number of the latest unit of work
  begun,      \* units begun so far
  durable,    \* units the database accepted
  touched,    \* <<w, u>>: SQL of write w succeeded in unit u of its own connection
  broken,     \* writes an exception escaped from
  doomed,     \* units open when a deferredRaise was registered or a write failed
  sessions    \* per name: database sessions opened and not yet closed

control == <<stack, exc, closed>>
history == <<execs, writes, held, unit, begun, durable, touched, broken, doomed, sessions>>
vars == <<conn, control, history>>

----------------------------------------------------------------------------
(* Exceptions: none, the failed statement k > 0, or any other.              *)
NoError == 0
Other == -1
Exceptions == Int
Errors == {NoError, Other} \cup 1..execs

Queues == {"before", "after"}
Outcomes == {"not_started", "active", "committed", "rolled_back", "unknown"}

\* A deferred entry remembers the unit that was open when it was registered.
Entries == [callback : Callbacks, unit : Nat]
NoEntry == [callback |-> NoCallback, unit |-> 0]
NoDeferred == [q \in Queues |-> {}]

ConnectionStates ==
  [connection : BOOLEAN, pending : BOOLEAN, committing : BOOLEAN,
   completion_failed : BOOLEAN, failed : BOOLEAN, executing : BOOLEAN,
   closed : BOOLEAN, execution_error : Exceptions, execution_count : Nat,
   deferred : [Queues -> SUBSET Entries], pending_exceptions : BOOLEAN,
   outcome : Outcomes]

NewConnection ==
  [connection |-> FALSE, pending |-> FALSE, committing |-> FALSE,
   completion_failed |-> FALSE, failed |-> FALSE, executing |-> FALSE,
   closed |-> FALSE, execution_error |-> NoError, execution_count |-> 0,
   deferred |-> NoDeferred, pending_exceptions |-> FALSE,
   outcome |-> "not_started"]

\* One operation in progress.  kind says which fields matter: count is the
\* execution_count a write saw at entry, id its number or its statement's,
\* queue and run what a commit drains and calls, todo what a close has left.
Kinds == {"write", "execute", "commit", "closeConnection", "close"}
Frames == [kind : Kinds, name : Names, count : Nat, id : Nat, queue : Queues,
           run : Entries \cup {NoEntry}, todo : SUBSET Names]
Frame(kind, n) == [kind |-> kind, name |-> n, count |-> 0, id |-> 0,
                   queue |-> "before", run |-> NoEntry, todo |-> {}]

Init ==
  /\ conn = [n \in Names |-> NewConnection]
  /\ stack = <<>> /\ exc = NoError /\ closed = FALSE
  /\ execs = 0 /\ writes = 0 /\ held = NoError
  /\ unit = [n \in Names |-> 0] /\ begun = 0 /\ durable = {}
  /\ touched = {} /\ broken = {} /\ doomed = {}
  /\ sessions = [n \in Names |-> 0]

TypeOK ==
  /\ conn \in [Names -> ConnectionStates]
  /\ stack \in Seq(Frames)
  /\ exc \in Errors /\ held \in Errors
  /\ closed \in BOOLEAN
  /\ execs \in Nat /\ writes \in Nat /\ begun \in Nat
  /\ unit \in [Names -> 0..begun]
  /\ durable \subseteq 1..begun /\ doomed \subseteq 1..begun
  /\ touched \subseteq (1..writes) \X (1..begun)
  /\ broken \subseteq 1..writes
  /\ sessions \in [Names -> Nat]

----------------------------------------------------------------------------
(* The call stack.                                                          *)
Top == stack[Len(stack)]
OnTop(kind) == stack # <<>> /\ Top.kind = kind
Push(f) == stack' = Append(stack, f)
Pop == stack' = SubSeq(stack, 1, Len(stack) - 1)
ChangeTop(f) == stack' = [stack EXCEPT ![Len(stack)] = f]

\* Numbers of the write operations in progress on n's own connection.
OpenWrites(n) == {stack[i].id : i \in {j \in DOMAIN stack :
                    stack[j].kind = "write" /\ stack[j].name = n}}

\* User code has control: at the outermost level, in the body of a write, in
\* a driver callback during a statement, or in a deferred callback.
InUserCode ==
  \/ stack = <<>>
  \/ OnTop("write")
  \/ OnTop("execute")
  \/ OnTop("commit") /\ Top.run # NoEntry
MayCall == InUserCode /\ exc = NoError /\ ~closed
MayEnter == MayCall /\ Len(stack) < MaxDepth

----------------------------------------------------------------------------
(* The guards of the code.                                                  *)
CompletionAllowed(n) == ~conn[n].executing /\ ~conn[n].committing
\* Mutant of Usable: rollback-only is not consulted.
UsableAfterFailure(n) == ~conn[n].executing /\ ~conn[n].completion_failed
Usable(n) == ~conn[n].executing /\ ~conn[n].failed /\ ~conn[n].completion_failed
Boundary == \A i \in DOMAIN stack : stack[i].kind # "write"   \* write_depth = 0
\* Mutant of NeedsCommit: COMMIT is sent without pending SQL.
NeedsCommitAlways(n) == TRUE
NeedsCommit(n) == conn[n].pending
\* Mutant of CommitForbidden: deferredRaise is not consulted.
CommitForbiddenIfUnusable(n) == ~Usable(n)
CommitForbidden(n) == ~Usable(n) \/ conn[n].pending_exceptions

\* _mark_connection_failed, under a condition.
FailIf(s, condition) == [s EXCEPT !.failed = @ \/ condition]

\* Mutant of ClearDeferred: the after-queue survives.
ClearBeforeQueue(s) == [s EXCEPT !.deferred["before"] = {}, !.pending_exceptions = FALSE]
\* _clear_deferred, as a change of one connection record.
ClearDeferred(s) == [s EXCEPT !.deferred = NoDeferred, !.pending_exceptions = FALSE]

\* Mutant of OutcomeOf: the outcome is recorded before the driver answers.
OutcomeOptimistic(commit, ok) == IF commit THEN "committed" ELSE "rolled_back"
\* What _finish records of a unit once the driver succeeded or raised.
OutcomeOf(commit, ok) ==
  IF ~ok THEN "unknown" ELSE IF commit THEN "committed" ELSE "rolled_back"

\* _finish(state, commit): the record afterwards, when the driver's commit or
\* rollback succeeds (ok) or raises.  It raises iff s.pending /\ ~ok.
Finish(s, commit, ok) ==
  LET done == [s EXCEPT
        !.failed  = IF s.pending THEN ~ok ELSE s.outcome = "unknown" /\ s.failed,
        !.outcome = IF s.pending THEN OutcomeOf(commit, ok) ELSE @,
        !.connection = @ /\ (s.pending => ok),
        !.pending = FALSE,
        !.executing = @ /\ ~s.pending]
  IN  IF commit /\ ok THEN done ELSE ClearDeferred(done)

\* Sessions of n left after Finish discarded the connection, or did not.
SessionsAfter(n, ok) ==
  [sessions EXCEPT ![n] = IF conn[n].pending /\ ~ok THEN @ - 1 ELSE @]

----------------------------------------------------------------------------
(* _execute_on_connection: the statement runs on the selected connection,   *)
(* opened lazily; a failure rolls the unit back before it propagates.       *)

\* The record while a statement runs, and when the statement has raised e.
Started(s) ==
  [s EXCEPT !.execution_count = @ + 1, !.executing = TRUE,
            !.execution_error = NoError, !.connection = TRUE,
            !.pending = TRUE, !.outcome = "active"]
Raised(s, e, rolledBack) ==
  [Finish([s EXCEPT !.execution_error = e, !.completion_failed = s.committing],
          FALSE, rolledBack) EXCEPT !.executing = FALSE]

ExecuteBegin(n) ==
  LET u == IF conn[n].pending THEN unit[n] ELSE begun + 1 IN
  /\ MayEnter /\ Usable(n) /\ execs < MaxExecs
  /\ execs' = execs + 1
  /\ conn' = [conn EXCEPT ![n] = Started(conn[n])]
  /\ Push([Frame("execute", n) EXCEPT !.id = execs + 1])
  /\ unit' = [unit EXCEPT ![n] = u]
  /\ begun' = IF conn[n].pending THEN begun ELSE u
  /\ doomed' = IF conn[n].pending_exceptions THEN doomed \cup {u} ELSE doomed
  /\ sessions' = [sessions EXCEPT ![n] = IF conn[n].connection THEN @ ELSE @ + 1]
  /\ UNCHANGED <<exc, closed, writes, held, durable, touched, broken>>

ConnectFails(n) ==
  /\ MayCall /\ Usable(n) /\ execs < MaxExecs
  /\ ~conn[n].connection
  /\ execs' = execs + 1
  /\ conn' = [conn EXCEPT ![n] =
                Raised([conn[n] EXCEPT !.execution_count = @ + 1], execs + 1, TRUE)]
  /\ exc' = execs + 1
  /\ UNCHANGED <<stack, closed, writes, held, unit, begun, durable, touched,
                 broken, doomed, sessions>>

ExecuteReturns ==
  /\ OnTop("execute") /\ exc = NoError
  /\ conn' = [conn EXCEPT ![Top.name].executing = FALSE]
  /\ touched' = touched \cup {<<w, unit[Top.name]>> : w \in OpenWrites(Top.name)}
  /\ Pop
  /\ UNCHANGED <<exc, closed, execs, writes, held, unit, begun, durable, broken,
                 doomed, sessions>>

\* The statement raised, or the exception of a driver callback escaped it.
ExecuteFails(rolledBack) ==
  /\ OnTop("execute")
  /\ LET n == Top.name
         e == IF exc = NoError THEN Top.id ELSE exc
     IN /\ conn' = [conn EXCEPT ![n] = Raised(conn[n], e, rolledBack)]
        /\ exc' = e
        /\ sessions' = SessionsAfter(n, rolledBack)
  /\ Pop
  /\ UNCHANGED <<closed, execs, writes, held, unit, begun, durable, touched,
                 broken, doomed>>

----------------------------------------------------------------------------
(* _write_operation: the scope of a table write with its hooks.             *)

WriteBegin(n) ==
  /\ MayEnter /\ Usable(n) /\ writes < MaxWrites
  /\ writes' = writes + 1
  /\ Push([Frame("write", n) EXCEPT !.id = writes + 1,
                                    !.count = conn[n].execution_count])
  /\ UNCHANGED <<conn, exc, closed, execs, held, unit, begun, durable, touched,
                 broken, doomed, sessions>>

WriteReturns ==
  /\ OnTop("write") /\ exc = NoError
  /\ Pop
  /\ UNCHANGED <<conn, exc, closed, history>>

\* Mutant of RolledBackBy: any error counts once the write has run SQL.
RolledBackByAny(s, f, e) == s.execution_count # f.count
\* Only the error of a statement this write ran on its own connection has
\* rolled that connection back already.
RolledBackBy(s, f, e) == s.execution_count # f.count /\ s.execution_error = e

WriteFails ==
  /\ OnTop("write") /\ exc # NoError
  /\ conn' = [conn EXCEPT ![Top.name] =
                FailIf(conn[Top.name], ~RolledBackBy(conn[Top.name], Top, exc))]
  /\ broken' = broken \cup {Top.id}
  /\ doomed' = IF conn[Top.name].pending THEN doomed \cup {unit[Top.name]} ELSE doomed
  /\ Pop
  /\ UNCHANGED <<exc, closed, execs, writes, held, unit, begun, durable, touched,
                 sessions>>

----------------------------------------------------------------------------
(* Deferred work.                                                           *)

SetQueue(s, q, entries) == [s EXCEPT !.deferred = [@ EXCEPT ![q] = entries]]

\* deferToCommit, deferAfterCommit: a key already queued keeps its entry.
Defer(n, q, c) ==
  /\ MayCall /\ Usable(n)
  /\ \A e \in conn[n].deferred[q] : e.callback # c
  /\ LET e == [callback |-> c, unit |-> IF conn[n].pending THEN unit[n] ELSE 0] IN
     conn' = [conn EXCEPT ![n] = SetQueue(conn[n], q, conn[n].deferred[q] \cup {e})]
  /\ UNCHANGED <<control, history>>

DeferredRaise(n) ==
  /\ MayCall /\ Usable(n)
  /\ conn' = [conn EXCEPT ![n].pending_exceptions = TRUE]
  /\ doomed' = IF conn[n].pending THEN doomed \cup {unit[n]} ELSE doomed
  /\ UNCHANGED <<control, execs, writes, held, unit, begun, durable, touched,
                 broken, sessions>>

----------------------------------------------------------------------------
(* commit: before-callbacks, COMMIT, after-callbacks, and again for what    *)
(* the after-callbacks left pending.  Without pending SQL it does nothing.  *)

CommitEnters(s) == [s EXCEPT !.committing = TRUE, !.completion_failed = FALSE]

CommitBegin(n) ==
  /\ MayEnter /\ Boundary
  /\ CompletionAllowed(n) /\ ~conn[n].failed
  /\ NeedsCommit(n)
  /\ conn' = [conn EXCEPT ![n] = CommitEnters(conn[n])]
  /\ Push(Frame("commit", n))
  /\ UNCHANGED <<exc, closed, history>>

\* The commit in progress has control, between two callbacks.
Draining(q) == OnTop("commit") /\ Top.queue = q /\ Top.run = NoEntry /\ exc = NoError
Drained(q) == Draining(q) /\ conn[Top.name].deferred[q] = {}

CallbackBegin ==
  \E q \in Queues :
    /\ Draining(q)
    /\ \E e \in conn[Top.name].deferred[q] :
         /\ conn' = [conn EXCEPT ![Top.name] = SetQueue(conn[Top.name], q,
                                      conn[Top.name].deferred[q] \ {e})]
         /\ ChangeTop([Top EXCEPT !.run = e])
    /\ UNCHANGED <<exc, closed, history>>

\* Mutant of StaysQueued: the re-entry of the same key is kept.
StaysQueuedAlways(e, c) == TRUE
\* A key queued again while its callback ran is dropped, unless recursive.
StaysQueued(e, c) == e.callback # c \/ c \in Recursive

\* After each callback the connection is checked again, for the callback may
\* have caught what failed.
CallbackReturns ==
  /\ OnTop("commit") /\ Top.run # NoEntry /\ exc = NoError
  /\ ChangeTop([Top EXCEPT !.run = NoEntry])
  /\ IF Usable(Top.name)
     THEN /\ conn' = [conn EXCEPT ![Top.name] = SetQueue(conn[Top.name], Top.queue,
                        {e \in conn[Top.name].deferred[Top.queue] :
                           StaysQueued(e, Top.run.callback)})]
          /\ UNCHANGED exc
     ELSE exc' = Other /\ UNCHANGED conn
  /\ UNCHANGED <<closed, history>>

\* Mutant of CommitLeaves: committing stays set.
CommitLeavesFlagged(s) == [s EXCEPT !.completion_failed = FALSE]
\* The commit leaves: both flags fall whatever happened.
CommitLeaves(s) == [s EXCEPT !.committing = FALSE, !.completion_failed = FALSE]

\* The queue is drained, yet a swallowed failure or deferredRaise forbids COMMIT.
CommitRefused ==
  /\ Drained("before")
  /\ CommitForbidden(Top.name)
  /\ conn' = [conn EXCEPT ![Top.name] = CommitLeaves(FailIf(conn[Top.name], TRUE))]
  /\ exc' = Other
  /\ Pop
  /\ UNCHANGED <<closed, history>>

MayFinish == Drained("before") /\ ~CommitForbidden(Top.name)

CommitAccepted ==
  /\ MayFinish
  /\ conn' = [conn EXCEPT ![Top.name] = Finish(conn[Top.name], TRUE, TRUE)]
  /\ ChangeTop([Top EXCEPT !.queue = "after"])
  /\ durable' = durable \cup {unit[Top.name]}
  /\ UNCHANGED <<exc, closed, execs, writes, held, unit, begun, touched, broken,
                 doomed, sessions>>

\* The driver's commit raised: the database accepted the unit or did not.
CommitUncertain ==
  /\ MayFinish
  /\ conn' = [conn EXCEPT ![Top.name] = CommitLeaves(Finish(conn[Top.name], TRUE, FALSE))]
  /\ durable' \in {durable, durable \cup {unit[Top.name]}}
  /\ exc' = Other
  /\ sessions' = SessionsAfter(Top.name, FALSE)
  /\ Pop
  /\ UNCHANGED <<closed, execs, writes, held, unit, begun, touched, broken, doomed>>

\* An after-callback left SQL pending: the commit goes round again.
CommitRepeats ==
  /\ Drained("after") /\ NeedsCommit(Top.name)
  /\ ChangeTop([Top EXCEPT !.queue = "before"])
  /\ UNCHANGED <<conn, exc, closed, history>>

CommitReturns ==
  /\ Drained("after") /\ ~NeedsCommit(Top.name)
  /\ conn' = [conn EXCEPT ![Top.name] = CommitLeaves(conn[Top.name])]
  /\ Pop
  /\ UNCHANGED <<exc, closed, history>>

\* An exception escaped a callback, or the check that follows it.
CommitFails ==
  /\ OnTop("commit") /\ exc # NoError
  /\ conn' = [conn EXCEPT ![Top.name] = CommitLeaves(
                FailIf(conn[Top.name], Top.queue = "before" \/ conn[Top.name].pending))]
  /\ Pop
  /\ UNCHANGED <<exc, closed, history>>

----------------------------------------------------------------------------
(* rollback, closeConnection, close.                                        *)

Rollback(n, ok) ==
  /\ MayCall /\ Boundary /\ CompletionAllowed(n)
  /\ conn[n].pending \/ ok
  /\ conn' = [conn EXCEPT ![n] = [Finish(conn[n], FALSE, ok) EXCEPT !.failed = ~ok]]
  /\ exc' = IF ok THEN NoError ELSE Other
  /\ sessions' = SessionsAfter(n, ok)
  /\ UNCHANGED <<stack, closed, execs, writes, held, unit, begun, durable,
                 touched, broken, doomed>>

\* All connections are checked before the first one is closed.
CloseBegin(kind) ==
  /\ MayEnter /\ Boundary
  /\ \A n \in Names : CompletionAllowed(n)
  /\ \E n \in Names : stack' = Append(stack, [Frame(kind, n) EXCEPT !.todo = Names])
  /\ UNCHANGED <<conn, exc, closed, history>>

Closing == OnTop("close") \/ OnTop("closeConnection")
\* Mutant of AllClosed: the first failure ends the closing.
AllClosedOrError == Top.todo = {} \/ exc # NoError
AllClosed == Top.todo = {}

\* _close_connection: roll back, then discard; neither failure stops the other,
\* nor the connections still to close.  The first failure is kept.
CloseStep(n, rolledBack, released) ==
  /\ Closing /\ n \in Top.todo
  /\ conn[n].pending \/ rolledBack
  /\ LET s == Finish(conn[n], FALSE, rolledBack) IN
     /\ s.connection \/ released
     /\ conn' = [conn EXCEPT ![n] = [s EXCEPT !.connection = FALSE, !.closed = TRUE,
                                              !.executing = FALSE]]
     /\ sessions' = [SessionsAfter(n, rolledBack) EXCEPT
                       ![n] = IF s.connection THEN @ - 1 ELSE @]
  /\ exc' = IF exc = NoError /\ ~(rolledBack /\ released) THEN Other ELSE exc
  /\ ChangeTop([Top EXCEPT !.todo = @ \ {n}])
  /\ UNCHANGED <<closed, execs, writes, held, unit, begun, durable, touched,
                 broken, doomed>>

CloseEnd ==
  /\ Closing /\ AllClosed
  /\ IF Top.kind = "close"
     THEN closed' = TRUE /\ UNCHANGED conn
     ELSE conn' = [n \in Names |-> NewConnection] /\ UNCHANGED closed
  /\ Pop
  /\ UNCHANGED <<exc, history>>

----------------------------------------------------------------------------
(* Exceptions in user code.                                                 *)

\* A refused call, a failing hook, or an SQL exception raised once more.
UserRaise(e) ==
  /\ MayCall
  /\ exc' = e
  /\ UNCHANGED <<conn, stack, closed, history>>

\* User code catches what a call it made raised.
UserCatch ==
  /\ InUserCode /\ exc # NoError
  /\ exc' = NoError
  /\ held' = IF exc = Other THEN held ELSE exc
  /\ UNCHANGED <<conn, stack, closed, execs, writes, unit, begun, durable,
                 touched, broken, doomed, sessions>>

----------------------------------------------------------------------------
Calls(n) ==
  \/ ExecuteBegin(n) \/ ConnectFails(n) \/ WriteBegin(n)
  \/ \E q \in Queues, c \in Callbacks : Defer(n, q, c)
  \/ DeferredRaise(n) \/ CommitBegin(n)
  \/ \E ok \in BOOLEAN : Rollback(n, ok)

Returns ==
  \/ ExecuteReturns \/ WriteReturns \/ CallbackReturns
  \/ \E ok \in BOOLEAN : ExecuteFails(ok)
  \/ WriteFails \/ CommitFails

CommitSteps ==
  \/ CallbackBegin \/ CommitRefused \/ CommitAccepted \/ CommitUncertain
  \/ CommitRepeats \/ CommitReturns

CloseSteps ==
  \/ \E n \in Names, rolledBack, released \in BOOLEAN : CloseStep(n, rolledBack, released)
  \/ CloseEnd

Next ==
  \/ \E n \in Names : Calls(n)
  \/ \E kind \in {"closeConnection", "close"} : CloseBegin(kind)
  \/ Returns \/ CommitSteps \/ CloseSteps
  \/ \E e \in {Other, held} \ {NoError} : UserRaise(e)
  \/ UserCatch

Spec == Init /\ [][Next]_vars

\* The thread keeps running: the runtime's own steps are taken, and hooks,
\* callbacks and the driver return or raise in the end.
Fairness == WF_vars(Returns) /\ WF_vars(CommitSteps) /\ WF_vars(CloseSteps)
FairSpec == Spec /\ Fairness

----------------------------------------------------------------------------
(* What the service promises.                                               *)

Framed(kind, n) == {i \in DOMAIN stack : stack[i].kind = kind /\ stack[i].name = n}

\* The flags of a connection mirror the operations in progress on it: no way
\* out of a statement or a commit, exceptions included, leaves executing,
\* committing or completion_failed set (runtime.py:389, 458) or clears it for
\* an operation still running, so the guards never lock the caller out.
FlagsMatchStack ==
  \A n \in Names :
    /\ conn[n].executing <=> Framed("execute", n) # {}
    /\ conn[n].committing <=> Framed("commit", n) # {}
    /\ \A kind \in {"execute", "commit"} : \A i, j \in Framed(kind, n) : i = j
    /\ conn[n].completion_failed => conn[n].committing

\* A write that an exception escaped from never becomes durable, whoever
\* catches the exception and whatever completes later: the open unit it ran
\* SQL in is rollback-only until it is gone (runtime.py:234).
BrokenWriteNeverDurable ==
  \A t \in touched : t[1] \in broken =>
    /\ t[2] \notin durable
    /\ \A n \in Names : unit[n] = t[2] /\ conn[n].pending => conn[n].failed

\* deferredRaise dooms the unit it was registered for, and a failed write the
\* unit open around it even if it ran no SQL itself: across callbacks that
\* swallow exceptions and commits tried again (runtime.py:247, 305, 440).
DoomedNeverDurable == doomed \cap durable = {}

\* No callback outlives the unit it belongs to: once a unit is rolled back or
\* uncertain, nothing queued for it is left to run at a later commit
\* (runtime.py:332, 426); a before-callback never outlives its unit at all.
NoOrphanCallback ==
  \A n \in Names, q \in Queues : \A e \in conn[n].deferred[q] :
    \/ e.unit = 0
    \/ e.unit = unit[n] /\ conn[n].pending
    \/ q = "after" /\ e.unit \in durable

\* The reported outcome is the fate of the connection's latest unit.
OutcomeIsHonest ==
  \A n \in Names :
    /\ conn[n].outcome = "active" <=> conn[n].pending
    /\ conn[n].outcome = "committed" => unit[n] \in durable
    /\ conn[n].outcome = "rolled_back" => unit[n] \notin durable

\* Every database session the runtime opened and did not close is reachable
\* from the connection state, also when a rollback or a close failed and the
\* states were dropped (runtime.py:254-288).
NoLeakedSession ==
  \A n \in Names : sessions[n] = IF conn[n].connection THEN 1 ELSE 0

\* A callback that is running queues itself again where it runs: the entry is
\* dropped when it returns (runtime.py:328).
QueuesItself(n, q, c) ==
  /\ c \notin Recursive
  /\ \E i \in Framed("commit", n) :
       stack[i].queue = q /\ stack[i].run # NoEntry /\ stack[i].run.callback = c

\* A step that queues an entry no return will drop.
QueuesMore ==
  \E n \in Names, q \in Queues : \E e \in conn'[n].deferred[q] \ conn[n].deferred[q] :
    ~QueuesItself(n, q, e.callback)

\* Every statement, write, commit and close ends, whatever fails in it and
\* although callbacks queue callbacks, provided that they stop doing so: a
\* drain does not end while callbacks queue one another, or a recursive one
\* itself (runtime.py:320-330); a callback may queue itself for ever.
EveryOperationEnds ==
  <>[][~QueuesMore]_vars => ((stack # <<>>) ~> (stack = <<>>))

\* Commits, doubts and releases of the abstract unit of work.
Abstract == INSTANCE UnitOfWork WITH
  phase <- [n \in Names |->
              IF conn[n].closed THEN "idle"
              ELSE IF conn[n].failed \/ conn[n].completion_failed THEN "blocked"
              ELSE IF conn[n].pending THEN "open" ELSE "idle"]

\* The service implements the unit of work: only an open, unblocked unit
\* becomes durable, whole, and a blocked connection accepts nothing until it
\* is released.
ImplementsUnitOfWork == Abstract!Spec

----------------------------------------------------------------------------
(* Why the promises hold: what is true between any two steps.               *)

CloseKinds == {"close", "closeConnection"}

\* What may stand above what on the call stack.
StackOrder ==
  \A i, j \in DOMAIN stack : i < j =>
    /\ stack[i].kind \notin CloseKinds /\ stack[j].kind \notin CloseKinds
    /\ stack[i].kind = "write" => stack[j].kind # "commit"
    /\ stack[i].kind = "write" /\ stack[j].kind = "write" => stack[i].id # stack[j].id
    /\ stack[i].kind \in {"execute", "commit"} /\ stack[j].kind = stack[i].kind
         => stack[i].name # stack[j].name
    /\ stack[i].kind = "execute" /\ stack[j].kind = "commit"
         => stack[i].name # stack[j].name

\* An operation in progress and the connection it works on agree.
FrameOK(f, s) ==
  /\ f.kind = "write" => f.id \in 1..writes /\ f.id \notin broken
  /\ f.kind = "execute" => f.id \in 1..execs /\ s.executing /\ s.pending
  /\ f.kind = "commit" =>
       /\ s.committing
       /\ f.queue = "before" => s.pending \/ s.completion_failed \/ s.failed
  /\ f.kind \in CloseKinds => \A n \in Names \ f.todo : ~conn[n].connection
FramesOK == \A i \in DOMAIN stack : FrameOK(stack[i], conn[stack[i].name])

FlagsHaveFrames ==
  \A n \in Names :
    /\ conn[n].executing => Framed("execute", n) # {}
    /\ conn[n].committing => Framed("commit", n) # {}
    /\ conn[n].completion_failed => conn[n].committing

\* An open unit is on a live session, not durable, belongs to one connection
\* only and follows the last statement that failed; if it is doomed the
\* connection says so.
UnitsOK ==
  \A n \in Names :
    /\ conn[n].pending =>
         /\ conn[n].connection /\ unit[n] > 0 /\ unit[n] \notin durable
         /\ conn[n].execution_error = NoError
         /\ unit[n] \in doomed => conn[n].failed \/ conn[n].pending_exceptions
    /\ \A m \in Names \ {n} : unit[m] = unit[n] => unit[n] = 0

\* What a write in progress touched is not durable, nor open elsewhere.
OpenWritesOK ==
  \A i \in DOMAIN stack : stack[i].kind = "write" =>
    \A t \in touched : t[1] = stack[i].id =>
      /\ t[2] \notin durable
      /\ \A n \in Names : unit[n] = t[2] /\ conn[n].pending => n = stack[i].name

IInv ==
  /\ TypeOK /\ StackOrder /\ FramesOK /\ FlagsHaveFrames /\ UnitsOK
  /\ OutcomeIsHonest /\ NoLeakedSession /\ DoomedNeverDurable /\ NoOrphanCallback
  /\ OpenWritesOK /\ BrokenWriteNeverDurable
=============================================================================
