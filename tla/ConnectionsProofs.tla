------------------------- MODULE ConnectionsProofs -------------------------
(***************************************************************************)
(* Connections keeps its promises for every set of names and callbacks and *)
(* every bound: IInv, the strengthening TLC checks on small instances, is  *)
(* inductive.                                                              *)
(***************************************************************************)
EXTENDS Connections, SequenceTheorems, TLAPS

----------------------------------------------------------------------------
(* The three ways a step changes the call stack.                            *)

\* Append adds one element and leaves the others where they are.
LEMMA PushSeq ==
  ASSUME NEW S, NEW s \in Seq(S), NEW f \in S
  PROVE  /\ Append(s, f) \in Seq(S)
         /\ Len(Append(s, f)) = Len(s) + 1
         /\ DOMAIN Append(s, f) = 1..(Len(s) + 1)
         /\ \A i \in 1..Len(s) : Append(s, f)[i] = s[i]
         /\ Append(s, f)[Len(s) + 1] = f
  OBVIOUS

\* Popping removes the last element.
LEMMA PopSeq ==
  ASSUME NEW S, NEW s \in Seq(S), s # <<>>
  PROVE  /\ Len(s) \in Nat \ {0}
         /\ SubSeq(s, 1, Len(s) - 1) \in Seq(S)
         /\ Len(SubSeq(s, 1, Len(s) - 1)) = Len(s) - 1
         /\ DOMAIN SubSeq(s, 1, Len(s) - 1) = 1..(Len(s) - 1)
         /\ \A i \in 1..(Len(s) - 1) : SubSeq(s, 1, Len(s) - 1)[i] = s[i]
<1>1. Len(s) \in Nat \ {0}
  BY EmptySeq
<1>2. \A i \in 1..(Len(s) - 1) : s[i] \in S
  BY <1>1, ElementOfSeq
<1>3. /\ SubSeq(s, 1, Len(s) - 1) \in Seq(S)
      /\ Len(SubSeq(s, 1, Len(s) - 1)) = Len(s) - 1
      /\ \A i \in 1..(Len(s) - 1) : SubSeq(s, 1, Len(s) - 1)[i] = s[i]
  <2> DEFINE k == Len(s) - 1
  <2>1. k \in Int /\ 1 \in Int /\ \A i \in 1..k : s[i] \in S
    BY <1>1, <1>2
  <2>2. /\ SubSeq(s, 1, k) \in Seq(S)
        /\ Len(SubSeq(s, 1, k)) = IF 1 <= k THEN k - 1 + 1 ELSE 0
        /\ \A i \in 1..(k - 1 + 1) : SubSeq(s, 1, k)[i] = s[1 + i - 1]
    BY <2>1, SubSeqProperties
  <2>3. k - 1 + 1 = k /\ \A i \in 1..k : 1 + i - 1 = i
    BY <1>1
  <2> QED
    BY <1>1, <2>2, <2>3
<1> QED
  BY <1>1, <1>3, LenProperties

\* Replacing the last element keeps the rest.
LEMMA ChangeTopSeq ==
  ASSUME NEW S, NEW s \in Seq(S), s # <<>>, NEW f \in S
  PROVE  /\ Len(s) \in Nat \ {0}
         /\ [s EXCEPT ![Len(s)] = f] \in Seq(S)
         /\ Len([s EXCEPT ![Len(s)] = f]) = Len(s)
         /\ DOMAIN [s EXCEPT ![Len(s)] = f] = 1..Len(s)
         /\ \A i \in 1..(Len(s) - 1) : [s EXCEPT ![Len(s)] = f][i] = s[i]
         /\ [s EXCEPT ![Len(s)] = f][Len(s)] = f
<1>1. Len(s) \in Nat \ {0}
  BY EmptySeq
<1> QED
  BY <1>1, ExceptSeq, LenProperties

\* _finish: what it returns is a connection state, with no open unit, and it
\* touches neither the commit flags nor the execution record.
LEMMA FinishFields ==
  ASSUME NEW s \in ConnectionStates, NEW commit, commit \in BOOLEAN,
         NEW ok, ok \in BOOLEAN
  PROVE  LET f == Finish(s, commit, ok) IN
         /\ f \in ConnectionStates
         /\ ~f.pending
         /\ f.committing = s.committing
         /\ f.completion_failed = s.completion_failed
         /\ f.closed = s.closed
         /\ f.execution_error = s.execution_error
         /\ f.execution_count = s.execution_count
         /\ f.executing <=> s.executing /\ ~s.pending
         /\ f.connection <=> s.connection /\ (s.pending => ok)
         /\ f.failed <=> IF s.pending THEN ~ok ELSE s.outcome = "unknown" /\ s.failed
         /\ f.outcome = IF ~s.pending THEN s.outcome
                         ELSE IF ~ok THEN "unknown"
                         ELSE IF commit THEN "committed" ELSE "rolled_back"
         /\ f.deferred = IF commit /\ ok THEN s.deferred ELSE NoDeferred
         /\ commit /\ ok => f.pending_exceptions = s.pending_exceptions
         /\ ~(commit /\ ok) => ~f.pending_exceptions
<1> DEFINE failed == IF s.pending THEN ~ok ELSE s.outcome = "unknown" /\ s.failed
           outcome == IF s.pending THEN OutcomeOf(commit, ok) ELSE s.outcome
           connection == s.connection /\ (s.pending => ok)
           executing == s.executing /\ ~s.pending
           done == [s EXCEPT !.failed = failed, !.outcome = outcome,
                             !.connection = connection, !.pending = FALSE,
                             !.executing = executing]
           f == Finish(s, commit, ok)
<1>1. /\ failed \in BOOLEAN /\ connection \in BOOLEAN /\ executing \in BOOLEAN
      /\ outcome \in Outcomes
  BY DEF ConnectionStates, OutcomeOf, Outcomes
<1>2. NoDeferred \in [Queues -> SUBSET Entries]
  BY DEF NoDeferred
<1>3. f = IF commit /\ ok THEN done ELSE ClearDeferred(done)
  BY DEF Finish
<1> HIDE DEF f, failed, outcome, connection, executing
<1>4. /\ done \in ConnectionStates
      /\ done.pending = FALSE /\ done.failed = failed /\ done.outcome = outcome
      /\ done.connection = connection /\ done.executing = executing
      /\ done.committing = s.committing /\ done.completion_failed = s.completion_failed
      /\ done.closed = s.closed /\ done.execution_error = s.execution_error
      /\ done.execution_count = s.execution_count /\ done.deferred = s.deferred
      /\ done.pending_exceptions = s.pending_exceptions
  BY <1>1 DEF ConnectionStates
<1> HIDE DEF done
<1>5. CASE commit /\ ok
  BY <1>3, <1>4, <1>5 DEF OutcomeOf, f, failed, outcome, connection, executing
<1>6. CASE ~(commit /\ ok)
  <2>1. f = [done EXCEPT !.deferred = NoDeferred, !.pending_exceptions = FALSE]
    BY <1>3, <1>6 DEF ClearDeferred
  <2>2. /\ f \in ConnectionStates
        /\ f.pending = done.pending /\ f.failed = done.failed /\ f.outcome = done.outcome
        /\ f.connection = done.connection /\ f.executing = done.executing
        /\ f.committing = done.committing /\ f.completion_failed = done.completion_failed
        /\ f.closed = done.closed /\ f.execution_error = done.execution_error
        /\ f.execution_count = done.execution_count
        /\ f.deferred = NoDeferred /\ f.pending_exceptions = FALSE
    BY <2>1, <1>2, <1>4 DEF ConnectionStates
  <2> QED
    BY <2>2, <1>4, <1>6 DEF OutcomeOf, f, failed, outcome, connection, executing
<1> QED
  BY <1>5, <1>6

\* The unit of an idle connection is accepted, or its fate stays unknown.
LEMMA FinishCommitted ==
  ASSUME NEW s \in ConnectionStates, s.pending, ~s.executing,
         NEW commit, commit \in BOOLEAN, commit, NEW ok, ok \in BOOLEAN, ok
  PROVE  LET f == Finish(s, commit, ok) IN
         /\ f \in ConnectionStates
         /\ ~f.pending /\ ~f.executing /\ f.connection = s.connection
         /\ f.committing = s.committing /\ f.completion_failed = s.completion_failed
         /\ f.outcome = "committed" /\ f.deferred = s.deferred
<1> DEFINE f == Finish(s, commit, ok)
<1>1. /\ f.connection \in BOOLEAN /\ s.connection \in BOOLEAN
      /\ f \in ConnectionStates
  BY FinishFields DEF ConnectionStates
<1>2. /\ ~f.pending /\ ~f.executing
      /\ f.connection <=> s.connection
      /\ f.committing = s.committing /\ f.completion_failed = s.completion_failed
      /\ f.outcome = "committed" /\ f.deferred = s.deferred
  BY FinishFields
<1> QED
  BY <1>1, <1>2

LEMMA FinishUnknown ==
  ASSUME NEW s \in ConnectionStates, s.pending, ~s.executing,
         NEW commit, commit \in BOOLEAN, NEW ok, ok \in BOOLEAN, ~ok
  PROVE  LET f == Finish(s, commit, ok) IN
         /\ f \in ConnectionStates
         /\ ~f.pending /\ ~f.executing /\ ~f.connection
         /\ f.outcome = "unknown" /\ f.deferred = NoDeferred
  BY FinishFields

\* Without COMMIT the queues are empty afterwards.
LEMMA FinishRolledBack ==
  ASSUME NEW s \in ConnectionStates, NEW commit, commit \in BOOLEAN, ~commit,
         NEW ok, ok \in BOOLEAN
  PROVE  LET f == Finish(s, commit, ok) IN
         /\ f \in ConnectionStates
         /\ ~f.pending /\ f.deferred = NoDeferred
         /\ f.connection <=> s.connection /\ (s.pending => ok)
         /\ f.outcome = IF ~s.pending THEN s.outcome
                        ELSE IF ~ok THEN "unknown" ELSE "rolled_back"
         /\ f.executing <=> s.executing /\ ~s.pending
         /\ f.committing = s.committing
         /\ f.completion_failed = s.completion_failed
  BY FinishFields

\* The other changes of a connection record, field by field.
LEMMA StartedFields ==
  ASSUME NEW s \in ConnectionStates
  PROVE  LET f == Started(s) IN
         /\ f \in ConnectionStates
         /\ f.pending /\ f.executing /\ f.connection /\ f.outcome = "active"
         /\ f.execution_error = NoError
         /\ f.committing = s.committing /\ f.failed = s.failed
         /\ f.completion_failed = s.completion_failed
         /\ f.deferred = s.deferred /\ f.closed = s.closed
         /\ f.pending_exceptions = s.pending_exceptions
<1>1. s.execution_count + 1 \in Nat
  BY DEF ConnectionStates
<1>2. NoError \in Exceptions /\ "active" \in Outcomes
  BY DEF NoError, Exceptions, Outcomes
<1> HIDE DEF NoError
<1> QED
  BY <1>1, <1>2 DEF Started, ConnectionStates

LEMMA RaisedFields ==
  ASSUME NEW s \in ConnectionStates, NEW e, e \in Exceptions, NEW ok, ok \in BOOLEAN
  PROVE  LET f == Raised(s, e, ok) IN
         /\ f \in ConnectionStates
         /\ ~f.pending /\ ~f.executing
         /\ f.committing = s.committing
         /\ f.completion_failed = s.committing
         /\ f.closed = s.closed
         /\ f.execution_error = e
         /\ f.connection <=> s.connection /\ (s.pending => ok)
         /\ f.failed <=> IF s.pending THEN ~ok ELSE s.outcome = "unknown" /\ s.failed
         /\ f.outcome = IF ~s.pending THEN s.outcome
                         ELSE IF ok THEN "rolled_back" ELSE "unknown"
         /\ f.deferred = NoDeferred
         /\ ~f.pending_exceptions
<1> DEFINE r == [s EXCEPT !.execution_error = e, !.completion_failed = s.committing]
           f == Raised(s, e, ok)
<1>1. /\ r \in ConnectionStates
      /\ r.execution_error = e /\ r.completion_failed = s.committing
      /\ r.committing = s.committing /\ r.closed = s.closed
      /\ r.pending = s.pending /\ r.connection = s.connection
      /\ r.failed = s.failed /\ r.outcome = s.outcome
  BY DEF ConnectionStates
<1>2. PICK commit, d :
        /\ commit \in BOOLEAN /\ ~commit /\ d = Finish(r, commit, ok)
        /\ f = [d EXCEPT !.executing = FALSE]
  <2> HIDE DEF r
  <2> WITNESS FALSE, Finish(r, FALSE, ok)
  <2> QED
    BY Zenon DEF Raised, r
<1> HIDE DEF r, f
<1>3. /\ d \in ConnectionStates
      /\ ~d.pending
      /\ d.committing = r.committing
      /\ d.completion_failed = r.completion_failed
      /\ d.closed = r.closed
      /\ d.execution_error = r.execution_error
      /\ d.connection <=> r.connection /\ (r.pending => ok)
      /\ d.failed <=> IF r.pending THEN ~ok ELSE r.outcome = "unknown" /\ r.failed
      /\ d.outcome = IF ~r.pending THEN r.outcome
                      ELSE IF ok THEN "rolled_back" ELSE "unknown"
      /\ d.deferred = NoDeferred
      /\ ~d.pending_exceptions
  <2>1. r \in ConnectionStates /\ commit \in BOOLEAN /\ ok \in BOOLEAN
        /\ ~commit /\ d = Finish(r, commit, ok)
    BY <1>1, <1>2
  <2> QED
    BY <2>1, FinishFields, SMTT(60)
<1>4. /\ f \in ConnectionStates /\ ~f.executing
      /\ f.pending = d.pending /\ f.committing = d.committing
      /\ f.completion_failed = d.completion_failed /\ f.closed = d.closed
      /\ f.execution_error = d.execution_error /\ f.connection = d.connection
      /\ f.failed = d.failed /\ f.outcome = d.outcome
      /\ f.deferred = d.deferred /\ f.pending_exceptions = d.pending_exceptions
  BY <1>2, <1>3 DEF ConnectionStates
<1>5. /\ f \in ConnectionStates
      /\ ~f.pending /\ ~f.executing
      /\ f.committing = s.committing
      /\ f.completion_failed = s.committing
      /\ f.closed = s.closed
      /\ f.execution_error = e
      /\ f.connection <=> s.connection /\ (s.pending => ok)
      /\ f.failed <=> IF s.pending THEN ~ok ELSE s.outcome = "unknown" /\ s.failed
      /\ f.outcome = IF ~s.pending THEN s.outcome
                      ELSE IF ok THEN "rolled_back" ELSE "unknown"
      /\ f.deferred = NoDeferred
      /\ ~f.pending_exceptions
  BY <1>1, <1>3, <1>4
<1> QED
  BY <1>5 DEF f

LEMMA CommitEntersFields ==
  ASSUME NEW s \in ConnectionStates
  PROVE  LET f == CommitEnters(s) IN
         /\ f \in ConnectionStates
         /\ f.pending = s.pending /\ f.executing = s.executing
         /\ f.connection = s.connection /\ f.closed = s.closed
         /\ f.execution_error = s.execution_error
         /\ f.outcome = s.outcome /\ f.deferred = s.deferred
         /\ f.pending_exceptions = s.pending_exceptions
         /\ f.failed = s.failed /\ f.committing /\ ~f.completion_failed
  BY DEF CommitEnters, ConnectionStates

LEMMA CommitLeavesFields ==
  ASSUME NEW s \in ConnectionStates
  PROVE  LET f == CommitLeaves(s) IN
         /\ f \in ConnectionStates
         /\ f.pending = s.pending /\ f.executing = s.executing
         /\ f.connection = s.connection /\ f.closed = s.closed
         /\ f.execution_error = s.execution_error
         /\ f.outcome = s.outcome /\ f.deferred = s.deferred
         /\ f.pending_exceptions = s.pending_exceptions
         /\ f.failed = s.failed /\ ~f.committing /\ ~f.completion_failed
  BY DEF CommitLeaves, ConnectionStates

LEMMA FailIfFields ==
  ASSUME NEW s \in ConnectionStates, NEW b \in BOOLEAN
  PROVE  LET f == FailIf(s, b) IN
         /\ f \in ConnectionStates
         /\ f.pending = s.pending /\ f.executing = s.executing
         /\ f.connection = s.connection /\ f.closed = s.closed
         /\ f.execution_error = s.execution_error
         /\ f.outcome = s.outcome /\ f.deferred = s.deferred
         /\ f.pending_exceptions = s.pending_exceptions
         /\ f.committing = s.committing /\ f.completion_failed = s.completion_failed
         /\ f.failed <=> s.failed \/ b
  BY DEF FailIf, ConnectionStates

LEMMA SetQueueFields ==
  ASSUME NEW s \in ConnectionStates, NEW q \in Queues, NEW es \in SUBSET Entries
  PROVE  LET f == SetQueue(s, q, es) IN
         /\ f \in ConnectionStates
         /\ f.deferred[q] = es
         /\ \A r \in Queues \ {q} : f.deferred[r] = s.deferred[r]
         /\ f.pending = s.pending /\ f.executing = s.executing
         /\ f.connection = s.connection /\ f.closed = s.closed
         /\ f.execution_error = s.execution_error
         /\ f.outcome = s.outcome /\ f.failed = s.failed
         /\ f.committing = s.committing /\ f.completion_failed = s.completion_failed
         /\ f.pending_exceptions = s.pending_exceptions
<1> DEFINE f == SetQueue(s, q, es)
<1>1. [s.deferred EXCEPT ![q] = es] \in [Queues -> SUBSET Entries]
  BY DEF ConnectionStates
<1>2. f.deferred = [s.deferred EXCEPT ![q] = es]
  BY DEF SetQueue, ConnectionStates
<1>3. s.deferred \in [Queues -> SUBSET Entries]
  BY DEF ConnectionStates
<1> QED
  BY <1>1, <1>2, <1>3 DEF SetQueue, ConnectionStates

----------------------------------------------------------------------------
(* Steps that share their reasons.                                          *)

\* The promises about units, as opposed to those about the call stack.
UnitPromises ==
  /\ UnitsOK /\ OutcomeIsHonest /\ NoLeakedSession /\ DoomedNeverDurable
  /\ NoOrphanCallback /\ BrokenWriteNeverDurable

\* The frames after the step are frames from before it, some popped, none
\* given another operation.
FramesKept ==
  /\ DOMAIN stack' \subseteq DOMAIN stack
  /\ \A i \in DOMAIN stack' :
       /\ stack'[i].kind = stack[i].kind /\ stack'[i].name = stack[i].name
       /\ stack'[i].id = stack[i].id

LEMMA StackOrderKept ==
  ASSUME StackOrder, FramesKept
  PROVE  StackOrder'
  BY DEF StackOrder, FramesKept

\* What the three stack changes mean for the frames.
LEMMA PushFacts ==
  ASSUME TypeOK, NEW f \in Frames, Push(f)
  PROVE  /\ stack' \in Seq(Frames)
         /\ Len(stack) \in Nat /\ Len(stack') = Len(stack) + 1
         /\ DOMAIN stack = 1..Len(stack) /\ DOMAIN stack' = 1..(Len(stack) + 1)
         /\ \A i \in DOMAIN stack : stack'[i] = stack[i] /\ stack[i] \in Frames
         /\ stack'[Len(stack) + 1] = f
  BY PushSeq, LenProperties, ElementOfSeq DEF TypeOK, Push

LEMMA PopFacts ==
  ASSUME TypeOK, stack # <<>>, Pop
  PROVE  /\ stack' \in Seq(Frames)
         /\ FramesKept
         /\ Len(stack) \in Nat \ {0}
         /\ DOMAIN stack = 1..Len(stack) /\ DOMAIN stack' = 1..(Len(stack) - 1)
         /\ \A i \in DOMAIN stack' : stack'[i] = stack[i]
         /\ \A i \in DOMAIN stack : stack[i] \in Frames
         /\ Top = stack[Len(stack)] /\ Top \in Frames
<1>1. stack \in Seq(Frames) /\ stack' = SubSeq(stack, 1, Len(stack) - 1)
  BY DEF TypeOK, Pop
<1>2. /\ Len(stack) \in Nat \ {0}
      /\ stack' \in Seq(Frames)
      /\ DOMAIN stack' = 1..(Len(stack) - 1)
      /\ \A i \in 1..(Len(stack) - 1) : stack'[i] = stack[i]
  BY <1>1, PopSeq
<1>3. DOMAIN stack = 1..Len(stack) /\ \A i \in DOMAIN stack : stack[i] \in Frames
  BY <1>1, LenProperties, ElementOfSeq
<1> QED
  BY <1>2, <1>3 DEF FramesKept, Top

LEMMA ChangeTopFacts ==
  ASSUME TypeOK, stack # <<>>, NEW f \in Frames, ChangeTop(f),
         f.kind = Top.kind, f.name = Top.name, f.id = Top.id
  PROVE  /\ stack' \in Seq(Frames)
         /\ FramesKept
         /\ Len(stack) \in Nat \ {0} /\ Len(stack') = Len(stack)
         /\ DOMAIN stack = 1..Len(stack) /\ DOMAIN stack' = 1..Len(stack)
         /\ \A i \in DOMAIN stack : i # Len(stack) => stack'[i] = stack[i]
         /\ \A i \in DOMAIN stack : stack[i] \in Frames
         /\ stack'[Len(stack)] = f
         /\ Top = stack[Len(stack)] /\ Top \in Frames
<1>1. stack \in Seq(Frames) /\ stack' = [stack EXCEPT ![Len(stack)] = f]
  BY DEF TypeOK, ChangeTop
<1>2. /\ Len(stack) \in Nat \ {0}
      /\ stack' \in Seq(Frames) /\ Len(stack') = Len(stack)
      /\ DOMAIN stack' = 1..Len(stack)
      /\ \A i \in 1..(Len(stack) - 1) : stack'[i] = stack[i]
      /\ stack'[Len(stack)] = f
  BY <1>1, ChangeTopSeq
<1>3. DOMAIN stack = 1..Len(stack) /\ \A i \in DOMAIN stack : stack[i] \in Frames
  BY <1>1, LenProperties, ElementOfSeq
<1>4. \A i \in DOMAIN stack : i # Len(stack) => i \in 1..(Len(stack) - 1)
  BY <1>2, <1>3
<1> QED
  BY <1>2, <1>3, <1>4 DEF FramesKept, Top

LEMMA StackFacts ==
  ASSUME TypeOK
  PROVE  /\ Len(stack) \in Nat /\ DOMAIN stack = 1..Len(stack)
         /\ \A i \in DOMAIN stack : stack[i] \in Frames
  BY LenProperties, ElementOfSeq DEF TypeOK

LEMMA TopFacts ==
  ASSUME TypeOK, stack # <<>>
  PROVE  /\ Len(stack) \in Nat \ {0} /\ Len(stack) \in DOMAIN stack
         /\ Top = stack[Len(stack)] /\ Top \in Frames /\ Top.name \in Names
<1>1. Len(stack) \in Nat \ {0} /\ DOMAIN stack = 1..Len(stack)
  BY StackFacts, EmptySeq DEF TypeOK
<1>2. stack[Len(stack)] \in Frames
  BY <1>1, StackFacts
<1> QED
  BY <1>1, <1>2 DEF Top, Frames

\* Nothing is being closed while any other operation is on top.
LEMMA NotClosing ==
  ASSUME TypeOK, StackOrder, stack # <<>> => Top.kind \notin CloseKinds
  PROVE  \A i \in DOMAIN stack : stack[i].kind \notin CloseKinds
<1>1. CASE stack = <<>>
  BY <1>1
<1>2. CASE stack # <<>>
  <2>1. Len(stack) \in DOMAIN stack /\ Len(stack) \in Nat /\ DOMAIN stack = 1..Len(stack)
    BY <1>2, EmptySeq, LenProperties DEF TypeOK
  <2> QED
    BY <1>2, <2>1 DEF StackOrder, Top
<1> QED
  BY <1>1, <1>2

LEMMA UserCodeNotClosing ==
  ASSUME TypeOK, StackOrder, InUserCode
  PROVE  \A i \in DOMAIN stack : stack[i].kind \notin CloseKinds
  BY NotClosing DEF InUserCode, OnTop, CloseKinds

\* Only writes that touch SQL, units that open and units that become durable
\* could disturb what the open writes rely on.
LEMMA OpenWritesKept ==
  ASSUME OpenWritesOK, FramesKept, UNCHANGED <<touched, durable, unit>>,
         \A n \in Names : conn'[n].pending => conn[n].pending
  PROVE  OpenWritesOK'
  BY DEF OpenWritesOK, FramesKept

\* A step that leaves units and outcomes alone, and clears no failure.
LEMMA UnitsKept ==
  ASSUME UnitPromises,
         UNCHANGED <<unit, durable, touched, broken, doomed, sessions>>,
         \A n \in Names :
           /\ conn'[n].pending = conn[n].pending
           /\ conn'[n].connection = conn[n].connection
           /\ conn'[n].execution_error = conn[n].execution_error
           /\ conn'[n].outcome = conn[n].outcome
           /\ conn'[n].pending_exceptions = conn[n].pending_exceptions
           /\ \A q \in Queues : conn'[n].deferred[q] \subseteq conn[n].deferred[q]
           /\ conn[n].failed => conn'[n].failed
  PROVE  UnitPromises'
<1> USE DEF UnitPromises
<1>1. UnitsOK'
  BY DEF UnitsOK
<1>2. OutcomeIsHonest'
  BY DEF OutcomeIsHonest
<1>3. NoLeakedSession'
  BY DEF NoLeakedSession
<1>4. DoomedNeverDurable'
  BY DEF DoomedNeverDurable
<1>5. NoOrphanCallback'
  BY DEF NoOrphanCallback
<1>6. BrokenWriteNeverDurable'
  BY DEF BrokenWriteNeverDurable
<1> QED
  BY <1>1, <1>2, <1>3, <1>4, <1>5, <1>6

\* A step that ends the unit of n, if it is open, without making it durable.
LEMMA UnitEnds ==
  ASSUME UnitPromises, NEW n \in Names,
         UNCHANGED <<unit, durable, touched, broken, doomed>>,
         \A m \in Names \ {n} : conn'[m] = conn[m] /\ sessions'[m] = sessions[m],
         ~conn'[n].pending,
         conn'[n].deferred = NoDeferred,
         \/ conn'[n].outcome = conn[n].outcome /\ ~conn[n].pending
         \/ conn'[n].outcome \in {"rolled_back", "unknown"} /\ conn[n].pending,
         sessions'[n] = IF conn'[n].connection THEN 1 ELSE 0
  PROVE  UnitPromises'
<1> USE DEF UnitPromises
<1>1. UnitsOK'
  BY DEF UnitsOK
<1>2. OutcomeIsHonest'
  BY DEF OutcomeIsHonest, UnitsOK
<1>3. NoLeakedSession'
  BY DEF NoLeakedSession
<1>4. DoomedNeverDurable'
  BY DEF DoomedNeverDurable
<1>5. NoOrphanCallback'
  BY DEF NoOrphanCallback, NoDeferred
<1>6. BrokenWriteNeverDurable'
  BY DEF BrokenWriteNeverDurable
<1> QED
  BY <1>1, <1>2, <1>3, <1>4, <1>5, <1>6

\* Most steps change one connection record and no history that TypeOK bounds.
LEMMA RecordSet ==
  ASSUME TypeOK, NEW n \in Names, NEW c \in ConnectionStates,
         conn' = [conn EXCEPT ![n] = c]
  PROVE  /\ conn' \in [Names -> ConnectionStates]
         /\ conn'[n] = c
         /\ \A m \in Names \ {n} : conn'[m] = conn[m]
  BY DEF TypeOK

LEMMA TypeKept ==
  ASSUME TypeOK,
         conn' \in [Names -> ConnectionStates], stack' \in Seq(Frames),
         exc' \in Errors, closed' \in BOOLEAN, sessions' \in [Names -> Nat],
         UNCHANGED <<execs, writes, held, unit, begun, touched>>,
         durable' \subseteq 1..begun, doomed' \subseteq 1..begun,
         broken' \subseteq 1..writes
  PROVE  TypeOK'
  BY DEF TypeOK, Errors

\* The frames that stay agree with the record of n, which alone has changed.
LEMMA FramesOKKept ==
  ASSUME TypeOK, FramesOK, NEW n \in Names,
         \A m \in Names \ {n} : conn'[m] = conn[m],
         DOMAIN stack' \subseteq DOMAIN stack,
         \A i \in DOMAIN stack' : stack'[i] = stack[i],
         \A i \in DOMAIN stack' : stack[i].kind \notin CloseKinds,
         UNCHANGED <<execs, writes>>,
         \A i \in DOMAIN stack' : stack[i].kind = "write" => stack[i].id \notin broken',
         \A i \in DOMAIN stack' :
           stack[i].kind = "execute" /\ stack[i].name = n
             => conn'[n].executing /\ conn'[n].pending,
         \A i \in DOMAIN stack' :
           stack[i].kind = "commit" /\ stack[i].name = n
             => /\ conn'[n].committing
                /\ stack[i].queue = "before"
                     => \/ conn'[n].pending \/ conn'[n].completion_failed
                        \/ conn'[n].failed
  PROVE  FramesOK'
<1> SUFFICES ASSUME NEW i \in DOMAIN stack'
             PROVE  FrameOK(stack[i], conn[stack[i].name])'
  BY DEF FramesOK
<1>1. /\ stack'[i] = stack[i] /\ stack[i].kind \notin CloseKinds
      /\ stack[i].name \in Names /\ FrameOK(stack[i], conn[stack[i].name])
  BY StackFacts DEF FramesOK, Frames
<1>2. CASE stack[i].name = n
  BY <1>1, <1>2 DEF FrameOK
<1>3. CASE stack[i].name # n
  BY <1>1, <1>3 DEF FrameOK
<1> QED
  BY <1>2, <1>3

\* The flags that are still set have their frames.
LEMMA FlagsKept ==
  ASSUME FlagsHaveFrames, NEW n \in Names,
         \A m \in Names \ {n} : conn'[m] = conn[m],
         \A i \in DOMAIN stack : stack[i].name # n =>
           /\ i \in DOMAIN stack'
           /\ stack'[i].kind = stack[i].kind /\ stack'[i].name = stack[i].name,
         conn'[n].executing =>
           \E i \in DOMAIN stack' : stack'[i].kind = "execute" /\ stack'[i].name = n,
         conn'[n].committing =>
           \E i \in DOMAIN stack' : stack'[i].kind = "commit" /\ stack'[i].name = n,
         conn'[n].completion_failed => conn'[n].committing
  PROVE  FlagsHaveFrames'
<1> SUFFICES ASSUME NEW m \in Names
             PROVE  /\ conn'[m].executing => Framed("execute", m)' # {}
                    /\ conn'[m].committing => Framed("commit", m)' # {}
                    /\ conn'[m].completion_failed => conn'[m].committing
  BY DEF FlagsHaveFrames
<1>1. CASE m = n
  BY <1>1 DEF Framed
<1>2. CASE m # n
  BY <1>2 DEF FlagsHaveFrames, Framed
<1> QED
  BY <1>1, <1>2

----------------------------------------------------------------------------
(* One lemma per action: it preserves IInv.                                 *)

\* A statement begins: a new unit is numbered beyond every earlier one.
LEMMA ExecuteBeginStep ==
  ASSUME IInv, NEW n \in Names, ExecuteBegin(n)
  PROVE  IInv'
<1> DEFINE f == [Frame("execute", n) EXCEPT !.id = execs + 1]
           u == IF conn[n].pending THEN unit[n] ELSE begun + 1
<1> USE DEF IInv
<1>1. /\ conn[n] \in ConnectionStates
      /\ conn'[n] = Started(conn[n])
      /\ conn' \in [Names -> ConnectionStates]
      /\ \A m \in Names \ {n} : conn'[m] = conn[m]
  BY StartedFields DEF TypeOK, ExecuteBegin
<1>2. /\ conn'[n].pending /\ conn'[n].executing /\ conn'[n].connection
      /\ conn'[n].outcome = "active" /\ conn'[n].execution_error = NoError
      /\ conn'[n].committing = conn[n].committing
      /\ conn'[n].failed = conn[n].failed
      /\ conn'[n].completion_failed = conn[n].completion_failed
      /\ conn'[n].deferred = conn[n].deferred
      /\ conn'[n].pending_exceptions = conn[n].pending_exceptions
  BY <1>1, StartedFields
<1>3. /\ f \in Frames
      /\ f.kind = "execute" /\ f.name = n /\ f.id = execs + 1
  <2>1. NoEntry \in Entries \cup {NoEntry} /\ execs + 1 \in Nat
    BY DEF TypeOK
  <2> QED
    BY <2>1 DEF Frame, Frames, Kinds, Queues
<1>4. /\ stack' \in Seq(Frames)
      /\ Len(stack) \in Nat /\ Len(stack') = Len(stack) + 1
      /\ DOMAIN stack = 1..Len(stack) /\ DOMAIN stack' = 1..(Len(stack) + 1)
      /\ \A i \in DOMAIN stack : stack'[i] = stack[i] /\ stack[i] \in Frames
      /\ stack'[Len(stack) + 1] = f
  BY <1>3, PushFacts DEF ExecuteBegin
<1> HIDE DEF f
<1>5. /\ u \in 1..begun' /\ begun' \in Nat /\ begun' >= begun
      /\ unit' = [unit EXCEPT ![n] = u]
      /\ u \notin durable
      /\ ~conn[n].pending => u = begun + 1
  BY DEF ExecuteBegin, TypeOK, UnitsOK
<1>6. \A i \in DOMAIN stack : stack[i].kind \notin CloseKinds
  BY UserCodeNotClosing DEF ExecuteBegin, MayEnter, MayCall
<1>7. TypeOK'
  <2>1. execs' = execs + 1 /\ sessions' \in [Names -> Nat]
    BY DEF TypeOK, ExecuteBegin
  <2>2. doomed' \subseteq 1..begun' /\ unit' \in [Names -> 0..begun']
    BY <1>5 DEF TypeOK, ExecuteBegin
  <2>3. exc' \in Errors' /\ held' \in Errors'
    BY <2>1 DEF TypeOK, ExecuteBegin, Errors
  <2> QED
    BY <1>1, <1>4, <1>5, <2>1, <2>2, <2>3 DEF TypeOK, ExecuteBegin
<1>8. StackOrder'
  BY <1>3, <1>4, <1>6 DEF StackOrder, FramesOK, FrameOK, ExecuteBegin, Usable, CloseKinds
<1>9. FramesOK'
  <2> SUFFICES ASSUME NEW i \in DOMAIN stack'
               PROVE  FrameOK(stack[i], conn[stack[i].name])'
    BY DEF FramesOK
  <2>1. CASE i = Len(stack) + 1
    BY <1>2, <1>3, <1>4, <2>1 DEF FrameOK, ExecuteBegin, TypeOK, CloseKinds
  <2>2. CASE i \in DOMAIN stack
    <3>1. FrameOK(stack[i], conn[stack[i].name]) /\ stack'[i] = stack[i]
          /\ stack[i].kind \notin CloseKinds /\ stack[i].name \in Names
      BY <1>4, <1>6, <2>2 DEF FramesOK, Frames
    <3> QED
      BY <1>1, <1>2, <3>1 DEF FrameOK, ExecuteBegin, TypeOK
  <2> QED
    BY <1>4, <2>1, <2>2
<1>10. FlagsHaveFrames'
  BY <1>1, <1>2, <1>3, <1>4 DEF FlagsHaveFrames, Framed
<1>11. UnitsOK'
  BY <1>1, <1>2, <1>5 DEF UnitsOK, ExecuteBegin, TypeOK
<1>12. OutcomeIsHonest'
  BY <1>1, <1>2, <1>5 DEF OutcomeIsHonest, ExecuteBegin, TypeOK
<1>13. NoLeakedSession'
  BY <1>1, <1>2, <1>5 DEF NoLeakedSession, ExecuteBegin, TypeOK
<1>14. DoomedNeverDurable'
  BY <1>5 DEF DoomedNeverDurable, ExecuteBegin
<1>15. NoOrphanCallback'
  BY <1>1, <1>2, <1>5 DEF NoOrphanCallback, ExecuteBegin
<1>16. OpenWritesOK'
  <2> SUFFICES ASSUME NEW i \in DOMAIN stack', stack'[i].kind = "write",
                      NEW t \in touched, t[1] = stack'[i].id
               PROVE  /\ t[2] \notin durable
                      /\ \A m \in Names : unit'[m] = t[2] /\ conn'[m].pending
                                         => m = stack'[i].name
    BY DEF OpenWritesOK, ExecuteBegin
  <2>1. i \in DOMAIN stack /\ stack'[i] = stack[i] /\ t[2] \in 1..begun
    BY <1>3, <1>4 DEF TypeOK
  <2> QED
    BY <1>1, <1>2, <1>5, <2>1 DEF OpenWritesOK, TypeOK
<1>17. BrokenWriteNeverDurable'
  BY <1>1, <1>2, <1>5 DEF BrokenWriteNeverDurable, ExecuteBegin, TypeOK
<1> QED
  BY <1>7, <1>8, <1>9, <1>10, <1>11, <1>12, <1>13, <1>14, <1>15, <1>16, <1>17

\* No connection could be opened: there was no unit, the queues are cleared.
LEMMA ConnectFailsStep ==
  ASSUME IInv, NEW n \in Names, ConnectFails(n)
  PROVE  IInv'
<1> DEFINE r == [conn[n] EXCEPT !.execution_count = @ + 1]
<1> USE DEF IInv
<1>1. conn[n] \in ConnectionStates
  BY DEF TypeOK
<1>2. /\ r \in ConnectionStates
      /\ r.pending = conn[n].pending /\ r.connection = conn[n].connection
      /\ r.committing = conn[n].committing /\ r.outcome = conn[n].outcome
  BY <1>1 DEF ConnectionStates
<1>3. /\ MayCall /\ Usable(n) /\ ~conn[n].connection
      /\ execs' = execs + 1 /\ exc' = execs + 1
      /\ UNCHANGED <<stack, closed, writes, held, unit, begun, durable, touched,
                     broken, doomed, sessions>>
  BY DEF ConnectFails
<1>4. PICK k, ok :
        /\ k \in Exceptions /\ ok \in BOOLEAN /\ ok
        /\ conn' = [conn EXCEPT ![n] = Raised(r, k, ok)]
  <2>1. execs + 1 \in Exceptions /\ TRUE \in BOOLEAN
    BY DEF TypeOK, Exceptions
  <2> HIDE DEF r
  <2> WITNESS execs + 1, TRUE
  <2> QED
    BY <2>1, Zenon DEF ConnectFails, r
<1>5. ~r.pending /\ ~r.connection
  BY <1>2, <1>3 DEF UnitsOK
<1> HIDE DEF r
<1>6. exc' \in Errors' /\ held' \in Errors'
  BY <1>3 DEF TypeOK, Errors
<1>7. /\ conn'[n] = Raised(r, k, ok)
      /\ \A m \in Names \ {n} : conn'[m] = conn[m]
      /\ conn' = [conn EXCEPT ![n] = conn'[n]]
  BY <1>4 DEF TypeOK
<1>8. /\ conn'[n] \in ConnectionStates
      /\ ~conn'[n].pending /\ ~conn'[n].executing /\ ~conn'[n].connection
      /\ conn'[n].committing = conn[n].committing
      /\ conn'[n].completion_failed = conn[n].committing
      /\ conn'[n].outcome = conn[n].outcome
      /\ conn'[n].deferred = NoDeferred
  <2>1. /\ k \in Exceptions /\ ok \in BOOLEAN /\ r \in ConnectionStates
        /\ conn'[n] = Raised(r, k, ok)
    BY <1>2, <1>4, <1>7
  <2> QED
    BY <1>2, <1>5, <2>1, RaisedFields
<1>9. conn' \in [Names -> ConnectionStates]
  BY <1>7, <1>8 DEF TypeOK
<1>10. /\ \A i \in DOMAIN stack : stack[i].kind \notin CloseKinds
       /\ ~conn[n].executing /\ ~conn[n].pending
  BY <1>2, <1>3, <1>5, UserCodeNotClosing DEF MayCall, Usable
<1>11. TypeOK'
  BY <1>3, <1>6, <1>9 DEF TypeOK
<1>12. FramesKept /\ StackOrder'
  BY <1>3, StackOrderKept DEF FramesKept
<1>13. FramesOK'
  <2> SUFFICES ASSUME NEW i \in DOMAIN stack
               PROVE  FrameOK(stack[i], conn[stack[i].name])'
    BY <1>3 DEF FramesOK
  <2>1. FrameOK(stack[i], conn[stack[i].name]) /\ stack[i].kind \notin CloseKinds
        /\ stack[i].name \in Names
    BY <1>10, StackFacts DEF FramesOK, Frames
  <2>2. execs \in Nat /\ 1..execs \subseteq 1..execs'
    BY <1>3 DEF TypeOK
  <2>3. CASE stack[i].kind = "execute"
    BY <1>3, <1>7, <1>10, <2>1, <2>2, <2>3 DEF FrameOK, CloseKinds
  <2>4. CASE stack[i].kind = "commit"
    BY <1>3, <1>7, <1>8, <1>10, <2>1, <2>4 DEF FrameOK, CloseKinds
  <2> QED
    BY <1>3, <2>1, <2>3, <2>4 DEF FrameOK
<1>14. FlagsHaveFrames'
  BY <1>3, <1>7, <1>8, <1>10 DEF FlagsHaveFrames, Framed
<1>15. UnitPromises'
  <2>1. sessions'[n] = IF conn'[n].connection THEN 1 ELSE 0
    BY <1>3, <1>8 DEF NoLeakedSession
  <2>2. \A m \in Names \ {n} : conn'[m] = conn[m] /\ sessions'[m] = sessions[m]
    BY <1>3, <1>7
  <2>3. UnitPromises /\ UNCHANGED <<unit, durable, touched, broken, doomed>>
    BY <1>3 DEF UnitPromises
  <2>4. conn'[n].outcome = conn[n].outcome /\ ~conn[n].pending
    BY <1>8, <1>10
  <2> QED
    BY <1>8, <2>1, <2>2, <2>3, <2>4, UnitEnds
<1>16. OpenWritesOK'
  BY <1>3, <1>7, <1>8, <1>12, OpenWritesKept
<1> QED
  BY <1>11, <1>12, <1>13, <1>14, <1>15, <1>16 DEF UnitPromises

\* A statement returns: its writes have now touched the open unit.
LEMMA ExecuteReturnsStep ==
  ASSUME IInv, ExecuteReturns
  PROVE  IInv'
<1> DEFINE n == Top.name
<1> USE DEF IInv
<1>1. /\ stack # <<>> /\ Top.kind = "execute" /\ Pop
  BY DEF ExecuteReturns, OnTop
<1>2. /\ stack' \in Seq(Frames)
      /\ FramesKept
      /\ Len(stack) \in Nat \ {0}
      /\ DOMAIN stack = 1..Len(stack) /\ DOMAIN stack' = 1..(Len(stack) - 1)
      /\ \A i \in DOMAIN stack' : stack'[i] = stack[i]
      /\ \A i \in DOMAIN stack : stack[i] \in Frames
      /\ Top = stack[Len(stack)] /\ Top \in Frames
  BY <1>1, PopFacts
<1>3. n \in Names /\ conn[n].pending /\ conn[n].executing
  BY <1>1, <1>2 DEF FramesOK, FrameOK, Frames
<1> HIDE DEF n
<1>4. /\ conn' \in [Names -> ConnectionStates]
      /\ ~conn'[n].executing
      /\ conn'[n].pending = conn[n].pending /\ conn'[n].connection = conn[n].connection
      /\ conn'[n].committing = conn[n].committing /\ conn'[n].failed = conn[n].failed
      /\ conn'[n].completion_failed = conn[n].completion_failed
      /\ conn'[n].execution_error = conn[n].execution_error
      /\ conn'[n].outcome = conn[n].outcome /\ conn'[n].deferred = conn[n].deferred
      /\ conn'[n].pending_exceptions = conn[n].pending_exceptions
      /\ \A m \in Names \ {n} : conn'[m] = conn[m]
  <2>1. conn' = [conn EXCEPT ![n].executing = FALSE] /\ conn[n] \in ConnectionStates
    BY <1>3 DEF ExecuteReturns, n, TypeOK
  <2> QED
    BY <1>3, <2>1 DEF TypeOK, ConnectionStates
<1>5. /\ \A i \in DOMAIN stack : stack[i].kind \notin CloseKinds
      /\ \A i \in DOMAIN stack' : /\ stack[i].kind \in {"execute", "commit"}
                                      /\ stack[i].name = n
                                  => stack[i].kind = "commit"
  BY <1>1, <1>2, NotClosing DEF StackOrder, CloseKinds, n
<1>6. /\ unit[n] \in 1..begun /\ unit[n] \notin durable
      /\ \A m \in Names : unit[m] = unit[n] => m = n
  BY <1>3 DEF UnitsOK, TypeOK
<1>7. \A t \in touched' \ touched :
        /\ t[2] = unit[n]
        /\ \E i \in DOMAIN stack' : /\ stack[i].kind = "write" /\ stack[i].name = n
                                    /\ stack[i].id = t[1]
                                    /\ t[1] \in 1..writes /\ t[1] \notin broken
        /\ t \in (1..writes) \X (1..begun)
  <2> SUFFICES ASSUME NEW t \in touched', t \notin touched
               PROVE  /\ t[2] = unit[n]
                      /\ \E i \in DOMAIN stack' : /\ stack[i].kind = "write" /\ stack[i].name = n
                                                  /\ stack[i].id = t[1]
                                                  /\ t[1] \in 1..writes /\ t[1] \notin broken
                      /\ t \in (1..writes) \X (1..begun)
    OBVIOUS
  <2>1. PICK i \in DOMAIN stack : /\ stack[i].kind = "write" /\ stack[i].name = n
                                  /\ t = <<stack[i].id, unit[n]>>
    BY DEF ExecuteReturns, OpenWrites, n
  <2>2. i \in DOMAIN stack'
    BY <1>1, <1>2, <2>1
  <2>3. stack[i].id \in 1..writes /\ stack[i].id \notin broken
    BY <2>1 DEF FramesOK, FrameOK
  <2> QED
    BY <1>6, <2>1, <2>2, <2>3
<1>8. TypeOK'
  <2>1. touched' \subseteq (1..writes) \X (1..begun)
    BY <1>7 DEF TypeOK
  <2>2. exc' \in Errors' /\ held' \in Errors'
    BY DEF TypeOK, ExecuteReturns, Errors
  <2> QED
    BY <1>2, <1>4, <2>1, <2>2 DEF TypeOK, ExecuteReturns
<1>9. StackOrder'
  BY <1>2, StackOrderKept
<1>10. FramesOK'
  <2> SUFFICES ASSUME NEW i \in DOMAIN stack'
               PROVE  FrameOK(stack[i], conn[stack[i].name])'
    BY DEF FramesOK
  <2>1. FrameOK(stack[i], conn[stack[i].name]) /\ stack'[i] = stack[i]
        /\ stack[i].kind \notin CloseKinds /\ stack[i].name \in Names
        /\ (stack[i].kind = "execute" => stack[i].name # n)
    BY <1>2, <1>5 DEF FramesOK, Frames
  <2> QED
    BY <1>4, <2>1 DEF FrameOK, ExecuteReturns
<1>11. FlagsHaveFrames'
  <2> SUFFICES ASSUME NEW m \in Names
               PROVE  /\ conn'[m].executing => Framed("execute", m)' # {}
                      /\ conn'[m].committing => Framed("commit", m)' # {}
                      /\ conn'[m].completion_failed => conn'[m].committing
    BY DEF FlagsHaveFrames
  <2>1. conn'[m].executing => conn[m].executing /\ m # n
    BY <1>4
  <2>2. \A i \in DOMAIN stack : i \in DOMAIN stack' \/ stack[i] = Top
    BY <1>2
  <2> QED
    BY <1>1, <1>2, <1>4, <2>1, <2>2 DEF FlagsHaveFrames, Framed, n
<1>12. /\ UnitsOK' /\ OutcomeIsHonest' /\ NoLeakedSession' /\ DoomedNeverDurable'
       /\ NoOrphanCallback'
  <2>1. UnitsOK'
    BY <1>4 DEF UnitsOK, ExecuteReturns
  <2>2. OutcomeIsHonest' /\ NoLeakedSession'
    BY <1>4 DEF OutcomeIsHonest, NoLeakedSession, ExecuteReturns
  <2>3. DoomedNeverDurable'
    BY DEF DoomedNeverDurable, ExecuteReturns
  <2>4. NoOrphanCallback'
    BY <1>4 DEF NoOrphanCallback, ExecuteReturns
  <2> QED
    BY <2>1, <2>2, <2>3, <2>4
<1>13. OpenWritesOK'
  <2> SUFFICES ASSUME NEW i \in DOMAIN stack', stack'[i].kind = "write",
                      NEW t \in touched', t[1] = stack'[i].id
               PROVE  /\ t[2] \notin durable
                      /\ \A m \in Names : unit[m] = t[2] /\ conn'[m].pending
                                         => m = stack'[i].name
    BY DEF OpenWritesOK, ExecuteReturns
  <2>1. CASE t \in touched
    BY <1>2, <1>4, <2>1 DEF OpenWritesOK
  <2>2. CASE t \notin touched
    <3>1. PICK j \in DOMAIN stack' : /\ stack[j].kind = "write" /\ stack[j].name = n
                                     /\ stack[j].id = t[1]
      BY <1>7, <2>2
    <3>2. i = j
      BY <1>2, <3>1 DEF StackOrder
    <3> QED
      BY <1>2, <1>6, <1>7, <2>2, <3>1, <3>2
  <2> QED
    BY <2>1, <2>2
<1>14. BrokenWriteNeverDurable'
  BY <1>4, <1>7 DEF BrokenWriteNeverDurable, ExecuteReturns
<1> QED
  BY <1>8, <1>9, <1>10, <1>11, <1>12, <1>13, <1>14

\* A statement fails: the unit is rolled back or uncertain, the session kept
\* only if the rollback succeeded.
LEMMA ExecuteFailsStep ==
  ASSUME IInv, NEW ok, ok \in BOOLEAN, ExecuteFails(ok)
  PROVE  IInv'
<1> DEFINE n == Top.name
           e == IF exc = NoError THEN Top.id ELSE exc
<1> USE DEF IInv
<1>1. /\ stack # <<>> /\ Top.kind = "execute" /\ Pop
      /\ conn' = [conn EXCEPT ![n] = Raised(conn[n], e, ok)]
      /\ exc' = e /\ sessions' = SessionsAfter(n, ok)
      /\ UNCHANGED <<closed, execs, writes, held, unit, begun, durable, touched,
                     broken, doomed>>
  BY DEF ExecuteFails, OnTop
<1>2. /\ stack' \in Seq(Frames)
      /\ FramesKept
      /\ Len(stack) \in Nat \ {0}
      /\ DOMAIN stack = 1..Len(stack) /\ DOMAIN stack' = 1..(Len(stack) - 1)
      /\ \A i \in DOMAIN stack' : stack'[i] = stack[i]
      /\ \A i \in DOMAIN stack : stack[i] \in Frames
      /\ Top = stack[Len(stack)] /\ Top \in Frames
  BY <1>1, PopFacts
<1>3. n \in Names /\ conn[n].pending /\ Top.id \in 1..execs
  BY <1>1, <1>2 DEF FramesOK, FrameOK, Frames
<1>4. e \in Errors /\ e \in Exceptions
  <2>1. exc \in Errors /\ \A k \in Errors : k \in Int
    BY DEF TypeOK, Errors, NoError, Other
  <2>2. Top.id \in Errors
    BY <1>3 DEF Errors
  <2> QED
    BY <2>1, <2>2 DEF Exceptions
<1> HIDE DEF n, e
<1>5. conn[n] \in ConnectionStates /\ conn[n].connection
  BY <1>3 DEF TypeOK, UnitsOK
<1>6. /\ Raised(conn[n], e, ok) \in ConnectionStates
      /\ conn' \in [Names -> ConnectionStates]
      /\ conn'[n] = Raised(conn[n], e, ok)
      /\ \A m \in Names \ {n} : conn'[m] = conn[m]
  <2>1. Raised(conn[n], e, ok) \in ConnectionStates
    BY <1>4, <1>5, RaisedFields
  <2> QED
    BY <1>1, <1>3, <2>1, RecordSet
<1>7. /\ ~conn'[n].pending /\ ~conn'[n].executing
      /\ conn'[n].committing = conn[n].committing
      /\ conn'[n].completion_failed = conn[n].committing
      /\ conn'[n].connection <=> ok
      /\ conn'[n].outcome \in {"rolled_back", "unknown"}
      /\ conn'[n].deferred = NoDeferred
  BY <1>3, <1>4, <1>5, <1>6, RaisedFields
<1>8. /\ sessions' \in [Names -> Nat]
      /\ sessions'[n] = IF conn'[n].connection THEN 1 ELSE 0
      /\ \A m \in Names \ {n} : sessions'[m] = sessions[m]
  <2>1. sessions[n] = 1 /\ sessions \in [Names -> Nat]
    BY <1>3, <1>5 DEF NoLeakedSession, TypeOK
  <2>2. sessions' = [sessions EXCEPT ![n] = IF ~ok THEN @ - 1 ELSE @]
    BY <1>1, <1>3 DEF SessionsAfter
  <2>3. CASE ok
    BY <1>3, <1>7, <2>1, <2>2, <2>3
  <2>4. CASE ~ok
    BY <1>3, <1>7, <2>1, <2>2, <2>4
  <2> QED
    BY <2>3, <2>4
<1>9. \A i \in DOMAIN stack : stack[i].kind \notin CloseKinds
  BY <1>1, NotClosing DEF CloseKinds
<1>10. TypeOK'
  <2>1. closed' \in BOOLEAN /\ durable' \subseteq 1..begun /\ doomed' \subseteq 1..begun
        /\ broken' \subseteq 1..writes
    BY <1>1 DEF TypeOK
  <2> QED
    BY <1>1, <1>2, <1>4, <1>6, <1>8, <2>1, TypeKept
<1>11. StackOrder'
  BY <1>2, StackOrderKept
<1>12. FramesOK'
  <2>1. \A i \in DOMAIN stack' : stack[i].kind = "execute" => stack[i].name # n
    BY <1>1, <1>2 DEF StackOrder, n
  <2>2. \A i \in DOMAIN stack' : stack[i].kind = "commit" /\ stack[i].name = n
          => conn'[n].committing /\ conn'[n].completion_failed
    BY <1>2, <1>7 DEF FramesOK, FrameOK
  <2>3. \A i \in DOMAIN stack' : stack[i].kind = "write" => stack[i].id \notin broken'
    BY <1>1, <1>2 DEF FramesOK, FrameOK
  <2> QED
    BY <1>1, <1>2, <1>3, <1>6, <1>9, <2>1, <2>2, <2>3, FramesOKKept
<1>13. FlagsHaveFrames'
  <2>1. ASSUME conn'[n].committing
        PROVE  \E i \in DOMAIN stack' : stack'[i].kind = "commit" /\ stack'[i].name = n
    <3>1. PICK i \in DOMAIN stack : stack[i].kind = "commit" /\ stack[i].name = n
      BY <1>3, <1>7, <2>1 DEF FlagsHaveFrames, Framed
    <3>2. i \in DOMAIN stack'
      BY <1>1, <1>2, <3>1
    <3> QED
      BY <1>2, <3>1, <3>2
  <2>2. \A i \in DOMAIN stack : stack[i].name # n => i \in DOMAIN stack'
    BY <1>2 DEF n
  <2> QED
    BY <1>2, <1>3, <1>6, <1>7, <2>1, <2>2, FlagsKept
<1>14. UnitPromises'
  <2>1. UnitPromises /\ UNCHANGED <<unit, durable, touched, broken, doomed>>
    BY <1>1 DEF UnitPromises
  <2> QED
    BY <1>3, <1>6, <1>7, <1>8, <2>1, UnitEnds
<1>15. OpenWritesOK'
  BY <1>1, <1>2, <1>6, <1>7, OpenWritesKept
<1> QED
  BY <1>10, <1>11, <1>12, <1>13, <1>14, <1>15 DEF UnitPromises

\* A write begins: its number is new, so it has touched nothing.
LEMMA WriteBeginStep ==
  ASSUME IInv, NEW n \in Names, WriteBegin(n)
  PROVE  IInv'
<1> DEFINE f == [Frame("write", n) EXCEPT !.id = writes + 1,
                                          !.count = conn[n].execution_count]
<1> USE DEF IInv
<1>1. /\ InUserCode /\ writes' = writes + 1 /\ Push(f)
      /\ UNCHANGED <<conn, exc, closed, execs, held, unit, begun, durable, touched,
                     broken, doomed, sessions>>
  BY DEF WriteBegin, MayEnter, MayCall
<1>2. f \in Frames /\ f.kind = "write" /\ f.name = n /\ f.id = writes + 1
  <2>1. NoEntry \in Entries \cup {NoEntry} /\ writes + 1 \in Nat
        /\ conn[n].execution_count \in Nat
    BY DEF TypeOK, ConnectionStates
  <2> QED
    BY <2>1 DEF Frame, Frames, Kinds, Queues
<1>3. /\ stack' \in Seq(Frames)
      /\ Len(stack) \in Nat /\ Len(stack') = Len(stack) + 1
      /\ DOMAIN stack = 1..Len(stack) /\ DOMAIN stack' = 1..(Len(stack) + 1)
      /\ \A i \in DOMAIN stack : stack'[i] = stack[i] /\ stack[i] \in Frames
      /\ stack'[Len(stack) + 1] = f
  BY <1>1, <1>2, PushFacts
<1> HIDE DEF f
<1>4. \A i \in DOMAIN stack : stack[i].kind \notin CloseKinds
  BY <1>1, UserCodeNotClosing
<1>5. writes \in Nat /\ \A i \in DOMAIN stack : stack[i].kind = "write"
        => stack[i].id \in 1..writes
  BY DEF TypeOK, FramesOK, FrameOK
<1>6. TypeOK'
  <2>1. touched' \subseteq (1..writes') \X (1..begun') /\ broken' \subseteq 1..writes'
    BY <1>1 DEF TypeOK
  <2>2. exc' \in Errors' /\ held' \in Errors'
    BY <1>1 DEF TypeOK, Errors
  <2> QED
    BY <1>1, <1>3, <2>1, <2>2 DEF TypeOK
<1>7. StackOrder'
  BY <1>2, <1>3, <1>4, <1>5 DEF StackOrder, CloseKinds
<1>8. FramesOK'
  <2> SUFFICES ASSUME NEW i \in DOMAIN stack'
               PROVE  FrameOK(stack[i], conn[stack[i].name])'
    BY DEF FramesOK
  <2>1. CASE i = Len(stack) + 1
    <3>1. writes + 1 \in 1..writes' /\ writes + 1 \notin broken'
      BY <1>1, <1>5 DEF TypeOK
    <3>2. stack'[i] = f
      BY <1>3, <2>1
    <3> QED
      BY <1>2, <3>1, <3>2 DEF FrameOK, CloseKinds
  <2>2. CASE i \in DOMAIN stack
    <3>1. FrameOK(stack[i], conn[stack[i].name]) /\ stack'[i] = stack[i]
          /\ stack[i].kind \notin CloseKinds
      BY <1>3, <1>4, <2>2 DEF FramesOK
    <3>2. 1..writes \subseteq 1..writes'
      BY <1>1, <1>5
    <3> QED
      BY <1>1, <3>1, <3>2 DEF FrameOK
  <2> QED
    BY <1>3, <2>1, <2>2
<1>9. FlagsHaveFrames'
  BY <1>1, <1>3 DEF FlagsHaveFrames, Framed
<1>10. UnitPromises'
  BY <1>1, UnitsKept DEF UnitPromises
<1>11. OpenWritesOK'
  <2> SUFFICES ASSUME NEW i \in DOMAIN stack', stack'[i].kind = "write",
                      NEW t \in touched, t[1] = stack'[i].id
               PROVE  /\ t[2] \notin durable
                      /\ \A m \in Names : unit[m] = t[2] /\ conn[m].pending
                                         => m = stack'[i].name
    BY <1>1 DEF OpenWritesOK
  <2>1. t[1] \in 1..writes
    BY DEF TypeOK
  <2>2. stack'[i].id # writes + 1
    BY <1>5, <2>1
  <2>3. i \in DOMAIN stack /\ stack'[i] = stack[i]
    BY <1>2, <1>3, <2>2
  <2> QED
    BY <2>3 DEF OpenWritesOK
<1> QED
  BY <1>6, <1>7, <1>8, <1>9, <1>10, <1>11 DEF UnitPromises

\* A write returns: one frame less.
LEMMA WriteReturnsStep ==
  ASSUME IInv, WriteReturns
  PROVE  IInv'
<1> USE DEF IInv
<1>1. /\ stack # <<>> /\ Top.kind = "write" /\ Pop
      /\ UNCHANGED <<conn, exc, closed, execs, writes, held, unit, begun, durable,
                     touched, broken, doomed, sessions>>
  BY DEF WriteReturns, OnTop, history
<1>2. /\ stack' \in Seq(Frames)
      /\ FramesKept
      /\ Len(stack) \in Nat \ {0}
      /\ DOMAIN stack = 1..Len(stack) /\ DOMAIN stack' = 1..(Len(stack) - 1)
      /\ \A i \in DOMAIN stack' : stack'[i] = stack[i]
      /\ Top = stack[Len(stack)] /\ Top \in Frames
  BY <1>1, PopFacts
<1>3. TypeOK'
  BY <1>1, <1>2, TypeKept DEF TypeOK
<1>4. StackOrder'
  BY <1>2, StackOrderKept
<1>5. FramesOK'
  BY <1>1, <1>2 DEF FramesOK, FrameOK
<1>6. FlagsHaveFrames'
  BY <1>1, <1>2 DEF FlagsHaveFrames, Framed
<1>7. UnitPromises'
  BY <1>1, UnitsKept DEF UnitPromises
<1>8. OpenWritesOK'
  BY <1>1, <1>2, OpenWritesKept
<1> QED
  BY <1>3, <1>4, <1>5, <1>6, <1>7, <1>8 DEF UnitPromises

\* A write fails: an open unit becomes rollback-only, for the failure is not
\* that of a statement which has rolled it back.
LEMMA WriteFailsStep ==
  ASSUME IInv, WriteFails
  PROVE  IInv'
<1> DEFINE n == Top.name
<1> USE DEF IInv
<1>1. /\ stack # <<>> /\ Top.kind = "write" /\ Pop /\ exc # NoError
      /\ broken' = broken \cup {Top.id}
      /\ doomed' = IF conn[n].pending THEN doomed \cup {unit[n]} ELSE doomed
      /\ UNCHANGED <<exc, closed, execs, writes, held, unit, begun, durable,
                     touched, sessions>>
  BY DEF WriteFails, OnTop
<1>2. /\ stack' \in Seq(Frames)
      /\ FramesKept
      /\ Len(stack) \in Nat \ {0}
      /\ DOMAIN stack = 1..Len(stack) /\ DOMAIN stack' = 1..(Len(stack) - 1)
      /\ \A i \in DOMAIN stack' : stack'[i] = stack[i]
      /\ \A i \in DOMAIN stack : stack[i] \in Frames
      /\ Top = stack[Len(stack)] /\ Top \in Frames
  BY <1>1, PopFacts
<1>3. n \in Names /\ Top.id \in 1..writes
  BY <1>1, <1>2 DEF FramesOK, FrameOK, Frames
<1>4. conn[n] \in ConnectionStates
  BY <1>3 DEF TypeOK
<1>5. PICK b : /\ b \in BOOLEAN /\ conn' = [conn EXCEPT ![n] = FailIf(conn[n], b)]
               /\ b <=> ~RolledBackBy(conn[n], Top, exc)
  <2> WITNESS ~RolledBackBy(conn[n], Top, exc)
  <2> QED
    BY Zenon DEF WriteFails
<1> HIDE DEF n
<1>6. /\ conn' \in [Names -> ConnectionStates]
      /\ conn'[n] = FailIf(conn[n], b)
      /\ \A m \in Names \ {n} : conn'[m] = conn[m]
  <2>1. FailIf(conn[n], b) \in ConnectionStates
    BY <1>4, <1>5, FailIfFields
  <2> QED
    BY <1>3, <1>5, <2>1, RecordSet
<1>7. /\ conn'[n].pending = conn[n].pending /\ conn'[n].executing = conn[n].executing
      /\ conn'[n].connection = conn[n].connection
      /\ conn'[n].execution_error = conn[n].execution_error
      /\ conn'[n].outcome = conn[n].outcome /\ conn'[n].deferred = conn[n].deferred
      /\ conn'[n].pending_exceptions = conn[n].pending_exceptions
      /\ conn'[n].committing = conn[n].committing
      /\ conn'[n].completion_failed = conn[n].completion_failed
      /\ conn'[n].failed <=> conn[n].failed \/ b
  BY <1>4, <1>5, <1>6, FailIfFields
<1>8. conn[n].pending => conn'[n].failed
  <2>1. conn[n].pending => ~RolledBackBy(conn[n], Top, exc)
    BY <1>1, <1>3 DEF UnitsOK, RolledBackBy
  <2> QED
    BY <1>5, <1>7, <2>1
<1>9. conn[n].pending => unit[n] \in 1..begun /\ unit[n] \notin durable
  BY <1>3 DEF UnitsOK, TypeOK
<1>10. \A i \in DOMAIN stack : stack[i].kind \notin CloseKinds
  BY <1>1, NotClosing DEF CloseKinds
<1>11. TypeOK'
  <2>1. doomed' \subseteq 1..begun /\ broken' \subseteq 1..writes
        /\ exc' \in Errors /\ closed' \in BOOLEAN /\ durable' \subseteq 1..begun
        /\ sessions' \in [Names -> Nat]
    BY <1>1, <1>3, <1>9 DEF TypeOK
  <2> QED
    BY <1>1, <1>2, <1>6, <2>1, TypeKept
<1>12. StackOrder'
  BY <1>2, StackOrderKept
<1>13. FramesOK'
  <2>1. \A i \in DOMAIN stack' : stack[i].kind = "write" => stack[i].id \notin broken'
    BY <1>1, <1>2 DEF StackOrder, FramesOK, FrameOK
  <2>2. \A i \in DOMAIN stack' :
          /\ stack[i].kind = "execute" /\ stack[i].name = n
               => conn'[n].executing /\ conn'[n].pending
          /\ stack[i].kind = "commit" /\ stack[i].name = n
               => /\ conn'[n].committing
                  /\ stack[i].queue = "before"
                       => \/ conn'[n].pending \/ conn'[n].completion_failed
                          \/ conn'[n].failed
    BY <1>2, <1>7 DEF FramesOK, FrameOK
  <2> QED
    BY <1>1, <1>2, <1>3, <1>6, <1>10, <2>1, <2>2, FramesOKKept
<1>14. FlagsHaveFrames'
  <2>1. \A i \in DOMAIN stack : stack[i].kind # "write" => i \in DOMAIN stack'
    BY <1>1, <1>2
  <2> SUFFICES ASSUME NEW m \in Names
               PROVE  /\ conn'[m].executing => Framed("execute", m)' # {}
                      /\ conn'[m].committing => Framed("commit", m)' # {}
                      /\ conn'[m].completion_failed => conn'[m].committing
    BY DEF FlagsHaveFrames
  <2>2. /\ conn'[m].executing = conn[m].executing
        /\ conn'[m].committing = conn[m].committing
        /\ conn'[m].completion_failed = conn[m].completion_failed
    BY <1>6, <1>7
  <2> QED
    BY <1>2, <2>1, <2>2 DEF FlagsHaveFrames, Framed
<1>15. UnitsOK' /\ OutcomeIsHonest' /\ NoLeakedSession'
  <2>1. UnitsOK'
    <3> SUFFICES ASSUME NEW m \in Names
                 PROVE  /\ conn'[m].pending =>
                             /\ conn'[m].connection /\ unit[m] > 0 /\ unit[m] \notin durable
                             /\ conn'[m].execution_error = NoError
                             /\ unit[m] \in doomed' => \/ conn'[m].failed
                                                       \/ conn'[m].pending_exceptions
                        /\ \A k \in Names \ {m} : unit[k] = unit[m] => unit[m] = 0
      BY <1>1 DEF UnitsOK
    <3>1. CASE m = n
      BY <1>7, <1>8, <3>1 DEF UnitsOK
    <3>2. CASE m # n
      <4>1. conn[m].pending /\ unit[m] \in doomed' => unit[m] \in doomed
        BY <1>1, <1>3, <3>2 DEF UnitsOK
      <4> QED
        BY <1>6, <3>2, <4>1 DEF UnitsOK
    <3> QED
      BY <3>1, <3>2
  <2>2. OutcomeIsHonest' /\ NoLeakedSession'
    BY <1>1, <1>6, <1>7 DEF OutcomeIsHonest, NoLeakedSession
  <2> QED
    BY <2>1, <2>2
<1>16. DoomedNeverDurable'
  BY <1>1, <1>9 DEF DoomedNeverDurable
<1>17. NoOrphanCallback'
  BY <1>1, <1>6, <1>7 DEF NoOrphanCallback
<1>18. OpenWritesOK'
  BY <1>1, <1>2, <1>6, <1>7, OpenWritesKept
<1>19. BrokenWriteNeverDurable'
  <2> SUFFICES ASSUME NEW t \in touched, t[1] \in broken'
               PROVE  /\ t[2] \notin durable
                      /\ \A m \in Names : unit[m] = t[2] /\ conn'[m].pending
                                         => conn'[m].failed
    BY <1>1 DEF BrokenWriteNeverDurable
  <2>1. CASE t[1] \in broken
    BY <1>6, <1>7, <2>1 DEF BrokenWriteNeverDurable
  <2>2. CASE t[1] = Top.id
    <3>1. /\ t[2] \notin durable
          /\ \A m \in Names : unit[m] = t[2] /\ conn[m].pending => m = n
      BY <1>1, <1>2, <2>2 DEF OpenWritesOK, n
    <3> QED
      BY <1>6, <1>7, <1>8, <3>1
  <2> QED
    BY <1>1, <2>1, <2>2
<1> QED
  BY <1>11, <1>12, <1>13, <1>14, <1>15, <1>16, <1>17, <1>18, <1>19

\* A callback is queued for the open unit, or for none.
LEMMA DeferStep ==
  ASSUME IInv, NEW n \in Names, NEW q \in Queues, NEW c \in Callbacks, Defer(n, q, c)
  PROVE  IInv'
<1> DEFINE u == IF conn[n].pending THEN unit[n] ELSE 0
           e == [callback |-> c, unit |-> u]
           es == conn[n].deferred[q] \cup {e}
<1> USE DEF IInv
<1>1. /\ conn' = [conn EXCEPT ![n] = SetQueue(conn[n], q, es)]
      /\ UNCHANGED <<stack, exc, closed, execs, writes, held, unit, begun, durable,
                     touched, broken, doomed, sessions>>
  BY DEF Defer, control, history
<1>2. conn[n] \in ConnectionStates
  BY DEF TypeOK
<1>3. /\ e \in Entries /\ e.unit = u
      /\ u = 0 \/ (u = unit[n] /\ conn[n].pending)
  <2>1. u \in Nat /\ (u = 0 \/ (u = unit[n] /\ conn[n].pending))
    BY DEF TypeOK
  <2> HIDE DEF u
  <2> QED
    BY <2>1 DEF Entries
<1> HIDE DEF e, u
<1>4. es \in SUBSET Entries
  BY <1>2, <1>3 DEF ConnectionStates
<1> HIDE DEF es
<1>5. /\ conn' \in [Names -> ConnectionStates]
      /\ conn'[n] = SetQueue(conn[n], q, es)
      /\ \A m \in Names \ {n} : conn'[m] = conn[m]
  <2>1. SetQueue(conn[n], q, es) \in ConnectionStates
    BY <1>2, <1>4, SetQueueFields
  <2> QED
    BY <1>1, <2>1, RecordSet
<1>6. /\ conn'[n].deferred[q] = es
      /\ \A r \in Queues \ {q} : conn'[n].deferred[r] = conn[n].deferred[r]
      /\ conn'[n].pending = conn[n].pending /\ conn'[n].executing = conn[n].executing
      /\ conn'[n].connection = conn[n].connection
      /\ conn'[n].execution_error = conn[n].execution_error
      /\ conn'[n].outcome = conn[n].outcome /\ conn'[n].failed = conn[n].failed
      /\ conn'[n].committing = conn[n].committing
      /\ conn'[n].completion_failed = conn[n].completion_failed
      /\ conn'[n].pending_exceptions = conn[n].pending_exceptions
  BY <1>2, <1>4, <1>5, SetQueueFields
<1>7. TypeOK'
  BY <1>1, <1>5, TypeKept DEF TypeOK
<1>8. FramesKept /\ StackOrder'
  BY <1>1, StackOrderKept DEF FramesKept
<1>9. FramesOK'
  <2>1. \A m \in Names : /\ conn'[m].pending = conn[m].pending
                         /\ conn'[m].executing = conn[m].executing
                         /\ conn'[m].committing = conn[m].committing
                         /\ conn'[m].completion_failed = conn[m].completion_failed
                         /\ conn'[m].failed = conn[m].failed
                         /\ conn'[m].connection = conn[m].connection
    BY <1>5, <1>6
  <2>2. \A i \in DOMAIN stack : stack[i].name \in Names
    BY StackFacts DEF Frames
  <2> QED
    BY <1>1, <2>1, <2>2 DEF FramesOK, FrameOK
<1>10. FlagsHaveFrames'
  BY <1>1, <1>5, <1>6 DEF FlagsHaveFrames, Framed
<1>11. UnitsOK' /\ OutcomeIsHonest' /\ NoLeakedSession'
  <2>1. UnitsOK'
    BY <1>1, <1>5, <1>6 DEF UnitsOK
  <2>2. OutcomeIsHonest' /\ NoLeakedSession'
    BY <1>1, <1>5, <1>6 DEF OutcomeIsHonest, NoLeakedSession
  <2> QED
    BY <2>1, <2>2
<1>12. DoomedNeverDurable' /\ BrokenWriteNeverDurable'
  BY <1>1, <1>5, <1>6 DEF DoomedNeverDurable, BrokenWriteNeverDurable
<1>13. NoOrphanCallback'
  <2> SUFFICES ASSUME NEW m \in Names, NEW r \in Queues, NEW d \in conn'[m].deferred[r]
               PROVE  \/ d.unit = 0
                      \/ d.unit = unit[m] /\ conn'[m].pending
                      \/ r = "after" /\ d.unit \in durable
    BY <1>1 DEF NoOrphanCallback
  <2>1. CASE d \in conn[m].deferred[r]
    BY <1>5, <1>6, <2>1 DEF NoOrphanCallback
  <2>2. CASE d \notin conn[m].deferred[r]
    <3>1. m = n /\ d = e
      BY <1>5, <1>6, <2>2 DEF es
    <3> QED
      BY <1>3, <1>6, <3>1
  <2> QED
    BY <2>1, <2>2
<1>14. OpenWritesOK'
  BY <1>1, <1>5, <1>6, <1>8, OpenWritesKept
<1> QED
  BY <1>7, <1>8, <1>9, <1>10, <1>11, <1>12, <1>13, <1>14

\* deferredRaise: the doomed unit, if one is open, is not durable.
LEMMA DeferredRaiseStep ==
  ASSUME IInv, NEW n \in Names, DeferredRaise(n)
  PROVE  IInv'
<1> USE DEF IInv
<1>1. /\ conn' = [conn EXCEPT ![n].pending_exceptions = TRUE]
      /\ doomed' = IF conn[n].pending THEN doomed \cup {unit[n]} ELSE doomed
      /\ UNCHANGED <<stack, exc, closed, execs, writes, held, unit, begun, durable,
                     touched, broken, sessions>>
  BY DEF DeferredRaise, control
<1>2. /\ conn' \in [Names -> ConnectionStates]
      /\ \A m \in Names \ {n} : conn'[m] = conn[m]
      /\ conn'[n].pending = conn[n].pending /\ conn'[n].executing = conn[n].executing
      /\ conn'[n].connection = conn[n].connection
      /\ conn'[n].execution_error = conn[n].execution_error
      /\ conn'[n].outcome = conn[n].outcome /\ conn'[n].failed = conn[n].failed
      /\ conn'[n].committing = conn[n].committing
      /\ conn'[n].completion_failed = conn[n].completion_failed
      /\ conn'[n].deferred = conn[n].deferred
      /\ conn'[n].pending_exceptions
  BY <1>1 DEF TypeOK, ConnectionStates
<1>3. conn[n].pending => unit[n] \in 1..begun /\ unit[n] \notin durable
  BY DEF UnitsOK, TypeOK
<1>4. TypeOK'
  <2>1. doomed' \subseteq 1..begun
    BY <1>1, <1>3 DEF TypeOK
  <2> QED
    BY <1>1, <1>2, <2>1, TypeKept DEF TypeOK
<1>5. FramesKept /\ StackOrder'
  BY <1>1, StackOrderKept DEF FramesKept
<1>6. FramesOK'
  <2>1. \A m \in Names : /\ conn'[m].pending = conn[m].pending
                         /\ conn'[m].executing = conn[m].executing
                         /\ conn'[m].committing = conn[m].committing
                         /\ conn'[m].completion_failed = conn[m].completion_failed
                         /\ conn'[m].failed = conn[m].failed
                         /\ conn'[m].connection = conn[m].connection
    BY <1>2
  <2>2. \A i \in DOMAIN stack : stack[i].name \in Names
    BY StackFacts DEF Frames
  <2> QED
    BY <1>1, <2>1, <2>2 DEF FramesOK, FrameOK
<1>7. FlagsHaveFrames'
  BY <1>1, <1>2 DEF FlagsHaveFrames, Framed
<1>8. UnitsOK'
  <2> SUFFICES ASSUME NEW m \in Names
               PROVE  /\ conn'[m].pending =>
                           /\ conn'[m].connection /\ unit[m] > 0 /\ unit[m] \notin durable
                           /\ conn'[m].execution_error = NoError
                           /\ unit[m] \in doomed' => \/ conn'[m].failed
                                                     \/ conn'[m].pending_exceptions
                      /\ \A k \in Names \ {m} : unit[k] = unit[m] => unit[m] = 0
    BY <1>1 DEF UnitsOK
  <2>1. CASE m = n
    BY <1>2, <2>1 DEF UnitsOK
  <2>2. CASE m # n
    <3>1. conn[m].pending /\ unit[m] \in doomed' => unit[m] \in doomed
      BY <1>1, <2>2 DEF UnitsOK
    <3> QED
      BY <1>2, <2>2, <3>1 DEF UnitsOK
  <2> QED
    BY <2>1, <2>2
<1>9. OutcomeIsHonest' /\ NoLeakedSession'
  BY <1>1, <1>2 DEF OutcomeIsHonest, NoLeakedSession
<1>10. DoomedNeverDurable' /\ NoOrphanCallback' /\ BrokenWriteNeverDurable'
  <2>1. DoomedNeverDurable'
    BY <1>1, <1>3 DEF DoomedNeverDurable
  <2>2. NoOrphanCallback'
    BY <1>1, <1>2 DEF NoOrphanCallback
  <2>3. BrokenWriteNeverDurable'
    BY <1>1, <1>2 DEF BrokenWriteNeverDurable
  <2> QED
    BY <2>1, <2>2, <2>3
<1>11. OpenWritesOK'
  BY <1>1, <1>2, <1>5, OpenWritesKept
<1> QED
  BY <1>4, <1>5, <1>6, <1>7, <1>8, <1>9, <1>10, <1>11

\* A commit begins: no write and no other commit of n is in progress.
LEMMA CommitBeginStep ==
  ASSUME IInv, NEW n \in Names, CommitBegin(n)
  PROVE  IInv'
<1> DEFINE f == Frame("commit", n)
<1> USE DEF IInv
<1>1. /\ InUserCode /\ Boundary /\ conn[n].pending
      /\ ~conn[n].executing /\ ~conn[n].committing
      /\ conn' = [conn EXCEPT ![n] = CommitEnters(conn[n])] /\ Push(f)
      /\ UNCHANGED <<exc, closed, execs, writes, held, unit, begun, durable, touched,
                     broken, doomed, sessions>>
  BY DEF CommitBegin, MayEnter, MayCall, CompletionAllowed, NeedsCommit, history
<1>2. f \in Frames /\ f.kind = "commit" /\ f.name = n /\ f.queue = "before"
  BY DEF Frame, Frames, Kinds, Queues
<1>3. /\ stack' \in Seq(Frames)
      /\ Len(stack) \in Nat /\ Len(stack') = Len(stack) + 1
      /\ DOMAIN stack = 1..Len(stack) /\ DOMAIN stack' = 1..(Len(stack) + 1)
      /\ \A i \in DOMAIN stack : stack'[i] = stack[i] /\ stack[i] \in Frames
      /\ stack'[Len(stack) + 1] = f
  BY <1>1, <1>2, PushFacts
<1> HIDE DEF f
<1>4. /\ CommitEnters(conn[n]) \in ConnectionStates
      /\ conn' \in [Names -> ConnectionStates]
      /\ conn'[n] = CommitEnters(conn[n])
      /\ \A m \in Names \ {n} : conn'[m] = conn[m]
  <2>1. CommitEnters(conn[n]) \in ConnectionStates
    BY CommitEntersFields DEF TypeOK
  <2> QED
    BY <1>1, <2>1, RecordSet
<1>5. /\ conn'[n].pending = conn[n].pending /\ conn'[n].executing = conn[n].executing
      /\ conn'[n].connection = conn[n].connection
      /\ conn'[n].execution_error = conn[n].execution_error
      /\ conn'[n].outcome = conn[n].outcome /\ conn'[n].failed = conn[n].failed
      /\ conn'[n].deferred = conn[n].deferred
      /\ conn'[n].pending_exceptions = conn[n].pending_exceptions
      /\ conn'[n].committing /\ ~conn'[n].completion_failed
  <2>1. conn[n] \in ConnectionStates
    BY DEF TypeOK
  <2> QED
    BY <1>4, <2>1, CommitEntersFields
<1>6. \A i \in DOMAIN stack :
        /\ stack[i].kind \notin CloseKinds /\ stack[i].kind # "write"
        /\ stack[i].kind \in {"execute", "commit"} => stack[i].name # n
  BY <1>1, UserCodeNotClosing DEF Boundary, FramesOK, FrameOK
<1>7. TypeOK'
  BY <1>1, <1>3, <1>4, TypeKept DEF TypeOK
<1>8. StackOrder'
  BY <1>2, <1>3, <1>6 DEF StackOrder, CloseKinds
<1>9. FramesOK'
  <2> SUFFICES ASSUME NEW i \in DOMAIN stack'
               PROVE  FrameOK(stack[i], conn[stack[i].name])'
    BY DEF FramesOK
  <2>1. CASE i = Len(stack) + 1
    <3>1. stack'[i] = f
      BY <1>3, <2>1
    <3> QED
      BY <1>1, <1>2, <1>5, <3>1 DEF FrameOK, CloseKinds
  <2>2. CASE i \in DOMAIN stack
    <3>1. FrameOK(stack[i], conn[stack[i].name]) /\ stack'[i] = stack[i]
          /\ stack[i].kind \notin CloseKinds /\ stack[i].name \in Names
          /\ (stack[i].kind = "write" \/ stack[i].kind \in {"execute", "commit"}
                => stack[i].name # n)
      BY <1>3, <1>6, <2>2 DEF FramesOK, Frames
    <3> QED
      BY <1>1, <1>4, <3>1 DEF FrameOK
  <2> QED
    BY <1>3, <2>1, <2>2
<1>10. FlagsHaveFrames'
  <2>1. \A i \in DOMAIN stack : stack[i].name # n =>
          /\ i \in DOMAIN stack'
          /\ stack'[i].kind = stack[i].kind /\ stack'[i].name = stack[i].name
    BY <1>3
  <2>2. \E i \in DOMAIN stack' : stack'[i].kind = "commit" /\ stack'[i].name = n
    BY <1>2, <1>3
  <2> QED
    BY <1>1, <1>4, <1>5, <2>1, <2>2, FlagsKept
<1>11. UnitPromises'
  <2>1. \A m \in Names : /\ conn'[m].pending = conn[m].pending
                         /\ conn'[m].connection = conn[m].connection
                         /\ conn'[m].execution_error = conn[m].execution_error
                         /\ conn'[m].outcome = conn[m].outcome
                         /\ conn'[m].pending_exceptions = conn[m].pending_exceptions
                         /\ \A q \in Queues : conn'[m].deferred[q] \subseteq conn[m].deferred[q]
                         /\ conn[m].failed => conn'[m].failed
    BY <1>4, <1>5
  <2> QED
    BY <1>1, <2>1, UnitsKept DEF UnitPromises
<1>12. OpenWritesOK'
  BY <1>1, <1>2, <1>3, <1>6 DEF OpenWritesOK
<1> QED
  BY <1>7, <1>8, <1>9, <1>10, <1>11, <1>12 DEF UnitPromises

\* What the two ends of a callback have in common: entries only leave queues,
\* and the frame of the commit keeps its place.
LEMMA QueueTaken ==
  ASSUME IInv, stack' \in Seq(Frames), FramesKept, Len(stack) \in Nat \ {0},
         DOMAIN stack = 1..Len(stack), DOMAIN stack' = 1..Len(stack),
         \A i \in DOMAIN stack : i # Len(stack) => stack'[i] = stack[i],
         \A i \in DOMAIN stack : stack[i] \in Frames,
         stack'[Len(stack)].queue = stack[Len(stack)].queue,
         stack[Len(stack)].kind = "commit",
         conn' \in [Names -> ConnectionStates],
         \A m \in Names : /\ conn'[m].pending = conn[m].pending
                          /\ conn'[m].executing = conn[m].executing
                          /\ conn'[m].committing = conn[m].committing
                          /\ conn'[m].completion_failed = conn[m].completion_failed
                          /\ conn'[m].failed = conn[m].failed
                          /\ conn'[m].connection = conn[m].connection
                          /\ conn'[m].execution_error = conn[m].execution_error
                          /\ conn'[m].outcome = conn[m].outcome
                          /\ conn'[m].pending_exceptions = conn[m].pending_exceptions
                          /\ \A r \in Queues :
                               conn'[m].deferred[r] \subseteq conn[m].deferred[r],
         exc' \in Errors,
         UNCHANGED <<closed, execs, writes, held, unit, begun, durable,
                     touched, broken, doomed, sessions>>
  PROVE  IInv'
<1> USE DEF IInv
<1>1. TypeOK'
  BY TypeKept DEF TypeOK
<1>2. StackOrder'
  BY StackOrderKept
<1>3. FramesOK'
  <2> SUFFICES ASSUME NEW i \in DOMAIN stack'
               PROVE  FrameOK(stack[i], conn[stack[i].name])'
    BY DEF FramesOK
  <2>1. /\ FrameOK(stack[i], conn[stack[i].name]) /\ stack[i].name \in Names
        /\ stack'[i].kind = stack[i].kind /\ stack'[i].name = stack[i].name
        /\ stack'[i].id = stack[i].id
    BY DEF FramesOK, Frames, FramesKept
  <2>2. CASE i = Len(stack)
    <3>1. stack'[i].queue = stack[i].queue /\ stack[i].kind = "commit"
      BY <2>2
    <3> QED
      BY <2>1, <3>1 DEF FrameOK, CloseKinds
  <2>3. CASE i # Len(stack)
    <3>1. stack'[i] = stack[i]
      BY <2>3
    <3> QED
      BY <2>1, <3>1 DEF FrameOK
  <2> QED
    BY <2>2, <2>3
<1>4. FlagsHaveFrames'
  BY DEF FlagsHaveFrames, Framed, FramesKept
<1>5. UnitPromises'
  BY UnitsKept DEF UnitPromises
<1>6. OpenWritesOK'
  BY OpenWritesKept
<1> QED
  BY <1>1, <1>2, <1>3, <1>4, <1>5, <1>6 DEF UnitPromises

\* A deferred callback is taken off its queue and runs.
LEMMA CallbackBeginStep ==
  ASSUME IInv, CallbackBegin
  PROVE  IInv'
<1> DEFINE n == Top.name
<1> USE DEF IInv
<1>1. PICK q, e :
        /\ q \in Queues /\ e \in conn[n].deferred[q]
        /\ conn' = [conn EXCEPT ![n] = SetQueue(conn[n], q, conn[n].deferred[q] \ {e})]
        /\ ChangeTop([Top EXCEPT !.run = e])
        /\ stack # <<>> /\ Top.kind = "commit"
        /\ UNCHANGED <<exc, closed, execs, writes, held, unit, begun, durable,
                       touched, broken, doomed, sessions>>
  BY DEF CallbackBegin, Draining, OnTop, history
<1> DEFINE f == [Top EXCEPT !.run = e]
           es == conn[n].deferred[q] \ {e}
<1>2. Top \in Frames /\ n \in Names /\ q \in Queues
  BY <1>1, TopFacts
<1>3. conn[n] \in ConnectionStates /\ conn[n].deferred[q] \in SUBSET Entries
  BY <1>2 DEF TypeOK, ConnectionStates
<1>4. /\ f \in Frames /\ f.kind = Top.kind /\ f.name = Top.name /\ f.id = Top.id
      /\ f.queue = Top.queue
  BY <1>1, <1>2, <1>3 DEF Frames
<1>5. es \in SUBSET Entries
  BY <1>3
<1> HIDE DEF f, es
<1>6. /\ stack' \in Seq(Frames)
      /\ FramesKept
      /\ Len(stack) \in Nat \ {0}
      /\ DOMAIN stack = 1..Len(stack) /\ DOMAIN stack' = 1..Len(stack)
      /\ \A i \in DOMAIN stack : i # Len(stack) => stack'[i] = stack[i]
      /\ \A i \in DOMAIN stack : stack[i] \in Frames
      /\ stack'[Len(stack)] = f
      /\ Top = stack[Len(stack)]
  BY <1>1, <1>4, ChangeTopFacts DEF f
<1> HIDE DEF n
<1>7. /\ SetQueue(conn[n], q, es) \in ConnectionStates
      /\ conn' \in [Names -> ConnectionStates]
      /\ conn'[n] = SetQueue(conn[n], q, es)
      /\ \A m \in Names \ {n} : conn'[m] = conn[m]
  <2>1. SetQueue(conn[n], q, es) \in ConnectionStates
    BY <1>2, <1>3, <1>5, SetQueueFields
  <2> QED
    BY <1>1, <1>2, <2>1, RecordSet DEF es
<1>8. \A m \in Names : /\ conn'[m].pending = conn[m].pending
                       /\ conn'[m].executing = conn[m].executing
                       /\ conn'[m].committing = conn[m].committing
                       /\ conn'[m].completion_failed = conn[m].completion_failed
                       /\ conn'[m].failed = conn[m].failed
                       /\ conn'[m].connection = conn[m].connection
                       /\ conn'[m].execution_error = conn[m].execution_error
                       /\ conn'[m].outcome = conn[m].outcome
                       /\ conn'[m].pending_exceptions = conn[m].pending_exceptions
                       /\ \A r \in Queues : conn'[m].deferred[r] \subseteq conn[m].deferred[r]
  BY <1>2, <1>3, <1>5, <1>7, SetQueueFields DEF es
<1>9. exc' \in Errors
  BY <1>1 DEF TypeOK
<1> QED
  BY <1>1, <1>4, <1>6, <1>7, <1>8, <1>9, QueueTaken DEF n

\* A deferred callback returns: its own re-entry may be dropped, or the commit
\* learns that the connection has failed meanwhile.
LEMMA CallbackReturnsStep ==
  ASSUME IInv, CallbackReturns
  PROVE  IInv'
<1> DEFINE n == Top.name
           q == Top.queue
           f == [Top EXCEPT !.run = NoEntry]
           es == {e \in conn[n].deferred[q] : StaysQueued(e, Top.run.callback)}
<1> USE DEF IInv
<1>1. /\ stack # <<>> /\ Top.kind = "commit" /\ ChangeTop(f)
      /\ \/ /\ conn' = [conn EXCEPT ![n] = SetQueue(conn[n], q, es)]
            /\ exc' = exc
         \/ conn' = conn /\ exc' = Other
      /\ UNCHANGED <<closed, execs, writes, held, unit, begun, durable,
                     touched, broken, doomed, sessions>>
  BY DEF CallbackReturns, OnTop, history
<1>2. Top \in Frames /\ n \in Names /\ q \in Queues
  BY <1>1, TopFacts DEF Frames
<1>3. conn[n] \in ConnectionStates /\ conn[n].deferred[q] \in SUBSET Entries
  BY <1>2 DEF TypeOK, ConnectionStates
<1>4. /\ f \in Frames /\ f.kind = Top.kind /\ f.name = Top.name /\ f.id = Top.id
      /\ f.queue = Top.queue
  BY <1>1, <1>2, <1>3 DEF Frames
<1>5. es \in SUBSET Entries /\ es \subseteq conn[n].deferred[q]
  BY <1>3
<1>6. exc' \in Errors
  BY <1>1 DEF TypeOK, Errors
<1> HIDE DEF f, es, q
<1>7. /\ stack' \in Seq(Frames)
      /\ FramesKept
      /\ Len(stack) \in Nat \ {0}
      /\ DOMAIN stack = 1..Len(stack) /\ DOMAIN stack' = 1..Len(stack)
      /\ \A i \in DOMAIN stack : i # Len(stack) => stack'[i] = stack[i]
      /\ \A i \in DOMAIN stack : stack[i] \in Frames
      /\ stack'[Len(stack)] = f
      /\ Top = stack[Len(stack)]
  BY <1>1, <1>4, ChangeTopFacts
<1> HIDE DEF n
<1>8. CASE conn' = [conn EXCEPT ![n] = SetQueue(conn[n], q, es)]
  <2>1. /\ SetQueue(conn[n], q, es) \in ConnectionStates
        /\ conn' \in [Names -> ConnectionStates]
        /\ conn'[n] = SetQueue(conn[n], q, es)
        /\ \A m \in Names \ {n} : conn'[m] = conn[m]
    <3>1. SetQueue(conn[n], q, es) \in ConnectionStates
      BY <1>2, <1>3, <1>5, SetQueueFields
    <3> QED
      BY <1>2, <1>8, <3>1, RecordSet
  <2>2. \A m \in Names : /\ conn'[m].pending = conn[m].pending
                         /\ conn'[m].executing = conn[m].executing
                         /\ conn'[m].committing = conn[m].committing
                         /\ conn'[m].completion_failed = conn[m].completion_failed
                         /\ conn'[m].failed = conn[m].failed
                         /\ conn'[m].connection = conn[m].connection
                         /\ conn'[m].execution_error = conn[m].execution_error
                         /\ conn'[m].outcome = conn[m].outcome
                         /\ conn'[m].pending_exceptions = conn[m].pending_exceptions
                         /\ \A r \in Queues : conn'[m].deferred[r] \subseteq conn[m].deferred[r]
    BY <1>2, <1>3, <1>5, <2>1, SetQueueFields
  <2> QED
    BY <1>1, <1>4, <1>6, <1>7, <2>1, <2>2, QueueTaken
<1>9. CASE conn' = conn
  BY <1>1, <1>4, <1>6, <1>7, <1>9, QueueTaken DEF TypeOK
<1> QED
  BY <1>1, <1>8, <1>9 DEF n

\* What the ends of a commit without COMMIT have in common: its frame goes and
\* its flags fall; the unit, if one is open, stays open.
LEMMA CommitGone ==
  ASSUME IInv, stack # <<>>, Top.kind = "commit", Pop,
         NEW c \in ConnectionStates, conn' = [conn EXCEPT ![Top.name] = c],
         ~c.committing, ~c.completion_failed,
         c.pending = conn[Top.name].pending, c.executing = conn[Top.name].executing,
         c.connection = conn[Top.name].connection,
         c.execution_error = conn[Top.name].execution_error,
         c.outcome = conn[Top.name].outcome, c.deferred = conn[Top.name].deferred,
         c.pending_exceptions = conn[Top.name].pending_exceptions,
         conn[Top.name].failed => c.failed,
         exc' \in Errors,
         UNCHANGED <<closed, execs, writes, held, unit, begun, durable,
                     touched, broken, doomed, sessions>>
  PROVE  IInv'
<1> DEFINE n == Top.name
<1> USE DEF IInv
<1>1. /\ stack' \in Seq(Frames)
      /\ FramesKept
      /\ Len(stack) \in Nat \ {0}
      /\ DOMAIN stack = 1..Len(stack) /\ DOMAIN stack' = 1..(Len(stack) - 1)
      /\ \A i \in DOMAIN stack' : stack'[i] = stack[i]
      /\ \A i \in DOMAIN stack : stack[i] \in Frames
      /\ Top = stack[Len(stack)] /\ n \in Names
  BY PopFacts, TopFacts
<1>2. /\ conn' \in [Names -> ConnectionStates]
      /\ conn'[n] = c
      /\ \A m \in Names \ {n} : conn'[m] = conn[m]
  BY <1>1, RecordSet
<1>3. /\ \A i \in DOMAIN stack : stack[i].kind \notin CloseKinds
      /\ \A i \in DOMAIN stack' : /\ stack[i].kind # "write"
                                  /\ stack[i].kind \in {"execute", "commit"}
                                       => stack[i].name # n
  BY <1>1, NotClosing DEF StackOrder, CloseKinds
<1>4. TypeOK'
  BY <1>1, <1>2, TypeKept DEF TypeOK
<1>5. StackOrder'
  BY <1>1, StackOrderKept
<1>6. FramesOK'
  BY <1>1, <1>2, <1>3, FramesOKKept
<1>7. FlagsHaveFrames'
  <2>1. \A i \in DOMAIN stack : stack[i].name # n => i \in DOMAIN stack'
    BY <1>1
  <2>2. ASSUME c.executing
        PROVE  \E i \in DOMAIN stack' : stack'[i].kind = "execute" /\ stack'[i].name = n
    <3>1. PICK i \in DOMAIN stack : stack[i].kind = "execute" /\ stack[i].name = n
      BY <1>1, <2>2 DEF FlagsHaveFrames, Framed
    <3>2. i \in DOMAIN stack'
      BY <1>1, <3>1
    <3> QED
      BY <1>1, <3>1, <3>2
  <2> QED
    BY <1>1, <1>2, <2>1, <2>2, FlagsKept
<1>8. UnitPromises'
  <2>1. \A m \in Names : /\ conn'[m].pending = conn[m].pending
                         /\ conn'[m].connection = conn[m].connection
                         /\ conn'[m].execution_error = conn[m].execution_error
                         /\ conn'[m].outcome = conn[m].outcome
                         /\ conn'[m].pending_exceptions = conn[m].pending_exceptions
                         /\ \A q \in Queues : conn'[m].deferred[q] \subseteq conn[m].deferred[q]
                         /\ conn[m].failed => conn'[m].failed
    BY <1>2
  <2> QED
    BY <2>1, UnitsKept DEF UnitPromises
<1>9. OpenWritesOK'
  BY <1>1, <1>2, OpenWritesKept
<1> QED
  BY <1>4, <1>5, <1>6, <1>7, <1>8, <1>9 DEF UnitPromises

\* The record such an end leaves: fallen flags, and failed if b.
LEMMA CommitLeavesIfFields ==
  ASSUME NEW s \in ConnectionStates, NEW b, b \in BOOLEAN
  PROVE  LET f == CommitLeaves(FailIf(s, b)) IN
         /\ f \in ConnectionStates
         /\ f.pending = s.pending /\ f.executing = s.executing
         /\ f.connection = s.connection /\ f.closed = s.closed
         /\ f.execution_error = s.execution_error
         /\ f.outcome = s.outcome /\ f.deferred = s.deferred
         /\ f.pending_exceptions = s.pending_exceptions
         /\ s.failed => f.failed
         /\ ~f.committing /\ ~f.completion_failed
<1> DEFINE g == FailIf(s, b)
<1>1. /\ g \in ConnectionStates
      /\ g.pending = s.pending /\ g.executing = s.executing
      /\ g.connection = s.connection /\ g.closed = s.closed
      /\ g.execution_error = s.execution_error
      /\ g.outcome = s.outcome /\ g.deferred = s.deferred
      /\ g.pending_exceptions = s.pending_exceptions
      /\ s.failed => g.failed
  BY FailIfFields
<1> HIDE DEF g
<1>2. /\ CommitLeaves(g) \in ConnectionStates
      /\ CommitLeaves(g).pending = s.pending /\ CommitLeaves(g).executing = s.executing
      /\ CommitLeaves(g).connection = s.connection /\ CommitLeaves(g).closed = s.closed
      /\ CommitLeaves(g).execution_error = s.execution_error
      /\ CommitLeaves(g).outcome = s.outcome /\ CommitLeaves(g).deferred = s.deferred
      /\ CommitLeaves(g).pending_exceptions = s.pending_exceptions
      /\ s.failed => CommitLeaves(g).failed
      /\ ~CommitLeaves(g).committing /\ ~CommitLeaves(g).completion_failed
  BY <1>1, CommitLeavesFields
<1> QED
  BY <1>2 DEF g

\* COMMIT is refused.
LEMMA CommitRefusedStep ==
  ASSUME IInv, CommitRefused
  PROVE  IInv'
<1>1. /\ stack # <<>> /\ Top.kind = "commit" /\ Pop /\ exc' \in Errors
      /\ UNCHANGED <<closed, execs, writes, held, unit, begun, durable,
                     touched, broken, doomed, sessions>>
  BY DEF CommitRefused, Drained, Draining, OnTop, Errors, history
<1>2. PICK b : /\ b \in BOOLEAN
               /\ conn' = [conn EXCEPT ![Top.name] =
                             CommitLeaves(FailIf(conn[Top.name], b))]
  <2> WITNESS TRUE
  <2> QED
    BY Zenon DEF CommitRefused
<1>3. conn[Top.name] \in ConnectionStates
  BY <1>1, TopFacts DEF IInv, TypeOK
<1> DEFINE c == CommitLeaves(FailIf(conn[Top.name], b))
<1>4. /\ c \in ConnectionStates
      /\ c.pending = conn[Top.name].pending /\ c.executing = conn[Top.name].executing
      /\ c.connection = conn[Top.name].connection
      /\ c.execution_error = conn[Top.name].execution_error
      /\ c.outcome = conn[Top.name].outcome /\ c.deferred = conn[Top.name].deferred
      /\ c.pending_exceptions = conn[Top.name].pending_exceptions
      /\ conn[Top.name].failed => c.failed
      /\ ~c.committing /\ ~c.completion_failed
  BY <1>2, <1>3, CommitLeavesIfFields
<1>5. conn' = [conn EXCEPT ![Top.name] = c]
  BY <1>2
<1> HIDE DEF c
<1> QED
  BY <1>1, <1>4, <1>5, CommitGone

\* An exception ends the commit.
LEMMA CommitFailsStep ==
  ASSUME IInv, CommitFails
  PROVE  IInv'
<1>1. /\ stack # <<>> /\ Top.kind = "commit" /\ Pop /\ exc' \in Errors
      /\ UNCHANGED <<closed, execs, writes, held, unit, begun, durable,
                     touched, broken, doomed, sessions>>
  BY DEF CommitFails, OnTop, Errors, history, IInv, TypeOK
<1>2. PICK b : /\ b \in BOOLEAN
               /\ conn' = [conn EXCEPT ![Top.name] =
                             CommitLeaves(FailIf(conn[Top.name], b))]
  <2> WITNESS Top.queue = "before" \/ conn[Top.name].pending
  <2> QED
    BY Zenon DEF CommitFails
<1>3. conn[Top.name] \in ConnectionStates
  BY <1>1, TopFacts DEF IInv, TypeOK
<1> DEFINE c == CommitLeaves(FailIf(conn[Top.name], b))
<1>4. /\ c \in ConnectionStates
      /\ c.pending = conn[Top.name].pending /\ c.executing = conn[Top.name].executing
      /\ c.connection = conn[Top.name].connection
      /\ c.execution_error = conn[Top.name].execution_error
      /\ c.outcome = conn[Top.name].outcome /\ c.deferred = conn[Top.name].deferred
      /\ c.pending_exceptions = conn[Top.name].pending_exceptions
      /\ conn[Top.name].failed => c.failed
      /\ ~c.committing /\ ~c.completion_failed
  BY <1>2, <1>3, CommitLeavesIfFields
<1>5. conn' = [conn EXCEPT ![Top.name] = c]
  BY <1>2
<1> HIDE DEF c
<1> QED
  BY <1>1, <1>4, <1>5, CommitGone

\* The commit is complete.
LEMMA CommitReturnsStep ==
  ASSUME IInv, CommitReturns
  PROVE  IInv'
<1> DEFINE c == CommitLeaves(conn[Top.name])
<1>1. /\ stack # <<>> /\ Top.kind = "commit" /\ Pop /\ exc' \in Errors
      /\ conn' = [conn EXCEPT ![Top.name] = c]
      /\ UNCHANGED <<closed, execs, writes, held, unit, begun, durable,
                     touched, broken, doomed, sessions>>
  BY DEF CommitReturns, Drained, Draining, OnTop, history, IInv, TypeOK
<1>2. conn[Top.name] \in ConnectionStates
  BY <1>1, TopFacts DEF IInv, TypeOK
<1>3. /\ c \in ConnectionStates
      /\ c.pending = conn[Top.name].pending /\ c.executing = conn[Top.name].executing
      /\ c.connection = conn[Top.name].connection
      /\ c.execution_error = conn[Top.name].execution_error
      /\ c.outcome = conn[Top.name].outcome /\ c.deferred = conn[Top.name].deferred
      /\ c.pending_exceptions = conn[Top.name].pending_exceptions
      /\ c.failed = conn[Top.name].failed
      /\ ~c.committing /\ ~c.completion_failed
  BY <1>2, CommitLeavesFields
<1> HIDE DEF c
<1> QED
  BY <1>1, <1>3, CommitGone

\* The commit goes round again, for SQL is pending.
LEMMA CommitRepeatsStep ==
  ASSUME IInv, CommitRepeats
  PROVE  IInv'
<1> DEFINE f == [Top EXCEPT !.queue = "before"]
<1> USE DEF IInv
<1>1. /\ stack # <<>> /\ Top.kind = "commit" /\ ChangeTop(f)
      /\ conn[Top.name].pending
      /\ UNCHANGED <<conn, exc, closed, execs, writes, held, unit, begun, durable,
                     touched, broken, doomed, sessions>>
  BY DEF CommitRepeats, Drained, Draining, OnTop, NeedsCommit, history
<1>2. Top \in Frames
  BY <1>1, TopFacts
<1>3. f \in Frames /\ f.kind = Top.kind /\ f.name = Top.name /\ f.id = Top.id
  BY <1>1, <1>2 DEF Frames, Queues
<1> HIDE DEF f
<1>4. /\ stack' \in Seq(Frames)
      /\ FramesKept
      /\ DOMAIN stack = 1..Len(stack) /\ DOMAIN stack' = 1..Len(stack)
      /\ \A i \in DOMAIN stack : i # Len(stack) => stack'[i] = stack[i]
      /\ stack'[Len(stack)] = f
      /\ Top = stack[Len(stack)]
  BY <1>1, <1>3, ChangeTopFacts
<1>5. TypeOK'
  BY <1>1, <1>4, TypeKept DEF TypeOK
<1>6. StackOrder'
  BY <1>4, StackOrderKept
<1>7. FramesOK'
  <2> SUFFICES ASSUME NEW i \in DOMAIN stack'
               PROVE  FrameOK(stack[i], conn[stack[i].name])'
    BY DEF FramesOK
  <2>1. FrameOK(stack[i], conn[stack[i].name])
    BY <1>4 DEF FramesOK
  <2>2. CASE i = Len(stack)
    BY <1>1, <1>3, <1>4, <2>1, <2>2 DEF FrameOK, CloseKinds
  <2>3. CASE i # Len(stack)
    BY <1>1, <1>4, <2>1, <2>3 DEF FrameOK
  <2> QED
    BY <2>2, <2>3
<1>8. FlagsHaveFrames'
  BY <1>1, <1>4 DEF FlagsHaveFrames, Framed, FramesKept
<1>9. UnitPromises'
  BY <1>1, UnitsKept DEF UnitPromises
<1>10. OpenWritesOK'
  BY <1>1, <1>4, OpenWritesKept
<1> QED
  BY <1>5, <1>6, <1>7, <1>8, <1>9, <1>10 DEF UnitPromises

\* What holds when COMMIT is sent: the unit is open and sound, the connection
\* is idle but for this commit, and no write is in progress anywhere.
LEMMA MayFinishFacts ==
  ASSUME IInv, MayFinish
  PROVE  /\ stack # <<>> /\ Top.kind = "commit" /\ Top.queue = "before"
         /\ Top.name \in Names /\ conn[Top.name] \in ConnectionStates
         /\ conn[Top.name].pending /\ conn[Top.name].committing
         /\ ~conn[Top.name].failed /\ ~conn[Top.name].completion_failed
         /\ ~conn[Top.name].executing /\ ~conn[Top.name].pending_exceptions
         /\ conn[Top.name].deferred["before"] = {}
         /\ unit[Top.name] \in 1..begun
         /\ unit[Top.name] \notin durable /\ unit[Top.name] \notin doomed
         /\ \A i \in DOMAIN stack :
              /\ stack[i].kind # "write" /\ stack[i].kind \notin CloseKinds
              /\ i # Len(stack) /\ stack[i].kind \in {"execute", "commit"}
                   => stack[i].name # Top.name
<1> DEFINE n == Top.name
<1> USE DEF IInv
<1>1. /\ stack # <<>> /\ Top.kind = "commit" /\ Top.queue = "before"
      /\ conn[n].deferred["before"] = {}
      /\ ~conn[n].failed /\ ~conn[n].completion_failed
      /\ ~conn[n].executing /\ ~conn[n].pending_exceptions
  BY DEF MayFinish, Drained, Draining, OnTop, CommitForbidden, Usable
<1>2. /\ n \in Names /\ Len(stack) \in Nat \ {0} /\ Len(stack) \in DOMAIN stack
      /\ Top = stack[Len(stack)] /\ DOMAIN stack = 1..Len(stack)
  BY <1>1, TopFacts, StackFacts
<1>3. conn[n].pending /\ conn[n].committing
  BY <1>1, <1>2 DEF FramesOK, FrameOK
<1>4. /\ unit[n] \in 1..begun /\ unit[n] \notin durable /\ unit[n] \notin doomed
      /\ conn[n] \in ConnectionStates
  BY <1>1, <1>2, <1>3 DEF UnitsOK, TypeOK
<1>5. \A i \in DOMAIN stack :
        /\ stack[i].kind # "write" /\ stack[i].kind \notin CloseKinds
        /\ i # Len(stack) /\ stack[i].kind \in {"execute", "commit"} => stack[i].name # n
  BY <1>1, <1>2, NotClosing DEF StackOrder, CloseKinds
<1> QED
  BY <1>1, <1>2, <1>3, <1>4, <1>5

\* COMMIT was answered: the unit is over, and durable if the outcome says so.
LEMMA UnitCommitted ==
  ASSUME IInv, MayFinish,
         UNCHANGED <<unit, touched, broken, doomed>>,
         durable' \in {durable, durable \cup {unit[Top.name]}},
         \A m \in Names \ {Top.name} : conn'[m] = conn[m] /\ sessions'[m] = sessions[m],
         ~conn'[Top.name].pending,
         \/ /\ conn'[Top.name].outcome = "committed" /\ unit[Top.name] \in durable'
            /\ conn'[Top.name].deferred = conn[Top.name].deferred
         \/ /\ conn'[Top.name].outcome = "unknown"
            /\ conn'[Top.name].deferred = NoDeferred,
         sessions'[Top.name] = IF conn'[Top.name].connection THEN 1 ELSE 0
  PROVE  UnitPromises'
<1> DEFINE n == Top.name
<1> USE DEF IInv
<1>1. /\ n \in Names /\ conn[n].pending /\ ~conn[n].failed
      /\ conn[n].deferred["before"] = {}
      /\ unit[n] \in 1..begun /\ unit[n] \notin durable /\ unit[n] \notin doomed
  BY MayFinishFacts
<1>2. \A m \in Names \ {n} : unit[m] # unit[n]
  BY <1>1 DEF UnitsOK
<1> HIDE DEF n
<1>3. UNCHANGED <<unit, touched, broken, doomed>>
  OBVIOUS
<1>4. /\ \A m \in Names \ {n} : conn'[m] = conn[m] /\ sessions'[m] = sessions[m]
      /\ ~conn'[n].pending
      /\ \A u : u \in durable' => u \in durable \/ u = unit[n]
      /\ \A u : u \in durable => u \in durable'
      /\ sessions'[n] = IF conn'[n].connection THEN 1 ELSE 0
      /\ \/ /\ conn'[n].outcome = "committed" /\ unit[n] \in durable'
            /\ conn'[n].deferred = conn[n].deferred
         \/ /\ conn'[n].outcome = "unknown"
            /\ conn'[n].deferred = NoDeferred
  BY DEF n
<1>5. UnitsOK'
  BY <1>1, <1>2, <1>3, <1>4 DEF UnitsOK
<1>6. OutcomeIsHonest'
  BY <1>1, <1>2, <1>3, <1>4 DEF OutcomeIsHonest
<1>7. NoLeakedSession'
  BY <1>3, <1>4 DEF NoLeakedSession
<1>8. DoomedNeverDurable'
  BY <1>1, <1>3, <1>4 DEF DoomedNeverDurable
<1>9. NoOrphanCallback'
  <2> SUFFICES ASSUME NEW m \in Names, NEW q \in Queues, NEW e \in conn'[m].deferred[q]
               PROVE  \/ e.unit = 0
                      \/ e.unit = unit[m] /\ conn'[m].pending
                      \/ q = "after" /\ e.unit \in durable'
    BY <1>3 DEF NoOrphanCallback
  <2>1. CASE m # n
    BY <1>3, <1>4, <2>1 DEF NoOrphanCallback
  <2>2. CASE m = n
    <3>1. conn'[n].deferred = conn[n].deferred /\ unit[n] \in durable'
      BY <1>4, <2>2 DEF NoDeferred
    <3>2. q = "after"
      BY <1>1, <2>2, <3>1 DEF Queues
    <3>3. \/ e.unit = 0 \/ e.unit = unit[n] \/ e.unit \in durable
      BY <2>2, <3>1 DEF NoOrphanCallback
    <3> QED
      BY <1>4, <3>1, <3>2, <3>3
  <2> QED
    BY <2>1, <2>2
<1>10. BrokenWriteNeverDurable'
  BY <1>1, <1>3, <1>4 DEF BrokenWriteNeverDurable
<1> QED
  BY <1>5, <1>6, <1>7, <1>8, <1>9, <1>10 DEF UnitPromises

\* The database accepts the unit.
LEMMA CommitAcceptedStep ==
  ASSUME IInv, CommitAccepted
  PROVE  IInv'
<1> DEFINE n == Top.name
           f == [Top EXCEPT !.queue = "after"]
<1> USE DEF IInv
<1>1. /\ MayFinish /\ ChangeTop(f)
      /\ durable' = durable \cup {unit[n]}
      /\ UNCHANGED <<exc, closed, execs, writes, held, unit, begun, touched,
                     broken, doomed, sessions>>
  BY DEF CommitAccepted
<1>2. /\ stack # <<>> /\ Top.kind = "commit"
      /\ n \in Names /\ conn[n] \in ConnectionStates
      /\ conn[n].pending /\ conn[n].committing
      /\ ~conn[n].completion_failed /\ ~conn[n].executing
      /\ unit[n] \in 1..begun
      /\ \A i \in DOMAIN stack :
           /\ stack[i].kind # "write" /\ stack[i].kind \notin CloseKinds
           /\ i # Len(stack) /\ stack[i].kind \in {"execute", "commit"}
                => stack[i].name # n
  BY <1>1, MayFinishFacts
<1>3. Top \in Frames
  BY <1>2, TopFacts
<1>4. /\ f \in Frames /\ f.kind = "commit" /\ f.kind = Top.kind /\ f.name = Top.name
      /\ f.id = Top.id /\ f.queue = "after" /\ f.name = n
  BY <1>2, <1>3 DEF Frames, Queues
<1> HIDE DEF f
<1>5. /\ stack' \in Seq(Frames)
      /\ FramesKept
      /\ Len(stack) \in Nat \ {0}
      /\ DOMAIN stack = 1..Len(stack) /\ DOMAIN stack' = 1..Len(stack)
      /\ \A i \in DOMAIN stack : i # Len(stack) => stack'[i] = stack[i]
      /\ stack'[Len(stack)] = f
  BY <1>1, <1>2, <1>4, ChangeTopFacts
<1>6. PICK commit, ok, c :
        /\ commit \in BOOLEAN /\ commit /\ ok \in BOOLEAN /\ ok
        /\ c = Finish(conn[n], commit, ok)
        /\ conn' = [conn EXCEPT ![n] = c]
  <2> WITNESS TRUE, TRUE, Finish(conn[n], TRUE, TRUE)
  <2> QED
    BY Zenon DEF CommitAccepted
<1> HIDE DEF n
<1>7. /\ c \in ConnectionStates
      /\ ~c.pending /\ ~c.executing /\ c.committing /\ ~c.completion_failed
      /\ c.connection = conn[n].connection
      /\ c.outcome = "committed" /\ c.deferred = conn[n].deferred
  BY <1>2, <1>6, FinishCommitted
<1>8. /\ conn' \in [Names -> ConnectionStates]
      /\ conn'[n] = c
      /\ \A m \in Names \ {n} : conn'[m] = conn[m]
  BY <1>2, <1>6, <1>7, RecordSet
<1>9. TypeOK'
  BY <1>1, <1>2, <1>5, <1>8, TypeKept DEF TypeOK
<1>10. StackOrder'
  BY <1>5, StackOrderKept
<1>11. FramesOK'
  <2> SUFFICES ASSUME NEW i \in DOMAIN stack'
               PROVE  FrameOK(stack[i], conn[stack[i].name])'
    BY DEF FramesOK
  <2>1. CASE i = Len(stack)
    BY <1>4, <1>5, <1>7, <1>8, <2>1 DEF FrameOK, CloseKinds
  <2>2. CASE i # Len(stack)
    <3>1. /\ FrameOK(stack[i], conn[stack[i].name]) /\ stack'[i] = stack[i]
          /\ stack[i].name \in Names /\ stack[i].kind \notin CloseKinds
          /\ stack[i].kind # "write"
          /\ stack[i].kind \in {"execute", "commit"} => stack[i].name # n
      BY <1>2, <1>5, <2>2, StackFacts DEF FramesOK, Frames
    <3> QED
      BY <1>1, <1>8, <3>1 DEF FrameOK, CloseKinds
  <2> QED
    BY <2>1, <2>2
<1>12. FlagsHaveFrames'
  <2>1. \A i \in DOMAIN stack : stack[i].name # n =>
          /\ i \in DOMAIN stack'
          /\ stack'[i].kind = stack[i].kind /\ stack'[i].name = stack[i].name
    BY <1>5 DEF FramesKept
  <2>2. Len(stack) \in DOMAIN stack'
    BY <1>5
  <2> QED
    BY <1>2, <1>4, <1>5, <1>7, <1>8, <2>1, <2>2, FlagsKept
<1>13. UnitPromises'
  <2>1. /\ \A m \in Names \ {Top.name} : conn'[m] = conn[m] /\ sessions'[m] = sessions[m]
        /\ ~conn'[Top.name].pending
        /\ conn'[Top.name].outcome = "committed" /\ unit[Top.name] \in durable'
        /\ conn'[Top.name].deferred = conn[Top.name].deferred
        /\ sessions'[Top.name] = IF conn'[Top.name].connection THEN 1 ELSE 0
        /\ durable' \in {durable, durable \cup {unit[Top.name]}}
    BY <1>1, <1>2, <1>7, <1>8 DEF n, NoLeakedSession
  <2> QED
    BY <1>1, <2>1, UnitCommitted
<1>14. OpenWritesOK'
  BY <1>2, <1>5 DEF OpenWritesOK, FramesKept
<1> QED
  BY <1>9, <1>10, <1>11, <1>12, <1>13, <1>14 DEF UnitPromises

\* The answer of the database was lost.
LEMMA CommitUncertainStep ==
  ASSUME IInv, CommitUncertain
  PROVE  IInv'
<1> DEFINE n == Top.name
<1> USE DEF IInv
<1>1. /\ MayFinish /\ Pop
      /\ durable' \in {durable, durable \cup {unit[n]}}
      /\ exc' = Other
      /\ sessions' = SessionsAfter(n, FALSE)
      /\ UNCHANGED <<closed, execs, writes, held, unit, begun, touched, broken, doomed>>
  BY DEF CommitUncertain
<1>2. /\ stack # <<>> /\ Top.kind = "commit"
      /\ n \in Names /\ conn[n] \in ConnectionStates
      /\ conn[n].pending /\ ~conn[n].executing
      /\ unit[n] \in 1..begun
      /\ \A i \in DOMAIN stack :
           /\ stack[i].kind # "write" /\ stack[i].kind \notin CloseKinds
           /\ i # Len(stack) /\ stack[i].kind \in {"execute", "commit"}
                => stack[i].name # n
  BY <1>1, MayFinishFacts
<1>3. /\ stack' \in Seq(Frames)
      /\ FramesKept
      /\ Len(stack) \in Nat \ {0}
      /\ DOMAIN stack = 1..Len(stack) /\ DOMAIN stack' = 1..(Len(stack) - 1)
      /\ \A i \in DOMAIN stack' : stack'[i] = stack[i]
  BY <1>1, <1>2, PopFacts
<1>4. PICK commit, ok, d :
        /\ commit \in BOOLEAN /\ commit /\ ok \in BOOLEAN /\ ~ok
        /\ d = Finish(conn[n], commit, ok)
        /\ conn' = [conn EXCEPT ![n] = CommitLeaves(d)]
  <2> WITNESS TRUE, FALSE, Finish(conn[n], TRUE, FALSE)
  <2> QED
    BY Zenon DEF CommitUncertain
<1>5. /\ sessions[n] = 1
      /\ sessions' = [sessions EXCEPT ![n] = sessions[n] - 1]
  BY <1>1, <1>2 DEF SessionsAfter, NoLeakedSession, UnitsOK, TypeOK
<1> HIDE DEF n
<1>6. /\ d \in ConnectionStates
      /\ ~d.pending /\ ~d.executing /\ ~d.connection
      /\ d.outcome = "unknown" /\ d.deferred = NoDeferred
  BY <1>2, <1>4, FinishUnknown
<1> DEFINE c == CommitLeaves(d)
<1>7. /\ c \in ConnectionStates
      /\ ~c.pending /\ ~c.executing /\ ~c.committing /\ ~c.completion_failed
      /\ ~c.connection /\ c.outcome = "unknown" /\ c.deferred = NoDeferred
  BY <1>6, CommitLeavesFields
<1>8. conn' = [conn EXCEPT ![n] = c]
  BY <1>4
<1> HIDE DEF c
<1>9. /\ conn' \in [Names -> ConnectionStates]
      /\ conn'[n] = c
      /\ \A m \in Names \ {n} : conn'[m] = conn[m]
  BY <1>2, <1>7, <1>8, RecordSet
<1>10. TypeOK'
  <2>1. exc' \in Errors
    BY <1>1 DEF Errors
  <2>2. durable' \subseteq 1..begun
    BY <1>1, <1>2 DEF TypeOK, n
  <2>3. sessions' \in [Names -> Nat]
    BY <1>2, <1>5 DEF TypeOK
  <2> QED
    BY <1>1, <1>3, <1>9, <2>1, <2>2, <2>3, TypeKept DEF TypeOK
<1>11. StackOrder'
  BY <1>3, StackOrderKept
<1>12. FramesOK'
  <2>1. \A i \in DOMAIN stack' : /\ stack[i].kind \notin CloseKinds
                                 /\ stack[i].kind # "write"
                                 /\ stack[i].kind \in {"execute", "commit"}
                                      => stack[i].name # n
    BY <1>2, <1>3
  <2> QED
    BY <1>1, <1>2, <1>3, <1>9, <2>1, FramesOKKept
<1>13. FlagsHaveFrames'
  <2>1. \A i \in DOMAIN stack : stack[i].name # n => i \in DOMAIN stack'
    BY <1>2, <1>3 DEF n, Top
  <2> QED
    BY <1>2, <1>3, <1>7, <1>9, <2>1, FlagsKept
<1>14. UnitPromises'
  <2>1. /\ sessions'[n] = 0
        /\ \A m \in Names \ {n} : sessions'[m] = sessions[m]
    BY <1>2, <1>5 DEF TypeOK
  <2>2. /\ \A m \in Names \ {n} : conn'[m] = conn[m] /\ sessions'[m] = sessions[m]
        /\ ~conn'[n].pending
        /\ conn'[n].outcome = "unknown"
        /\ conn'[n].deferred = NoDeferred
        /\ sessions'[n] = IF conn'[n].connection THEN 1 ELSE 0
    BY <1>7, <1>9, <2>1
  <2> QED
    BY <1>1, <2>2, UnitCommitted DEF n
<1>15. OpenWritesOK'
  BY <1>2, <1>3 DEF OpenWritesOK, FramesKept
<1> QED
  BY <1>10, <1>11, <1>12, <1>13, <1>14, <1>15 DEF UnitPromises

\* The session of n is closed with the connection that _finish discards.
LEMMA SessionsFacts ==
  ASSUME TypeOK, UnitsOK, NoLeakedSession, NEW n \in Names, NEW ok, ok \in BOOLEAN
  PROVE  /\ SessionsAfter(n, ok) \in [Names -> Nat]
         /\ \A m \in Names \ {n} : SessionsAfter(n, ok)[m] = sessions[m]
         /\ SessionsAfter(n, ok)[n] =
              IF conn[n].connection /\ (conn[n].pending => ok) THEN 1 ELSE 0
<1>1. /\ sessions \in [Names -> Nat]
      /\ sessions[n] = IF conn[n].connection THEN 1 ELSE 0
      /\ conn[n].pending => conn[n].connection
  BY DEF TypeOK, UnitsOK, NoLeakedSession
<1>2. CASE conn[n].pending /\ ~ok
  <2>1. SessionsAfter(n, ok) = [sessions EXCEPT ![n] = sessions[n] - 1] /\ sessions[n] = 1
    BY <1>1, <1>2 DEF SessionsAfter
  <2> QED
    BY <1>1, <1>2, <2>1
<1>3. CASE ~(conn[n].pending /\ ~ok)
  <2>1. SessionsAfter(n, ok) = sessions
    BY <1>1, <1>3 DEF SessionsAfter
  <2> QED
    BY <1>1, <1>3, <2>1
<1> QED
  BY <1>2, <1>3

\* A rollback, outside every write and every operation on n.
LEMMA RollbackStep ==
  ASSUME IInv, NEW n \in Names, NEW ok, ok \in BOOLEAN, Rollback(n, ok)
  PROVE  IInv'
<1> USE DEF IInv
<1>1. /\ InUserCode /\ Boundary /\ ~conn[n].executing /\ ~conn[n].committing
      /\ exc' = IF ok THEN NoError ELSE Other
      /\ sessions' = SessionsAfter(n, ok)
      /\ UNCHANGED <<stack, closed, execs, writes, held, unit, begun, durable,
                     touched, broken, doomed>>
  BY DEF Rollback, MayCall, CompletionAllowed
<1>2. PICK commit, d, failed :
        /\ commit \in BOOLEAN /\ ~commit /\ failed \in BOOLEAN
        /\ d = Finish(conn[n], commit, ok)
        /\ conn' = [conn EXCEPT ![n] = [d EXCEPT !.failed = failed]]
  <2> WITNESS FALSE, Finish(conn[n], FALSE, ok), ~ok
  <2> QED
    BY Zenon DEF Rollback
<1>3. conn[n] \in ConnectionStates
  BY DEF TypeOK
<1>4. /\ d \in ConnectionStates
      /\ ~d.pending /\ d.deferred = NoDeferred
      /\ d.connection <=> conn[n].connection /\ (conn[n].pending => ok)
      /\ d.outcome = IF ~conn[n].pending THEN conn[n].outcome
                     ELSE IF ~ok THEN "unknown" ELSE "rolled_back"
      /\ d.executing <=> conn[n].executing /\ ~conn[n].pending
      /\ d.committing = conn[n].committing
      /\ d.completion_failed = conn[n].completion_failed
  BY <1>2, <1>3, FinishRolledBack
<1> DEFINE c == [d EXCEPT !.failed = failed]
<1>5. /\ c \in ConnectionStates
      /\ c.pending = d.pending /\ c.deferred = d.deferred /\ c.connection = d.connection
      /\ c.outcome = d.outcome /\ c.executing = d.executing
      /\ c.committing = d.committing /\ c.completion_failed = d.completion_failed
  BY <1>2, <1>4 DEF ConnectionStates
<1>6. conn' = [conn EXCEPT ![n] = c]
  BY <1>2
<1> HIDE DEF c
<1>7. /\ conn' \in [Names -> ConnectionStates]
      /\ conn'[n] = c
      /\ \A m \in Names \ {n} : conn'[m] = conn[m]
  BY <1>5, <1>6, RecordSet
<1>8. ~c.executing /\ ~c.committing /\ ~c.completion_failed /\ ~c.pending
  BY <1>1, <1>4, <1>5 DEF FlagsHaveFrames
<1>9. \A i \in DOMAIN stack : /\ stack[i].kind \notin CloseKinds
                              /\ stack[i].kind # "write"
                              /\ stack[i].kind \in {"execute", "commit"}
                                   => stack[i].name # n
  BY <1>1, UserCodeNotClosing DEF Boundary, FramesOK, FrameOK
<1>10. /\ sessions' \in [Names -> Nat]
       /\ \A m \in Names \ {n} : sessions'[m] = sessions[m]
       /\ sessions'[n] = IF c.connection THEN 1 ELSE 0
  BY <1>1, <1>4, <1>5, SessionsFacts
<1>11. exc' \in Errors
  BY <1>1 DEF Errors
<1>12. TypeOK'
  BY <1>1, <1>7, <1>10, <1>11, TypeKept DEF TypeOK
<1>13. FramesKept /\ StackOrder'
  BY <1>1, StackOrderKept DEF FramesKept
<1>14. FramesOK'
  BY <1>1, <1>7, <1>9, FramesOKKept DEF FramesOK, FrameOK
<1>15. FlagsHaveFrames'
  BY <1>1, <1>7, <1>8, FlagsKept
<1>16. UnitPromises'
  <2>1. \/ conn'[n].outcome = conn[n].outcome /\ ~conn[n].pending
        \/ conn'[n].outcome \in {"rolled_back", "unknown"} /\ conn[n].pending
    BY <1>4, <1>5, <1>7
  <2> QED
    BY <1>1, <1>4, <1>5, <1>7, <1>8, <1>10, <2>1, UnitEnds DEF UnitPromises
<1>17. OpenWritesOK'
  BY <1>1, <1>7, <1>8, <1>13, OpenWritesKept
<1> QED
  BY <1>12, <1>13, <1>14, <1>15, <1>16, <1>17 DEF UnitPromises

\* Closing starts: nothing else is in progress.
LEMMA CloseBeginStep ==
  ASSUME IInv, NEW kind \in CloseKinds, CloseBegin(kind)
  PROVE  IInv'
<1> USE DEF IInv
<1>1. /\ InUserCode /\ Boundary
      /\ \A n \in Names : ~conn[n].executing /\ ~conn[n].committing
      /\ UNCHANGED <<conn, exc, closed, execs, writes, held, unit, begun, durable,
                     touched, broken, doomed, sessions>>
  BY DEF CloseBegin, MayEnter, MayCall, CompletionAllowed, history
<1>2. PICK n \in Names : Push([Frame(kind, n) EXCEPT !.todo = Names])
  BY DEF CloseBegin, Push
<1> DEFINE f == [Frame(kind, n) EXCEPT !.todo = Names]
<1>3. f \in Frames /\ f.kind = kind /\ f.todo = Names
  BY DEF Frame, Frames, Kinds, Queues, CloseKinds
<1>4. Push(f)
  BY <1>2
<1> HIDE DEF f
<1>5. /\ stack' \in Seq(Frames)
      /\ Len(stack) \in Nat /\ Len(stack') = Len(stack) + 1
      /\ DOMAIN stack = 1..Len(stack) /\ DOMAIN stack' = 1..(Len(stack) + 1)
      /\ stack'[Len(stack) + 1] = f
  BY <1>3, <1>4, PushFacts
<1>6. ASSUME NEW i \in DOMAIN stack
      PROVE  FALSE
  <2>1. /\ stack[i].kind \notin CloseKinds /\ stack[i].kind # "write"
        /\ stack[i].kind \in Kinds /\ stack[i].name \in Names
    BY <1>1, UserCodeNotClosing, StackFacts DEF Boundary, Frames
  <2>2. stack[i].kind \in {"execute", "commit"}
    BY <2>1 DEF Kinds, CloseKinds
  <2> QED
    BY <1>1, <2>1, <2>2 DEF FramesOK, FrameOK
<1>7. Len(stack) = 0 /\ DOMAIN stack' = {1} /\ stack'[1] = f
  <2>1. 1 \notin 1..Len(stack)
    BY <1>5, <1>6
  <2>2. Len(stack) = 0
    BY <1>5, <2>1
  <2> QED
    BY <1>5, <2>2
<1>8. TypeOK'
  BY <1>1, <1>5, TypeKept DEF TypeOK
<1>9. StackOrder'
  BY <1>7 DEF StackOrder
<1>10. FramesOK'
  BY <1>3, <1>7 DEF FramesOK, FrameOK, CloseKinds
<1>11. FlagsHaveFrames'
  BY <1>1 DEF FlagsHaveFrames
<1>12. UnitPromises'
  BY <1>1, UnitsKept DEF UnitPromises
<1>13. OpenWritesOK'
  BY <1>3, <1>7 DEF OpenWritesOK, CloseKinds
<1> QED
  BY <1>8, <1>9, <1>10, <1>11, <1>12, <1>13 DEF UnitPromises

\* While connections are closed nothing else is in progress.
LEMMA ClosingFacts ==
  ASSUME IInv, Closing
  PROVE  /\ stack # <<>> /\ Top \in Frames /\ Top.kind \in CloseKinds
         /\ Len(stack) = 1 /\ DOMAIN stack = {1} /\ stack[1] = Top
         /\ \A m \in Names : /\ ~conn[m].executing /\ ~conn[m].committing
                             /\ ~conn[m].completion_failed
<1> USE DEF IInv
<1>1. stack # <<>> /\ Top.kind \in CloseKinds
  BY DEF Closing, OnTop, CloseKinds
<1>2. /\ Len(stack) \in Nat \ {0} /\ Len(stack) \in DOMAIN stack
      /\ DOMAIN stack = 1..Len(stack) /\ Top = stack[Len(stack)] /\ Top \in Frames
  BY <1>1, TopFacts, StackFacts
<1>3. Len(stack) = 1
  <2> SUFFICES ASSUME Len(stack) # 1
               PROVE  FALSE
    OBVIOUS
  <2>1. 1 \in DOMAIN stack /\ 1 < Len(stack)
    BY <1>2
  <2> QED
    BY <1>1, <1>2, <2>1 DEF StackOrder
<1>4. DOMAIN stack = {1} /\ stack[1] = Top
  BY <1>2, <1>3
<1> QED
  BY <1>1, <1>2, <1>3, <1>4 DEF FlagsHaveFrames, Framed, CloseKinds

\* One connection is closed: its unit ends, its session is gone.
LEMMA CloseStepStep ==
  ASSUME IInv, NEW n \in Names, NEW rolledBack, rolledBack \in BOOLEAN,
         NEW released \in BOOLEAN, CloseStep(n, rolledBack, released)
  PROVE  IInv'
<1> DEFINE f == [Top EXCEPT !.todo = @ \ {n}]
<1> USE DEF IInv
<1>1. /\ Closing /\ ChangeTop(f)
      /\ exc' \in {Other, exc}
      /\ UNCHANGED <<closed, execs, writes, held, unit, begun, durable, touched,
                     broken, doomed>>
  BY DEF CloseStep
<1>2. PICK commit, s :
        /\ commit \in BOOLEAN /\ ~commit
        /\ s = Finish(conn[n], commit, rolledBack)
        /\ conn' = [conn EXCEPT ![n] = [s EXCEPT !.connection = FALSE, !.closed = TRUE,
                                                 !.executing = FALSE]]
        /\ sessions' = [SessionsAfter(n, rolledBack) EXCEPT
                          ![n] = IF s.connection THEN @ - 1 ELSE @]
  <2> WITNESS FALSE, Finish(conn[n], FALSE, rolledBack)
  <2> QED
    BY Zenon DEF CloseStep
<1>3. /\ stack # <<>> /\ Top \in Frames /\ Top.kind \in CloseKinds
      /\ Len(stack) = 1 /\ DOMAIN stack = {1} /\ stack[1] = Top
      /\ \A m \in Names : /\ ~conn[m].executing /\ ~conn[m].committing
                          /\ ~conn[m].completion_failed
  BY <1>1, ClosingFacts
<1>4. /\ f \in Frames /\ f.kind = Top.kind /\ f.name = Top.name /\ f.id = Top.id
      /\ f.todo = Top.todo \ {n}
  BY <1>3 DEF Frames
<1> HIDE DEF f
<1>5. /\ stack' \in Seq(Frames) /\ FramesKept
      /\ DOMAIN stack' = {1} /\ stack'[1] = f
  BY <1>1, <1>3, <1>4, ChangeTopFacts
<1>6. /\ conn[n] \in ConnectionStates
      /\ s \in ConnectionStates
      /\ ~s.pending /\ s.deferred = NoDeferred
      /\ s.connection <=> conn[n].connection /\ (conn[n].pending => rolledBack)
      /\ s.outcome = IF ~conn[n].pending THEN conn[n].outcome
                     ELSE IF ~rolledBack THEN "unknown" ELSE "rolled_back"
      /\ s.committing = conn[n].committing
      /\ s.completion_failed = conn[n].completion_failed
  <2>1. conn[n] \in ConnectionStates
    BY DEF TypeOK
  <2> QED
    BY <1>2, <2>1, FinishRolledBack
<1> DEFINE c == [s EXCEPT !.connection = FALSE, !.closed = TRUE, !.executing = FALSE]
<1>7. /\ c \in ConnectionStates
      /\ ~c.pending /\ ~c.connection /\ ~c.executing
      /\ c.deferred = NoDeferred /\ c.outcome = s.outcome
      /\ c.committing = s.committing /\ c.completion_failed = s.completion_failed
  BY <1>6 DEF ConnectionStates
<1>8. conn' = [conn EXCEPT ![n] = c]
  BY <1>2
<1> HIDE DEF c
<1>9. /\ conn' \in [Names -> ConnectionStates]
      /\ conn'[n] = c
      /\ \A m \in Names \ {n} : conn'[m] = conn[m]
  BY <1>7, <1>8, RecordSet
<1>10. /\ sessions' \in [Names -> Nat]
       /\ \A m \in Names \ {n} : sessions'[m] = sessions[m]
       /\ sessions'[n] = 0
  <2> DEFINE after == SessionsAfter(n, rolledBack)
  <2>1. /\ after \in [Names -> Nat]
        /\ \A m \in Names \ {n} : after[m] = sessions[m]
        /\ after[n] = IF s.connection THEN 1 ELSE 0
    BY <1>6, SessionsFacts
  <2>2. sessions' = [after EXCEPT ![n] = IF s.connection THEN after[n] - 1 ELSE after[n]]
    BY <1>2
  <2> HIDE DEF after
  <2> QED
    BY <2>1, <2>2
<1>11. TypeOK'
  <2>1. exc' \in Errors
    BY <1>1 DEF TypeOK, Errors
  <2> QED
    BY <1>1, <1>5, <1>9, <1>10, <2>1, TypeKept DEF TypeOK
<1>12. StackOrder'
  BY <1>5, StackOrderKept
<1>13. FramesOK'
  <2>1. \A m \in Names \ Top.todo : ~conn[m].connection
    BY <1>3 DEF FramesOK, FrameOK
  <2>2. \A m \in Names \ f.todo : ~conn'[m].connection
    BY <1>4, <1>7, <1>9, <2>1
  <2> QED
    BY <1>3, <1>4, <1>5, <2>2 DEF FramesOK, FrameOK, CloseKinds
<1>14. FlagsHaveFrames'
  BY <1>3, <1>6, <1>7, <1>9 DEF FlagsHaveFrames
<1>15. UnitPromises'
  <2>1. \/ conn'[n].outcome = conn[n].outcome /\ ~conn[n].pending
        \/ conn'[n].outcome \in {"rolled_back", "unknown"} /\ conn[n].pending
    BY <1>6, <1>7, <1>9
  <2> QED
    BY <1>1, <1>7, <1>9, <1>10, <2>1, UnitEnds DEF UnitPromises
<1>16. OpenWritesOK'
  BY <1>3, <1>4, <1>5 DEF OpenWritesOK, CloseKinds
<1> QED
  BY <1>11, <1>12, <1>13, <1>14, <1>15, <1>16 DEF UnitPromises

\* Closing ends: every session is closed, so the states may be dropped.
LEMMA CloseEndStep ==
  ASSUME IInv, CloseEnd
  PROVE  IInv'
<1> USE DEF IInv
<1>1. /\ Closing /\ Top.todo = {} /\ Pop /\ closed' \in BOOLEAN
      /\ \/ conn' = conn
         \/ conn' = [m \in Names |-> NewConnection]
      /\ UNCHANGED <<exc, execs, writes, held, unit, begun, durable, touched,
                     broken, doomed, sessions>>
  BY DEF CloseEnd, AllClosed, history, TypeOK
<1>2. /\ stack # <<>> /\ Top \in Frames /\ Top.kind \in CloseKinds
      /\ Len(stack) = 1 /\ DOMAIN stack = {1} /\ stack[1] = Top
      /\ \A m \in Names : /\ ~conn[m].executing /\ ~conn[m].committing
                          /\ ~conn[m].completion_failed
  BY <1>1, ClosingFacts
<1>3. stack' \in Seq(Frames) /\ FramesKept /\ DOMAIN stack' = {}
  BY <1>1, <1>2, PopFacts
<1>4. \A m \in Names : ~conn[m].connection /\ ~conn[m].pending /\ sessions[m] = 0
  BY <1>1, <1>2 DEF FramesOK, FrameOK, UnitsOK, NoLeakedSession
<1>5. NewConnection \in ConnectionStates
  BY DEF NewConnection, ConnectionStates, NoDeferred, Queues, Outcomes, NoError, Exceptions
<1>6. conn' \in [Names -> ConnectionStates]
  BY <1>1, <1>5 DEF TypeOK
<1>7. TypeOK'
  BY <1>1, <1>3, <1>6, TypeKept DEF TypeOK
<1>8. StackOrder' /\ FramesOK' /\ OpenWritesOK'
  BY <1>3 DEF StackOrder, FramesOK, OpenWritesOK
<1>9. CASE conn' = conn
  <2>1. FlagsHaveFrames'
    BY <1>2, <1>9 DEF FlagsHaveFrames
  <2>2. UnitPromises'
    BY <1>1, <1>9, UnitsKept DEF UnitPromises
  <2> QED
    BY <1>7, <1>8, <2>1, <2>2 DEF UnitPromises
<1>10. CASE conn' = [m \in Names |-> NewConnection]
  <2>1. \A m \in Names : /\ ~conn'[m].executing /\ ~conn'[m].committing
                         /\ ~conn'[m].completion_failed /\ ~conn'[m].pending
                         /\ ~conn'[m].connection /\ conn'[m].outcome = "not_started"
                         /\ conn'[m].deferred = NoDeferred
    BY <1>10 DEF NewConnection
  <2>2. FlagsHaveFrames'
    BY <2>1 DEF FlagsHaveFrames
  <2>3. UnitsOK'
    BY <1>1, <2>1 DEF UnitsOK
  <2>4. OutcomeIsHonest'
    BY <1>1, <2>1 DEF OutcomeIsHonest
  <2>5. NoLeakedSession'
    BY <1>1, <1>4, <2>1 DEF NoLeakedSession
  <2>6. DoomedNeverDurable'
    BY <1>1 DEF DoomedNeverDurable
  <2>7. NoOrphanCallback'
    BY <2>1 DEF NoOrphanCallback, NoDeferred
  <2>8. BrokenWriteNeverDurable'
    BY <1>1, <2>1 DEF BrokenWriteNeverDurable
  <2> QED
    BY <1>7, <1>8, <2>2, <2>3, <2>4, <2>5, <2>6, <2>7, <2>8
<1> QED
  BY <1>1, <1>9, <1>10

\* Steps that change only what is propagating, or nothing.
LEMMA QuietStep ==
  ASSUME IInv, exc' \in Errors, held' \in Errors,
         UNCHANGED <<conn, stack, closed, execs, writes, unit, begun, durable,
                     touched, broken, doomed, sessions>>
  PROVE  IInv'
<1> USE DEF IInv
<1>1. TypeOK'
  BY DEF TypeOK, Errors
<1>2. FramesKept /\ StackOrder'
  BY StackOrderKept DEF FramesKept
<1>3. FramesOK' /\ FlagsHaveFrames'
  BY DEF FramesOK, FrameOK, FlagsHaveFrames, Framed
<1>4. UnitPromises'
  BY UnitsKept DEF UnitPromises
<1>5. OpenWritesOK'
  BY <1>2, OpenWritesKept
<1> QED
  BY <1>1, <1>2, <1>3, <1>4, <1>5 DEF UnitPromises

----------------------------------------------------------------------------
(* The theorems.                                                            *)

LEMMA InitIInv == Init => IInv
<1> SUFFICES ASSUME Init
             PROVE  IInv
  OBVIOUS
<1> USE DEF Init
<1>1. NewConnection \in ConnectionStates
  BY DEF NewConnection, ConnectionStates, NoDeferred, Queues, Outcomes, NoError, Exceptions
<1>2. stack \in Seq(Frames) /\ DOMAIN stack = {}
  OBVIOUS
<1>3. TypeOK
  <2>1. conn \in [Names -> ConnectionStates] /\ sessions \in [Names -> Nat]
    BY <1>1
  <2>2. exc \in Errors /\ held \in Errors /\ closed \in BOOLEAN
    BY DEF Errors
  <2>3. begun = 0 /\ unit \in [Names -> 0..begun]
    OBVIOUS
  <2>4. /\ durable \subseteq 1..begun /\ doomed \subseteq 1..begun
        /\ touched \subseteq (1..writes) \X (1..begun) /\ broken \subseteq 1..writes
        /\ execs \in Nat /\ writes \in Nat
    OBVIOUS
  <2> QED
    BY <1>2, <2>1, <2>2, <2>3, <2>4 DEF TypeOK
<1>4. StackOrder /\ FramesOK /\ OpenWritesOK
  BY <1>2 DEF StackOrder, FramesOK, OpenWritesOK
<1>5. \A n \in Names : /\ ~conn[n].executing /\ ~conn[n].committing /\ ~conn[n].pending
                       /\ ~conn[n].completion_failed /\ ~conn[n].connection
                       /\ conn[n].outcome = "not_started"
                       /\ conn[n].deferred = NoDeferred /\ unit[n] = 0
                       /\ sessions[n] = 0
  BY DEF NewConnection
<1>6. FlagsHaveFrames /\ UnitsOK
  BY <1>5 DEF FlagsHaveFrames, UnitsOK
<1>7. OutcomeIsHonest /\ NoLeakedSession
  BY <1>5 DEF OutcomeIsHonest, NoLeakedSession
<1>8. DoomedNeverDurable /\ NoOrphanCallback /\ BrokenWriteNeverDurable
  BY <1>5 DEF DoomedNeverDurable, NoOrphanCallback, BrokenWriteNeverDurable, NoDeferred
<1> QED
  BY <1>3, <1>4, <1>6, <1>7, <1>8 DEF IInv

LEMMA NextIInv == IInv /\ [Next]_vars => IInv'
<1> SUFFICES ASSUME IInv, [Next]_vars
             PROVE  IInv'
  OBVIOUS
<1>1. ASSUME NEW n \in Names, Calls(n)
      PROVE  IInv'
  <2>1. CASE ExecuteBegin(n)
    BY <2>1, ExecuteBeginStep
  <2>2. CASE ConnectFails(n)
    BY <2>2, ConnectFailsStep
  <2>3. CASE WriteBegin(n)
    BY <2>3, WriteBeginStep
  <2>4. ASSUME NEW q \in Queues, NEW c \in Callbacks, Defer(n, q, c)
        PROVE  IInv'
    BY <2>4, DeferStep
  <2>5. CASE DeferredRaise(n)
    BY <2>5, DeferredRaiseStep
  <2>6. CASE CommitBegin(n)
    BY <2>6, CommitBeginStep
  <2>7. ASSUME NEW ok \in BOOLEAN, Rollback(n, ok)
        PROVE  IInv'
    BY <2>7, RollbackStep
  <2> QED
    BY <1>1, <2>1, <2>2, <2>3, <2>4, <2>5, <2>6, <2>7 DEF Calls
<1>2. ASSUME NEW kind \in {"closeConnection", "close"}, CloseBegin(kind)
      PROVE  IInv'
  BY <1>2, CloseBeginStep DEF CloseKinds
<1>3. CASE Returns
  <2>1. ASSUME NEW ok \in BOOLEAN, ExecuteFails(ok)
        PROVE  IInv'
    BY <2>1, ExecuteFailsStep
  <2> QED
    BY <1>3, <2>1, ExecuteReturnsStep, WriteReturnsStep, CallbackReturnsStep,
       WriteFailsStep, CommitFailsStep DEF Returns
<1>4. CASE CommitSteps
  BY <1>4, CallbackBeginStep, CommitRefusedStep, CommitAcceptedStep,
     CommitUncertainStep, CommitRepeatsStep, CommitReturnsStep DEF CommitSteps
<1>5. CASE CloseSteps
  <2>1. ASSUME NEW n \in Names, NEW rolledBack \in BOOLEAN, NEW released \in BOOLEAN,
               CloseStep(n, rolledBack, released)
        PROVE  IInv'
    BY <2>1, CloseStepStep
  <2> QED
    BY <1>5, <2>1, CloseEndStep DEF CloseSteps
<1>6. ASSUME NEW e \in {Other, held} \ {NoError}, UserRaise(e)
      PROVE  IInv'
  <2>1. exc' \in Errors /\ held' \in Errors
    BY <1>6 DEF UserRaise, IInv, TypeOK, Errors, history
  <2> QED
    BY <1>6, <2>1, QuietStep DEF UserRaise, history
<1>7. CASE UserCatch
  <2>1. exc' \in Errors /\ held' \in Errors
    BY <1>7 DEF UserCatch, IInv, TypeOK, Errors
  <2> QED
    BY <1>7, <2>1, QuietStep DEF UserCatch
<1>8. CASE UNCHANGED vars
  BY <1>8, QuietStep DEF vars, control, history, IInv, TypeOK
<1> QED
  BY <1>1, <1>2, <1>3, <1>4, <1>5, <1>6, <1>7, <1>8 DEF Next

\* IInv holds in every reachable state, for all names, callbacks and bounds.
THEOREM Invariance == Spec => []IInv
  BY InitIInv, NextIInv, PTL DEF Spec

\* Every variable of the runtime's model keeps its type.
THEOREM TypeCorrect == Spec => []TypeOK
<1>1. IInv => TypeOK
  BY DEF IInv
<1> QED
  BY <1>1, Invariance, PTL

\* A failed write is never committed, whoever swallows its exception
\* (_write_operation, _commit_pending).
THEOREM BrokenWritesStayOut == Spec => []BrokenWriteNeverDurable
<1>1. IInv => BrokenWriteNeverDurable
  BY DEF IInv
<1> QED
  BY <1>1, Invariance, PTL

\* A unit doomed by deferredRaise or by a failed write is never committed.
THEOREM DoomedUnitsStayOut == Spec => []DoomedNeverDurable
<1>1. IInv => DoomedNeverDurable
  BY DEF IInv
<1> QED
  BY <1>1, Invariance, PTL

\* No deferred callback survives the unit of work it belongs to.
THEOREM CallbacksFollowTheirUnit == Spec => []NoOrphanCallback
<1>1. IInv => NoOrphanCallback
  BY DEF IInv
<1> QED
  BY <1>1, Invariance, PTL

\* The outcome the runtime reports is what happened to the unit.
THEOREM OutcomesAreHonest == Spec => []OutcomeIsHonest
<1>1. IInv => OutcomeIsHonest
  BY DEF IInv
<1> QED
  BY <1>1, Invariance, PTL

\* No database session is lost, whatever fails while connections are closed.
THEOREM SessionsAreKept == Spec => []NoLeakedSession
<1>1. IInv => NoLeakedSession
  BY DEF IInv
<1> QED
  BY <1>1, Invariance, PTL

\* The flags that guard a connection mirror the operations in progress on it:
\* two frames of one kind on one connection would contradict StackOrder.
THEOREM FlagsMirrorStack == Spec => []FlagsMatchStack
<1>1. IInv => FlagsMatchStack
  <2> SUFFICES ASSUME IInv, NEW n \in Names
               PROVE  /\ conn[n].executing <=> Framed("execute", n) # {}
                      /\ conn[n].committing <=> Framed("commit", n) # {}
                      /\ \A kind \in {"execute", "commit"} :
                           \A i, j \in Framed(kind, n) : i = j
                      /\ conn[n].completion_failed => conn[n].committing
    BY DEF FlagsMatchStack
  <2> USE DEF IInv
  <2>1. Framed("execute", n) # {} => conn[n].executing
    BY DEF Framed, FramesOK, FrameOK
  <2>2. Framed("commit", n) # {} => conn[n].committing
    BY DEF Framed, FramesOK, FrameOK
  <2>3. ASSUME NEW kind \in {"execute", "commit"},
               NEW i \in Framed(kind, n), NEW j \in Framed(kind, n), i # j
        PROVE  FALSE
    <3>1. /\ i \in DOMAIN stack /\ j \in DOMAIN stack
          /\ i \in Int /\ j \in Int
      BY StackFacts DEF Framed
    <3>2. i < j \/ j < i
      BY <2>3, <3>1
    <3> QED
      BY <2>3, <3>1, <3>2 DEF StackOrder, Framed
  <2>4. /\ conn[n].executing => Framed("execute", n) # {}
        /\ conn[n].committing => Framed("commit", n) # {}
        /\ conn[n].completion_failed => conn[n].committing
    BY DEF FlagsHaveFrames
  <2> QED
    BY <2>1, <2>2, <2>3, <2>4
<1> QED
  BY <1>1, Invariance, PTL

----------------------------------------------------------------------------
(* Connections implements UnitOfWork: the phase of a connection changes as  *)
(* the abstract unit's does, one name at a time.                            *)

PhaseOf(s) == IF s.closed THEN "idle"
              ELSE IF s.failed \/ s.completion_failed THEN "blocked"
              ELSE IF s.pending THEN "open" ELSE "idle"

\* Connection records are marked closed only while a close is in progress,
\* and by the time it ends, all of them.
NoneClosing == \A i \in DOMAIN stack : stack[i].kind \notin CloseKinds
ClosedOK ==
  /\ closed => stack = <<>>
  /\ \A n \in Names : conn[n].closed => closed \/ ~NoneClosing
  /\ \A i \in DOMAIN stack : stack[i].kind \in CloseKinds =>
       \A n \in Names \ stack[i].todo : conn[n].closed

\* What a step outside of a close does to the connection n, which alone it
\* changes: it keeps the unit, opens one, or has COMMIT answered.
Works(n) ==
  /\ ~closed /\ ~closed' /\ NoneClosing /\ NoneClosing'
  /\ ~conn[n].closed /\ ~conn'[n].closed
  /\ \A m \in Names \ {n} : conn'[m] = conn[m]
Handles(n) ==
  /\ UNCHANGED <<unit, begun, durable>>
  /\ PhaseOf(conn'[n]) = "open" => PhaseOf(conn[n]) = "open"
Opens(n) ==
  /\ ~conn[n].pending /\ PhaseOf(conn[n]) = "idle" /\ PhaseOf(conn'[n]) = "open"
  /\ begun' = begun + 1 /\ unit' = [unit EXCEPT ![n] = begun + 1]
  /\ UNCHANGED durable
Completes(n) ==
  /\ PhaseOf(conn[n]) = "open"
  /\ \/ PhaseOf(conn'[n]) = "idle" /\ durable' = durable \cup {unit[n]}
     \/ PhaseOf(conn'[n]) = "blocked" /\ durable' \in {durable, durable \cup {unit[n]}}
  /\ UNCHANGED <<unit, begun>>
UnitStep(n) == Works(n) /\ (Handles(n) \/ Opens(n) \/ Completes(n))

LEMMA Working ==
  ASSUME IInv, ClosedOK, MayCall \/ (stack # <<>> /\ Top.kind \notin CloseKinds)
  PROVE  ~closed /\ NoneClosing /\ \A n \in Names : ~conn[n].closed
<1>1. ~closed
  BY DEF ClosedOK, MayCall
<1>2. NoneClosing
  BY NotClosing, UserCodeNotClosing DEF IInv, NoneClosing, MayCall
<1> QED
  BY <1>1, <1>2 DEF ClosedOK

\* No close begins: the stack stays, loses its top, changes it, or gains an
\* operation of another kind.
LEMMA StaysOpen ==
  ASSUME IInv, NoneClosing,
         \/ stack' = stack
         \/ stack # <<>> /\ Pop
         \/ \E f \in Frames : /\ stack # <<>> /\ ChangeTop(f)
                              /\ f.kind = Top.kind /\ f.name = Top.name /\ f.id = Top.id
         \/ \E f \in Frames : Push(f) /\ f.kind \notin CloseKinds
  PROVE  NoneClosing'
<1>1. TypeOK
  BY DEF IInv
<1>2. CASE stack' = stack
  BY <1>2 DEF NoneClosing
<1>3. CASE FramesKept
  BY <1>3 DEF NoneClosing, FramesKept
<1>4. ASSUME NEW f \in Frames, Push(f), f.kind \notin CloseKinds
      PROVE  NoneClosing'
  <2>1. /\ Len(stack) \in Nat
        /\ DOMAIN stack = 1..Len(stack) /\ DOMAIN stack' = 1..(Len(stack) + 1)
        /\ \A i \in DOMAIN stack : stack'[i] = stack[i]
        /\ stack'[Len(stack) + 1] = f
    BY <1>1, <1>4, PushFacts
  <2>2. \A i \in DOMAIN stack' : i \in DOMAIN stack \/ i = Len(stack) + 1
    BY <2>1
  <2> QED
    BY <1>4, <2>1, <2>2 DEF NoneClosing
<1>5. stack # <<>> /\ Pop => FramesKept
  BY <1>1, PopFacts
<1>6. ASSUME NEW f \in Frames, stack # <<>>, ChangeTop(f),
             f.kind = Top.kind, f.name = Top.name, f.id = Top.id
      PROVE  FramesKept
  BY <1>1, <1>6, ChangeTopFacts
<1> QED
  BY <1>2, <1>3, <1>4, <1>5, <1>6

\* The frames the operations push.
LEMMA FrameIs ==
  ASSUME NEW n \in Names, NEW kind \in Kinds
  PROVE  Frame(kind, n) \in Frames /\ Frame(kind, n).kind = kind
  BY DEF Frame, Frames, Queues, NoEntry

LEMMA ClosedKept ==
  ASSUME ClosedOK, NEW n \in Names, Works(n)
  PROVE  ClosedOK'
<1>1. \A m \in Names : ~conn'[m].closed
  BY DEF ClosedOK, Works
<1>2. ~closed' /\ NoneClosing'
  BY DEF Works
<1> QED
  BY <1>1, <1>2 DEF ClosedOK, NoneClosing

LEMMA PhaseSet ==
  ASSUME NEW n \in Names, \A m \in Names \ {n} : conn'[m] = conn[m]
  PROVE  [m \in Names |-> PhaseOf(conn'[m])] =
           [[m \in Names |-> PhaseOf(conn[m])] EXCEPT ![n] = PhaseOf(conn'[n])]
  OBVIOUS

\* Each such step is one of the abstract unit of work, or none.
LEMMA UnitOfWorkStep ==
  ASSUME NEW n \in Names, UnitStep(n)
  PROVE  [Abstract!Next]_(Abstract!abstractVars)
<1> DEFINE phase == [m \in Names |-> PhaseOf(conn[m])]
           after == [m \in Names |-> PhaseOf(conn'[m])]
<1>1. after = [phase EXCEPT ![n] = PhaseOf(conn'[n])]
  BY PhaseSet DEF UnitStep, Works
<1>2. phase[n] = PhaseOf(conn[n])
  OBVIOUS
<1>3. PhaseOf(conn'[n]) \in {"idle", "blocked", "open"}
  BY DEF PhaseOf
<1>4. CASE Handles(n)
  <2>1. CASE PhaseOf(conn'[n]) \in {"idle", "blocked"}
    <3>1. Abstract!Block(n) \/ Abstract!Release(n)
      BY <1>1, <1>4, <2>1 DEF Handles, Abstract!Block, Abstract!Release, PhaseOf
    <3> QED
      BY <3>1 DEF Abstract!Next
  <2>2. CASE PhaseOf(conn'[n]) = "open"
    <3>1. PhaseOf(conn'[n]) = PhaseOf(conn[n])
      BY <1>4, <2>2 DEF Handles
    <3>2. after = phase
      BY <1>1, <3>1
    <3> QED
      BY <1>4, <3>2 DEF Handles, Abstract!abstractVars, PhaseOf
  <2> QED
    BY <1>3, <2>1, <2>2
<1>5. CASE Opens(n)
  <2>1. phase[n] = "idle" /\ after = [phase EXCEPT ![n] = "open"]
    BY <1>1, <1>2, <1>5 DEF Opens
  <2>2. Abstract!Begin(n)
    BY <1>5, <2>1 DEF Opens, Abstract!Begin, PhaseOf
  <2> QED
    BY <2>2 DEF Abstract!Next
<1>6. CASE Completes(n)
  <2>1. phase[n] = "open"
    BY <1>2, <1>6 DEF Completes
  <2>2. Abstract!Commit(n) \/ Abstract!Doubt(n)
    BY <1>1, <1>6, <2>1 DEF Completes, Abstract!Commit, Abstract!Doubt, PhaseOf
  <2> QED
    BY <2>2 DEF Abstract!Next
<1> QED
  BY <1>4, <1>5, <1>6 DEF UnitStep

\* A step that keeps the units and changes the record of n to c.
LEMMA HandlesStep ==
  ASSUME IInv, ClosedOK, NEW n \in Names, NEW c,
         MayCall \/ (stack # <<>> /\ Top.kind \notin CloseKinds),
         conn' = [conn EXCEPT ![n] = c],
         ~c.closed,
         c.pending => conn[n].pending,
         conn[n].failed \/ conn[n].completion_failed
           => c.failed \/ c.completion_failed \/ ~c.pending,
         NoneClosing', UNCHANGED <<closed, unit, begun, durable>>
  PROVE  UnitStep(n)
<1>1. conn'[n] = c /\ \A m \in Names \ {n} : conn'[m] = conn[m]
  BY DEF IInv, TypeOK
<1>2. ~closed /\ NoneClosing /\ ~conn[n].closed
  BY Working
<1>3. PhaseOf(c) = "open" => PhaseOf(conn[n]) = "open"
  BY <1>2 DEF PhaseOf
<1> QED
  BY <1>1, <1>2, <1>3 DEF UnitStep, Works, Handles

LEMMA CallIsUnitStep ==
  ASSUME IInv, ClosedOK, NEW n \in Names, Calls(n)
  PROVE  (\E m \in Names : UnitStep(m))
<1> USE DEF IInv
<1>1. conn[n] \in ConnectionStates
  BY DEF TypeOK
<1>2. CASE ExecuteBegin(n)
  <2> DEFINE f == [Frame("execute", n) EXCEPT !.id = execs + 1]
  <2>1. /\ MayCall /\ Usable(n) /\ conn' = [conn EXCEPT ![n] = Started(conn[n])]
        /\ Push(f) /\ UNCHANGED <<closed, durable>>
    BY <1>2 DEF ExecuteBegin, MayEnter
  <2>2. f \in Frames /\ f.kind = "execute"
    <3>1. NoEntry \in Entries \cup {NoEntry} /\ execs + 1 \in Nat
      BY DEF TypeOK
    <3> QED
      BY <3>1 DEF Frame, Frames, Kinds, Queues
  <2>3. ~closed /\ NoneClosing /\ ~conn[n].closed
    BY <2>1, Working
  <2>4. NoneClosing'
    <3> HIDE DEF f
    <3> QED
      BY <2>1, <2>2, <2>3, StaysOpen DEF CloseKinds
  <2>5. conn'[n] = Started(conn[n]) /\ \A m \in Names \ {n} : conn'[m] = conn[m]
    BY <2>1 DEF TypeOK
  <2>6. /\ conn'[n].pending /\ conn'[n].failed = conn[n].failed
        /\ conn'[n].completion_failed = conn[n].completion_failed
        /\ conn'[n].closed = conn[n].closed
    BY <1>1, <2>5, StartedFields
  <2>7. Works(n)
    BY <2>1, <2>3, <2>4, <2>5, <2>6 DEF Works
  <2>8. PhaseOf(conn'[n]) = "open"
    BY <2>1, <2>3, <2>6 DEF PhaseOf, Usable
  <2>9. CASE conn[n].pending
    <3>1. unit' = unit /\ begun' = begun
      BY <1>2, <2>9 DEF ExecuteBegin, TypeOK
    <3>2. PhaseOf(conn[n]) = "open"
      BY <2>1, <2>3, <2>9 DEF PhaseOf, Usable
    <3> QED
      BY <2>1, <2>7, <3>1, <3>2 DEF UnitStep, Handles
  <2>10. CASE ~conn[n].pending
    <3>1. unit' = [unit EXCEPT ![n] = begun + 1] /\ begun' = begun + 1
      BY <1>2, <2>10 DEF ExecuteBegin
    <3>2. PhaseOf(conn[n]) = "idle"
      BY <2>1, <2>3, <2>10 DEF PhaseOf, Usable
    <3> QED
      BY <2>1, <2>7, <2>8, <2>10, <3>1, <3>2 DEF UnitStep, Opens
  <2> QED
    BY <2>9, <2>10
<1>3. CASE ConnectFails(n)
  <2> DEFINE s == [conn[n] EXCEPT !.execution_count = @ + 1]
  <2>1. s \in ConnectionStates /\ s.closed = conn[n].closed
    BY <1>1 DEF ConnectionStates
  <2>2. PICK e \in Exceptions, ok \in BOOLEAN : conn' = [conn EXCEPT ![n] = Raised(s, e, ok)]
    <3>1. execs + 1 \in Exceptions
      BY DEF TypeOK, Exceptions
    <3> QED
      BY <1>3, <3>1 DEF ConnectFails
  <2>3. MayCall /\ UNCHANGED <<stack, closed, unit, begun, durable>>
    BY <1>3 DEF ConnectFails
  <2> HIDE DEF s
  <2>4. ~Raised(s, e, ok).pending /\ Raised(s, e, ok).closed = s.closed
    BY <2>1, RaisedFields
  <2>5. ~closed /\ NoneClosing /\ ~conn[n].closed
    BY <2>3, Working
  <2>6. NoneClosing'
    BY <2>3, <2>5, StaysOpen
  <2> QED
    BY <2>1, <2>2, <2>3, <2>4, <2>5, <2>6, HandlesStep
<1>4. CASE WriteBegin(n)
  <2> DEFINE f == [Frame("write", n) EXCEPT !.id = writes + 1,
                                            !.count = conn[n].execution_count]
  <2>1. MayCall /\ Push(f) /\ UNCHANGED <<conn, closed, unit, begun, durable>>
    BY <1>4 DEF WriteBegin, MayEnter
  <2>2. f \in Frames /\ f.kind = "write"
    <3>1. NoEntry \in Entries \cup {NoEntry} /\ writes + 1 \in Nat
          /\ conn[n].execution_count \in Nat
      BY <1>1 DEF TypeOK, ConnectionStates
    <3> QED
      BY <3>1 DEF Frame, Frames, Kinds, Queues
  <2>3. ~closed /\ NoneClosing /\ ~conn[n].closed
    BY <2>1, Working
  <2>4. NoneClosing'
    <3> HIDE DEF f
    <3> QED
      BY <2>1, <2>2, <2>3, StaysOpen DEF CloseKinds
  <2> QED
    BY <2>1, <2>3, <2>4 DEF UnitStep, Works, Handles
<1>5. ASSUME NEW q \in Queues, NEW d \in Callbacks, Defer(n, q, d)
      PROVE  UnitStep(n)
  <2>1. MayCall /\ UNCHANGED <<stack, closed, unit, begun, durable>>
    BY <1>5 DEF Defer, control, history
  <2>2. PICK es \in SUBSET Entries : conn' = [conn EXCEPT ![n] = SetQueue(conn[n], q, es)]
    <3> DEFINE e == [callback |-> d, unit |-> IF conn[n].pending THEN unit[n] ELSE 0]
    <3>1. conn' = [conn EXCEPT ![n] = SetQueue(conn[n], q, conn[n].deferred[q] \cup {e})]
      BY <1>5 DEF Defer
    <3>2. unit[n] \in Nat
      BY DEF TypeOK
    <3>3. e \in Entries
      BY <3>2 DEF Entries
    <3>4. conn[n].deferred[q] \in SUBSET Entries
      BY <1>1 DEF ConnectionStates
    <3> HIDE DEF e
    <3> QED
      BY <3>1, <3>3, <3>4
  <2>3. /\ SetQueue(conn[n], q, es).pending = conn[n].pending
        /\ SetQueue(conn[n], q, es).failed = conn[n].failed
        /\ SetQueue(conn[n], q, es).completion_failed = conn[n].completion_failed
        /\ SetQueue(conn[n], q, es).closed = conn[n].closed
    BY <1>1, SetQueueFields
  <2>4. ~closed /\ NoneClosing /\ ~conn[n].closed
    BY <2>1, Working
  <2>5. NoneClosing'
    BY <2>1, <2>4, StaysOpen
  <2> QED
    BY <2>1, <2>2, <2>3, <2>4, <2>5, HandlesStep
<1>6. CASE DeferredRaise(n)
  <2> DEFINE c == [conn[n] EXCEPT !.pending_exceptions = TRUE]
  <2>1. /\ MayCall /\ UNCHANGED <<stack, closed, unit, begun, durable>>
        /\ conn' = [conn EXCEPT ![n] = c]
    BY <1>6 DEF DeferredRaise, control
  <2>2. /\ c.pending = conn[n].pending /\ c.failed = conn[n].failed
        /\ c.completion_failed = conn[n].completion_failed /\ c.closed = conn[n].closed
    BY <1>1 DEF ConnectionStates
  <2>3. ~closed /\ NoneClosing /\ ~conn[n].closed
    BY <2>1, Working
  <2>4. NoneClosing'
    BY <2>1, <2>3, StaysOpen
  <2> HIDE DEF c
  <2> QED
    BY <2>1, <2>2, <2>3, <2>4, HandlesStep
<1>7. CASE CommitBegin(n)
  <2>1. /\ MayCall /\ UNCHANGED <<closed, unit, begun, durable>>
        /\ conn' = [conn EXCEPT ![n] = CommitEnters(conn[n])] /\ Push(Frame("commit", n))
        /\ ~conn[n].failed /\ ~conn[n].completion_failed
    BY <1>7 DEF CommitBegin, MayEnter, history, CompletionAllowed, FlagsHaveFrames
  <2>2. Frame("commit", n) \in Frames /\ Frame("commit", n).kind = "commit"
    BY FrameIs DEF Kinds
  <2>3. ~closed /\ NoneClosing /\ ~conn[n].closed
    BY <2>1, Working
  <2>4. NoneClosing'
    BY <2>1, <2>2, <2>3, StaysOpen DEF CloseKinds
  <2>5. /\ CommitEnters(conn[n]).pending = conn[n].pending
        /\ CommitEnters(conn[n]).closed = conn[n].closed
    BY <1>1, CommitEntersFields
  <2> QED
    BY <2>1, <2>3, <2>4, <2>5, HandlesStep
<1>8. ASSUME NEW ok \in BOOLEAN, Rollback(n, ok)
      PROVE  UnitStep(n)
  <2>1. MayCall /\ UNCHANGED <<stack, closed, unit, begun, durable>>
    BY <1>8 DEF Rollback
  <2>2. PICK commit, d, failed :
          /\ commit \in BOOLEAN /\ d = Finish(conn[n], commit, ok)
          /\ conn' = [conn EXCEPT ![n] = [d EXCEPT !.failed = failed]]
    <3> WITNESS FALSE, Finish(conn[n], FALSE, ok), ~ok
    <3> QED
      BY <1>8, Zenon DEF Rollback
  <2> DEFINE c == [d EXCEPT !.failed = failed]
  <2>3. d \in ConnectionStates /\ ~d.pending /\ d.closed = conn[n].closed
    BY <1>1, <2>2, FinishFields
  <2>4. ~c.pending /\ c.closed = conn[n].closed
    BY <2>3 DEF ConnectionStates
  <2>5. conn' = [conn EXCEPT ![n] = c]
    BY <2>2
  <2>6. ~closed /\ NoneClosing /\ ~conn[n].closed
    BY <2>1, Working
  <2>7. NoneClosing'
    BY <2>1, <2>6, StaysOpen
  <2> HIDE DEF c
  <2> QED
    BY <2>1, <2>4, <2>5, <2>6, <2>7, HandlesStep
<1> QED
  BY <1>2, <1>3, <1>4, <1>5, <1>6, <1>7, <1>8 DEF Calls

LEMMA ReturnIsUnitStep ==
  ASSUME IInv, ClosedOK, Returns \/ CommitSteps
  PROVE  \E m \in Names : UnitStep(m)
<1> DEFINE n == Top.name
<1> USE DEF IInv
<1>1. stack # <<>> /\ Top.kind \in {"execute", "write", "commit"}
  BY DEF Returns, CommitSteps, ExecuteReturns, ExecuteFails, WriteReturns, WriteFails,
         CallbackReturns, CommitFails, CallbackBegin, CommitRefused, CommitAccepted,
         CommitUncertain, CommitRepeats, CommitReturns, MayFinish, Drained, Draining, OnTop
<1>2. /\ n \in Names /\ conn[n] \in ConnectionStates /\ Top \in Frames
      /\ Top.kind \notin CloseKinds
  BY <1>1, TopFacts DEF TypeOK, CloseKinds
<1>3. ~closed /\ NoneClosing /\ ~conn[n].closed
  BY <1>1, <1>2, Working
<1>4. Pop => NoneClosing'
  BY <1>1, <1>3, StaysOpen
<1>5. ASSUME NEW f \in Frames, ChangeTop(f), f.kind = Top.kind, f.name = Top.name, f.id = Top.id
      PROVE  NoneClosing'
  BY <1>1, <1>3, <1>5, StaysOpen
<1>6. ASSUME NEW c, conn' = [conn EXCEPT ![n] = c], ~c.closed,
             c.pending => conn[n].pending,
             conn[n].failed \/ conn[n].completion_failed
               => c.failed \/ c.completion_failed \/ ~c.pending,
             NoneClosing', UNCHANGED <<closed, unit, begun, durable>>
      PROVE  UnitStep(n)
  BY <1>1, <1>2, <1>6, HandlesStep
<1>7. ASSUME conn' = conn, NoneClosing', UNCHANGED <<closed, unit, begun, durable>>
      PROVE  UnitStep(n)
  BY <1>3, <1>7 DEF UnitStep, Works, Handles
<1>8. /\ [Top EXCEPT !.run = NoEntry] \in Frames
      /\ \A e \in Entries : [Top EXCEPT !.run = e] \in Frames
      /\ \A q \in Queues : [Top EXCEPT !.queue = q] \in Frames
  BY <1>2 DEF Frames
<1>9. /\ \A e : /\ [Top EXCEPT !.run = e].kind = Top.kind
                /\ [Top EXCEPT !.run = e].name = Top.name
                /\ [Top EXCEPT !.run = e].id = Top.id
      /\ \A q : /\ [Top EXCEPT !.queue = q].kind = Top.kind
                /\ [Top EXCEPT !.queue = q].name = Top.name
                /\ [Top EXCEPT !.queue = q].id = Top.id
  BY <1>2 DEF Frames
<1> HIDE DEF n
<1>10. ASSUME NEW q \in Queues, NEW es \in SUBSET Entries,
              conn' = [conn EXCEPT ![n] = SetQueue(conn[n], q, es)],
              NoneClosing', UNCHANGED <<closed, unit, begun, durable>>
       PROVE  UnitStep(n)
  <2>1. /\ SetQueue(conn[n], q, es).pending = conn[n].pending
        /\ SetQueue(conn[n], q, es).failed = conn[n].failed
        /\ SetQueue(conn[n], q, es).completion_failed = conn[n].completion_failed
        /\ SetQueue(conn[n], q, es).closed = conn[n].closed
    BY <1>2, SetQueueFields
  <2> QED
    BY <1>3, <1>6, <1>10, <2>1
<1>11. CASE ExecuteReturns
  <2> DEFINE c == [conn[n] EXCEPT !.executing = FALSE]
  <2>1. /\ conn' = [conn EXCEPT ![n] = c] /\ Pop
        /\ UNCHANGED <<closed, unit, begun, durable>>
    BY <1>11 DEF ExecuteReturns, n
  <2>2. /\ c.pending = conn[n].pending /\ c.failed = conn[n].failed
        /\ c.completion_failed = conn[n].completion_failed /\ c.closed = conn[n].closed
    BY <1>2 DEF ConnectionStates
  <2> HIDE DEF c
  <2> QED
    BY <1>2, <1>3, <1>4, <1>6, <2>1, <2>2
<1>12. ASSUME NEW ok \in BOOLEAN, ExecuteFails(ok)
       PROVE  UnitStep(n)
  <2> DEFINE e == IF exc = NoError THEN Top.id ELSE exc
  <2>1. /\ conn' = [conn EXCEPT ![n] = Raised(conn[n], e, ok)] /\ Pop
        /\ UNCHANGED <<closed, unit, begun, durable>>
    BY <1>12 DEF ExecuteFails, n
  <2>2. e \in Exceptions
    BY <1>2 DEF TypeOK, Errors, NoError, Other, Exceptions, Frames
  <2> HIDE DEF e
  <2>3. /\ ~Raised(conn[n], e, ok).pending
        /\ Raised(conn[n], e, ok).closed = conn[n].closed
    BY <1>2, <2>2, RaisedFields
  <2> QED
    BY <1>2, <1>3, <1>4, <1>6, <2>1, <2>3
<1>13. CASE WriteReturns
  BY <1>2, <1>4, <1>7, <1>13 DEF WriteReturns, history
<1>14. CASE WriteFails
  <2>1. PICK b : b \in BOOLEAN /\ conn' = [conn EXCEPT ![n] = FailIf(conn[n], b)]
    <3> WITNESS ~RolledBackBy(conn[n], Top, exc)
    <3> QED
      BY <1>14, Zenon DEF WriteFails, n
  <2>2. Pop /\ UNCHANGED <<closed, unit, begun, durable>>
    BY <1>14 DEF WriteFails
  <2>3. /\ FailIf(conn[n], b).pending = conn[n].pending
        /\ FailIf(conn[n], b).closed = conn[n].closed
        /\ FailIf(conn[n], b).completion_failed = conn[n].completion_failed
        /\ conn[n].failed => FailIf(conn[n], b).failed
    BY <1>2, <2>1, FailIfFields
  <2> QED
    BY <1>2, <1>3, <1>4, <1>6, <2>1, <2>2, <2>3
<1>15. CASE CallbackReturns
  <2>1. NoneClosing' /\ UNCHANGED <<closed, unit, begun, durable>>
    BY <1>5, <1>8, <1>9, <1>15 DEF CallbackReturns, history
  <2>2. CASE conn' = conn
    BY <1>2, <1>7, <2>1, <2>2
  <2>3. CASE Usable(n)
    <3> DEFINE es == {e \in conn[n].deferred[Top.queue] : StaysQueued(e, Top.run.callback)}
    <3>1. conn' = [conn EXCEPT ![n] = SetQueue(conn[n], Top.queue, es)]
      BY <1>15, <2>3 DEF CallbackReturns, n
    <3>2. Top.queue \in Queues /\ es \in SUBSET Entries
      BY <1>2 DEF Frames, ConnectionStates
    <3> HIDE DEF es
    <3> QED
      BY <1>2, <1>10, <2>1, <3>1, <3>2
  <2> QED
    BY <1>2, <1>15, <2>2, <2>3 DEF CallbackReturns, n
<1>16. CASE CommitFails
  <2>1. PICK b : /\ b \in BOOLEAN /\ conn' = [conn EXCEPT ![n] = CommitLeaves(FailIf(conn[n], b))]
                 /\ b <=> Top.queue = "before" \/ conn[n].pending
    <3> WITNESS Top.queue = "before" \/ conn[n].pending
    <3> QED
      BY <1>16, Zenon DEF CommitFails, n
  <2>2. Pop /\ UNCHANGED <<closed, unit, begun, durable>>
    BY <1>16 DEF CommitFails, history
  <2> DEFINE g == FailIf(conn[n], b)
  <2>3. /\ g \in ConnectionStates /\ g.pending = conn[n].pending
        /\ g.closed = conn[n].closed
        /\ g.failed <=> conn[n].failed \/ b
    BY <1>2, <2>1, FailIfFields
  <2>4. conn' = [conn EXCEPT ![n] = CommitLeaves(g)]
    BY <2>1
  <2> HIDE DEF g
  <2>5. /\ CommitLeaves(g).pending = g.pending /\ CommitLeaves(g).closed = g.closed
        /\ CommitLeaves(g).failed = g.failed
    BY <2>3, CommitLeavesFields
  <2> QED
    <3> DEFINE c == CommitLeaves(g)
    <3>1. conn[n].pending => c.failed
      BY <2>1, <2>3, <2>5
    <3>2. ~c.closed /\ c.pending = conn[n].pending
      BY <1>3, <2>3, <2>5
    <3>3. NoneClosing' /\ UNCHANGED <<closed, unit, begun, durable>>
      BY <1>4, <2>2
    <3>4. conn' = [conn EXCEPT ![n] = c]
      BY <2>4
    <3> HIDE DEF c
    <3>5. UnitStep(n)
      BY <1>6, <3>1, <3>2, <3>3, <3>4
    <3> QED
      BY <1>2, <3>5
<1>17. CASE CallbackBegin
  <2>0. PICK q \in Queues : \E e \in conn[n].deferred[q] :
          /\ conn' = [conn EXCEPT ![n] = SetQueue(conn[n], q, conn[n].deferred[q] \ {e})]
          /\ ChangeTop([Top EXCEPT !.run = e])
    BY <1>17 DEF CallbackBegin, n
  <2>1. PICK e \in conn[n].deferred[q] :
          /\ conn' = [conn EXCEPT ![n] = SetQueue(conn[n], q, conn[n].deferred[q] \ {e})]
          /\ ChangeTop([Top EXCEPT !.run = e])
    BY <2>0
  <2>2. conn[n].deferred[q] \in SUBSET Entries
    BY <1>2 DEF ConnectionStates
  <2>3. NoneClosing' /\ UNCHANGED <<closed, unit, begun, durable>>
    BY <1>5, <1>8, <1>9, <1>17, <2>1, <2>2 DEF CallbackBegin, history
  <2> QED
    BY <1>2, <1>10, <2>1, <2>2, <2>3
<1>18. CASE CommitRefused
  <2>1. PICK b : b \in BOOLEAN /\ b /\ conn' = [conn EXCEPT ![n] = CommitLeaves(FailIf(conn[n], b))]
    <3> WITNESS TRUE
    <3> QED
      BY <1>18, Zenon DEF CommitRefused, n
  <2>2. Pop /\ UNCHANGED <<closed, unit, begun, durable>>
    BY <1>18 DEF CommitRefused, history
  <2> DEFINE g == FailIf(conn[n], b)
  <2>3. g \in ConnectionStates /\ g.pending = conn[n].pending /\ g.closed = conn[n].closed /\ g.failed
    BY <1>2, <2>1, FailIfFields
  <2>4. conn' = [conn EXCEPT ![n] = CommitLeaves(g)]
    BY <2>1
  <2> HIDE DEF g
  <2>5. /\ CommitLeaves(g).pending = conn[n].pending
        /\ CommitLeaves(g).closed = conn[n].closed /\ CommitLeaves(g).failed
    BY <2>3, CommitLeavesFields
  <2> QED
    BY <1>2, <1>3, <1>4, <1>6, <2>2, <2>4, <2>5
<1>19. CASE MayFinish /\ (CommitAccepted \/ CommitUncertain)
  <2>1. conn[n].pending /\ ~conn[n].failed /\ ~conn[n].completion_failed
    BY <1>19, MayFinishFacts DEF n
  <2>2. PhaseOf(conn[n]) = "open"
    BY <1>3, <2>1 DEF PhaseOf
  <2>3. CASE CommitAccepted
    <3>1. PICK commit, ok :
            /\ commit \in BOOLEAN /\ ok \in BOOLEAN /\ commit /\ ok
            /\ conn' = [conn EXCEPT ![n] = Finish(conn[n], commit, ok)]
      <4> WITNESS TRUE, TRUE
      <4> QED
        BY <2>3, Zenon DEF CommitAccepted, n
    <3>2. /\ durable' = durable \cup {unit[n]} /\ UNCHANGED <<closed, unit, begun>>
          /\ ChangeTop([Top EXCEPT !.queue = "after"])
      BY <2>3 DEF CommitAccepted, n
    <3>3. conn'[n] = Finish(conn[n], commit, ok) /\ \A m \in Names \ {n} : conn'[m] = conn[m]
      BY <1>2, <3>1 DEF TypeOK
    <3>4. /\ ~conn'[n].pending /\ ~conn'[n].failed /\ ~conn'[n].completion_failed
          /\ ~conn'[n].closed
      <4> DEFINE g == Finish(conn[n], commit, ok)
      <4>1. /\ ~g.pending /\ g.completion_failed = conn[n].completion_failed
            /\ g.closed = conn[n].closed
            /\ g.failed <=> IF conn[n].pending THEN ~ok
                            ELSE conn[n].outcome = "unknown" /\ conn[n].failed
        BY <1>2, <3>1, FinishFields
      <4> HIDE DEF g
      <4>2. conn'[n] = g
        BY <3>3 DEF g
      <4> QED
        BY <1>3, <2>1, <3>1, <4>1, <4>2
    <3>5. NoneClosing'
      <4>1. [Top EXCEPT !.queue = "after"] \in Frames
        BY <1>8 DEF Queues
      <4> QED
        BY <1>5, <1>9, <3>2, <4>1
    <3>6. Works(n)
      BY <1>3, <3>2, <3>3, <3>4, <3>5 DEF Works
    <3>7. PhaseOf(conn'[n]) = "idle"
      BY <3>4 DEF PhaseOf
    <3> QED
      BY <1>2, <2>2, <3>2, <3>6, <3>7 DEF UnitStep, Completes
  <2>4. CASE CommitUncertain
    <3>1. PICK commit, ok, g :
            /\ commit \in BOOLEAN /\ ok \in BOOLEAN /\ commit /\ ~ok
            /\ g = Finish(conn[n], commit, ok)
            /\ conn' = [conn EXCEPT ![n] = CommitLeaves(g)]
      <4> WITNESS TRUE, FALSE, Finish(conn[n], TRUE, FALSE)
      <4> QED
        BY <2>4, Zenon DEF CommitUncertain, n
    <3>2. /\ durable' \in {durable, durable \cup {unit[n]}} /\ UNCHANGED <<closed, unit, begun>>
          /\ Pop
      BY <2>4 DEF CommitUncertain, n
    <3>3. g \in ConnectionStates /\ ~g.pending /\ g.failed /\ ~g.closed
      <4>1. /\ g \in ConnectionStates /\ ~g.pending /\ g.closed = conn[n].closed
            /\ g.failed <=> IF conn[n].pending THEN ~ok
                            ELSE conn[n].outcome = "unknown" /\ conn[n].failed
        <5>1. /\ conn[n] \in ConnectionStates /\ commit \in BOOLEAN /\ ok \in BOOLEAN
              /\ g = Finish(conn[n], commit, ok)
          BY <1>2, <3>1
        <5> QED
          BY <5>1, FinishFields, SMTT(60)
      <4> QED
        BY <1>3, <2>1, <3>1, <4>1
    <3>4. conn'[n] = CommitLeaves(g) /\ \A m \in Names \ {n} : conn'[m] = conn[m]
      BY <1>2, <3>1 DEF TypeOK
    <3>5. conn'[n].failed /\ ~conn'[n].closed
      BY <3>3, <3>4, CommitLeavesFields
    <3>6. Works(n)
      BY <1>3, <1>4, <3>2, <3>4, <3>5 DEF Works
    <3>7. PhaseOf(conn'[n]) = "blocked"
      BY <3>5 DEF PhaseOf
    <3> QED
      BY <1>2, <2>2, <3>2, <3>6, <3>7 DEF UnitStep, Completes
  <2> QED
    BY <1>19, <2>3, <2>4
<1>20. CASE CommitRepeats
  <2>1. [Top EXCEPT !.queue = "before"] \in Frames
    BY <1>8 DEF Queues
  <2> QED
    BY <1>2, <1>5, <1>7, <1>9, <1>20, <2>1 DEF CommitRepeats, history
<1>21. CASE CommitReturns
  <2>1. /\ conn' = [conn EXCEPT ![n] = CommitLeaves(conn[n])] /\ Pop /\ ~conn[n].pending
        /\ UNCHANGED <<closed, unit, begun, durable>>
    BY <1>21 DEF CommitReturns, NeedsCommit, history, n
  <2>2. /\ CommitLeaves(conn[n]).pending = conn[n].pending
        /\ CommitLeaves(conn[n]).closed = conn[n].closed
    BY <1>2, CommitLeavesFields
  <2> QED
    BY <1>2, <1>3, <1>4, <1>6, <2>1, <2>2
<1>22. (CommitAccepted \/ CommitUncertain) => MayFinish
  BY DEF CommitAccepted, CommitUncertain
<1>23. ASSUME Returns  PROVE \E m \in Names : UnitStep(m)
  BY <1>2, <1>11, <1>12, <1>13, <1>14, <1>15, <1>16, <1>23 DEF Returns
<1>24. ASSUME CommitSteps  PROVE \E m \in Names : UnitStep(m)
  BY <1>2, <1>17, <1>18, <1>19, <1>20, <1>21, <1>22, <1>24 DEF CommitSteps
<1> QED
  BY <1>23, <1>24

\* A close releases one name at a time, and the states it drops are all idle.
LEMMA CloseIsRelease ==
  ASSUME IInv, ClosedOK, CloseSteps
  PROVE  ClosedOK' /\ [Abstract!Next]_(Abstract!abstractVars)
<1> USE DEF IInv
<1>1. Closing /\ UNCHANGED <<unit, begun, durable>>
  BY DEF CloseSteps, CloseStep, CloseEnd, history
<1>2. /\ stack # <<>> /\ Top \in Frames /\ Top.kind \in CloseKinds
      /\ Len(stack) = 1 /\ DOMAIN stack = {1} /\ stack[1] = Top
  BY <1>1, ClosingFacts
<1>3. ASSUME NEW n \in Names, NEW rolledBack \in BOOLEAN, NEW released \in BOOLEAN,
             CloseStep(n, rolledBack, released)
      PROVE  ClosedOK' /\ [Abstract!Next]_(Abstract!abstractVars)
  <2> DEFINE f == [Top EXCEPT !.todo = @ \ {n}]
  <2>1. ChangeTop(f) /\ UNCHANGED closed /\ f \in Frames /\ f.kind = Top.kind
        /\ f.name = Top.name /\ f.id = Top.id /\ f.todo = Top.todo \ {n}
    BY <1>2, <1>3 DEF CloseStep, Frames
  <2>2. PICK s : conn' = [conn EXCEPT ![n] = [s EXCEPT !.connection = FALSE, !.closed = TRUE,
                                                       !.executing = FALSE]]
                 /\ s \in ConnectionStates
    <3>1. PICK commit : commit \in BOOLEAN /\ ~commit
                        /\ conn' = [conn EXCEPT ![n] = [Finish(conn[n], commit, rolledBack) EXCEPT
                              !.connection = FALSE, !.closed = TRUE, !.executing = FALSE]]
      <4> WITNESS FALSE
      <4> QED
        BY <1>3, Zenon DEF CloseStep
    <3>2. conn[n] \in ConnectionStates
      BY DEF TypeOK
    <3>3. Finish(conn[n], commit, rolledBack) \in ConnectionStates
      BY <3>1, <3>2, FinishFields
    <3> QED
      BY <3>1, <3>3
  <2> DEFINE c == [s EXCEPT !.connection = FALSE, !.closed = TRUE, !.executing = FALSE]
  <2>3. c.closed
    BY <2>2 DEF ConnectionStates
  <2>4. conn' = [conn EXCEPT ![n] = c]
    BY <2>2
  <2> HIDE DEF c
  <2>5. conn'[n] = c /\ \A m \in Names \ {n} : conn'[m] = conn[m]
    BY <2>4 DEF TypeOK
  <2> HIDE DEF f
  <2>6. DOMAIN stack' = {1} /\ stack'[1] = f
    <3>1. /\ Len(stack') = Len(stack) /\ DOMAIN stack' = 1..Len(stack)
          /\ stack'[Len(stack)] = f
      BY <1>2, <2>1, ChangeTopFacts
    <3> QED
      BY <1>2, <3>1
  <2>7. ClosedOK'
    <3>1. \A m \in Names \ Top.todo : conn[m].closed
      BY <1>2 DEF ClosedOK
    <3>2. ~closed /\ ~closed'
      BY <1>2, <2>1 DEF ClosedOK
    <3>3. ~NoneClosing'
      BY <1>2, <2>1, <2>6 DEF NoneClosing
    <3>4. \A m \in Names \ f.todo : conn'[m].closed
      BY <2>1, <2>3, <2>5, <3>1
    <3> QED
      BY <2>6, <3>2, <3>3, <3>4 DEF ClosedOK
  <2>8. Abstract!Release(n)
    <3>1. PhaseOf(conn'[n]) = "idle"
      BY <2>3, <2>5 DEF PhaseOf
    <3>2. [m \in Names |-> PhaseOf(conn'[m])] =
            [[m \in Names |-> PhaseOf(conn[m])] EXCEPT ![n] = "idle"]
      BY <2>5, <3>1, PhaseSet
    <3> QED
      BY <1>1, <3>2 DEF Abstract!Release, PhaseOf
  <2> QED
    BY <2>7, <2>8 DEF Abstract!Next
<1>4. CASE CloseEnd
  <2>1. Top.todo = {} /\ Pop
    BY <1>4 DEF CloseEnd, AllClosed
  <2>2. \A m \in Names : conn[m].closed
    BY <1>2, <2>1 DEF ClosedOK
  <2>3. DOMAIN stack' = {} /\ stack' = <<>>
    <3>1. DOMAIN stack' = 1..(Len(stack) - 1) /\ stack' \in Seq(Frames)
      BY <1>2, <2>1, PopFacts
    <3>2. DOMAIN stack' = {}
      BY <1>2, <3>1
    <3>3. Len(stack') = 0
      BY <3>1, <3>2, LenProperties
    <3> QED
      BY <3>1, <3>2, <3>3, EmptySeq
  <2>4. \/ closed' /\ conn' = conn
        \/ conn' = [m \in Names |-> NewConnection]
    BY <1>4 DEF CloseEnd
  <2>5. ClosedOK'
    BY <2>3, <2>4 DEF ClosedOK, NewConnection
  <2>6. [m \in Names |-> PhaseOf(conn'[m])] = [m \in Names |-> PhaseOf(conn[m])]
    <3>1. \A m \in Names : PhaseOf(conn[m]) = "idle" /\ PhaseOf(conn'[m]) = "idle"
      BY <2>2, <2>4 DEF PhaseOf, NewConnection
    <3> QED
      BY <3>1
  <2>7. UNCHANGED Abstract!abstractVars
    BY <1>1, <2>6 DEF Abstract!abstractVars, PhaseOf
  <2> QED
    BY <2>5, <2>7
<1> QED
  BY <1>3, <1>4 DEF CloseSteps

LEMMA NextUnitOfWork ==
  ASSUME IInv, ClosedOK, [Next]_vars
  PROVE  ClosedOK' /\ [Abstract!Next]_(Abstract!abstractVars)
<1>1. ASSUME NEW n \in Names, UnitStep(n)
      PROVE  ClosedOK' /\ [Abstract!Next]_(Abstract!abstractVars)
  <2>1. Works(n)
    BY <1>1 DEF UnitStep
  <2> QED
    BY <1>1, <2>1, ClosedKept, UnitOfWorkStep
<1>2. CASE UNCHANGED <<conn, stack, closed, unit, begun, durable>>
  <2>1. UNCHANGED Abstract!abstractVars
    BY <1>2 DEF Abstract!abstractVars
  <2> QED
    BY <1>2, <2>1 DEF ClosedOK, NoneClosing
<1>3. ASSUME NEW kind \in {"closeConnection", "close"}, CloseBegin(kind)
      PROVE  ClosedOK' /\ [Abstract!Next]_(Abstract!abstractVars)
  <2>1. /\ MayCall /\ UNCHANGED <<conn, closed, unit, begun, durable>>
        /\ \E n \in Names : stack' = Append(stack, [Frame(kind, n) EXCEPT !.todo = Names])
    BY <1>3 DEF CloseBegin, MayEnter, history
  <2>2. PICK n \in Names : stack' = Append(stack, [Frame(kind, n) EXCEPT !.todo = Names])
    BY <2>1
  <2> DEFINE f == [Frame(kind, n) EXCEPT !.todo = Names]
  <2>3. f \in Frames /\ f.todo = Names
    BY DEF Frame, Frames, Kinds, Queues, NoEntry
  <2>4. ~closed /\ NoneClosing /\ \A m \in Names : ~conn[m].closed
    BY <2>1, Working
  <2>5. Push(f)
    BY <2>2 DEF Push
  <2> HIDE DEF f
  <2>6. /\ Len(stack) \in Nat
        /\ DOMAIN stack = 1..Len(stack) /\ DOMAIN stack' = 1..(Len(stack) + 1)
        /\ \A i \in DOMAIN stack : stack'[i] = stack[i]
        /\ stack'[Len(stack) + 1] = f
    BY <2>3, <2>5, PushFacts DEF IInv
  <2>7. \A i \in DOMAIN stack' : i \in DOMAIN stack \/ i = Len(stack) + 1
    BY <2>6
  <2>8. \A i \in DOMAIN stack' : stack'[i].kind \in CloseKinds => stack'[i].todo = Names
    BY <2>3, <2>4, <2>6, <2>7 DEF NoneClosing
  <2>9. ClosedOK'
    BY <2>1, <2>4, <2>8 DEF ClosedOK
  <2>10. UNCHANGED Abstract!abstractVars
    BY <2>1 DEF Abstract!abstractVars
  <2> QED
    BY <2>9, <2>10
<1>4. CASE \E e \in {Other, held} \ {NoError} : UserRaise(e)
  BY <1>2, <1>4 DEF UserRaise, history
<1>5. CASE UserCatch
  BY <1>2, <1>5 DEF UserCatch
<1>6. CASE UNCHANGED vars
  BY <1>2, <1>6 DEF vars, control, history
<1>7. CASE \E n \in Names : Calls(n)
  BY <1>1, <1>7, CallIsUnitStep
<1>8. CASE Returns \/ CommitSteps
  BY <1>1, <1>8, ReturnIsUnitStep
<1>9. CASE CloseSteps
  BY <1>9, CloseIsRelease
<1> QED
  BY <1>3, <1>4, <1>5, <1>6, <1>7, <1>8, <1>9 DEF Next

\* Each connection name is a unit of work: only an open, unblocked unit
\* becomes durable, as a whole, and a rollback-only connection opens nothing
\* until it is released (_finish, _commit_pending, _close_connection).
THEOREM ConnectionsAreUnitsOfWork == Spec => ImplementsUnitOfWork
<1>1. Init => ClosedOK /\ Abstract!Init
  BY DEF Init, ClosedOK, NoneClosing, NewConnection, Abstract!Init
<1>2. IInv /\ ClosedOK /\ [Next]_vars => ClosedOK' /\ [Abstract!Next]_(Abstract!abstractVars)
  BY NextUnitOfWork
<1> QED
  BY <1>1, <1>2, Invariance, PTL DEF Spec, Abstract!Spec, ImplementsUnitOfWork

=============================================================================
