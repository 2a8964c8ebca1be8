--------------------------- MODULE DeferredQueue ---------------------------
(***************************************************************************)
(* One queue of deferred callbacks (runtime.py, _defer, _drain_deferred,   *)
(* _clear_deferred): blocks in the order of their names, entries of a      *)
(* block in the order they were first registered, one entry for each       *)
(* callback and _deferredId.  The arguments of an entry are shared with    *)
(* every caller that registers it again, so an entry collects what all of  *)
(* them have asked for.  Callbacks register more while the queue is        *)
(* drained; nobody else can, for the drain holds the thread.  A callback   *)
(* that raises ends the drain and leaves the entries it has not reached;   *)
(* they wait for the next drain, or for a rollback.  Whether there may be  *)
(* one is for the connection to say (Connections): the after-queue goes on *)
(* with a later commit, the before-queue waits to be cleared.              *)
(***************************************************************************)
EXTENDS Naturals, Sequences, SequencesExt, FiniteSets

CONSTANTS Blocks,           \* names of blocks, ordered
          Callbacks,        \* callbacks with their _deferredId
          Recursive,        \* those with deferredCommitRecursion
          Nobody,             \* no callback is running
          MaxRegistrations  \* bound: calls of deferToCommit

ASSUME DeferredAssumption ==
  /\ Blocks \subseteq Nat /\ IsFiniteSet(Blocks)
  /\ Recursive \subseteq Callbacks
  /\ Nobody \notin Blocks \X Callbacks
  /\ MaxRegistrations \in Nat

VARIABLES blocks,  \* per block: its entries, the callback and what it collects
          block,   \* the block that is drained, zero when there is none
          running, \* the entry that runs
          mode,   \* idle, draining
          made,    \* observer: per registration, its entry and who made it
          ran,     \* observer: the entries that have run, in this drain or one cut short
          begun,   \* observer: how many had run when this drain began
          asked    \* observer, per block: the callbacks the drain began with, in order

queueVars == <<blocks, block, running, mode, made, ran, begun, asked>>

Entry(b, c) == <<b, c>>
Empty == [b \in Blocks |-> << >>]
Place(entries, c) == {k \in DOMAIN entries : entries[k].callback = c}

QueueInit ==
  /\ blocks = Empty /\ block = 0 /\ running = Nobody
  /\ mode = "idle" /\ made = << >> /\ ran = << >>
  /\ begun = 0 /\ asked = Empty

(* Mutant: an entry that is registered again goes to the end. *)
QueuedLast(entries, c, n) ==
  LET same == SelectSeq(entries, LAMBDA e : e.callback = c) IN
    Append(SelectSeq(entries, LAMBDA e : e.callback # c),
           [callback |-> c, collects |-> {n} \cup UNION {same[k].collects : k \in DOMAIN same}])

(* _defer: the entry that is there keeps its place and collects more.      *)
Queued(entries, c, n) ==
  IF Place(entries, c) # {}
  THEN [k \in DOMAIN entries |->
          IF k \in Place(entries, c) THEN [entries[k] EXCEPT !.collects = @ \cup {n}]
          ELSE entries[k]]
  ELSE Append(entries, [callback |-> c, collects |-> {n}])

Defer(b, c) ==
  /\ mode = "idle" \/ running # Nobody
  /\ Len(made) < MaxRegistrations
  /\ blocks' = [blocks EXCEPT ![b] = Queued(@, c, Len(made) + 1)]
  /\ made' = Append(made, [entry |-> Entry(b, c), during |-> running])
  /\ UNCHANGED <<block, running, mode, ran, begun, asked>>

-----------------------------------------------------------------------------
(* _drain_deferred *)
Filled == {b \in Blocks : blocks[b] # << >>}
First(names) == CHOOSE b \in names : \A d \in names : b <= d
Listed == [b \in Blocks |-> [k \in DOMAIN blocks[b] |-> blocks[b][k].callback]]

DrainBegin ==
  /\ mode = "idle"
  /\ mode' = "draining" /\ begun' = Len(ran) /\ asked' = Listed
  /\ UNCHANGED <<blocks, block, running, made, ran>>

(* The block goes on until it is empty, whatever came before it meanwhile. *)
NextBlock == IF block # 0 THEN block ELSE First(Filled)
CallbackBegin ==
  /\ mode = "draining" /\ running = Nobody
  /\ Filled # {} /\ blocks[NextBlock] # << >>
  /\ LET b == NextBlock
         e == Head(blocks[b])
     IN  /\ block' = b
         /\ blocks' = [blocks EXCEPT ![b] = Tail(@)]
         /\ running' = Entry(b, e.callback)
         /\ ran' = Append(ran, [entry |-> Entry(b, e.callback), collects |-> e.collects])
  /\ UNCHANGED <<mode, made, begun, asked>>

(* Mutant: every entry stays that its own callback queued. *)
KeptAlways(entries, c) == entries

(* An entry its own callback has queued again goes, unless it is recursive.*)
Kept(entries, c) ==
  IF c \in Recursive \/ Place(entries, c) = {} THEN entries
  ELSE RemoveAt(entries, CHOOSE k \in Place(entries, c) : TRUE)
CallbackReturns ==
  /\ running # Nobody
  /\ blocks' = [blocks EXCEPT ![block] = Kept(@, running[2])]
  /\ running' = Nobody
  /\ UNCHANGED <<block, mode, made, ran, begun, asked>>

(* Mutant: the block whose entries are done is not taken out. *)
BlockEndsUnpopped ==
  /\ mode = "draining" /\ running = Nobody /\ block # 0 /\ blocks[block] = << >>
  /\ UNCHANGED queueVars

BlockEnds ==
  /\ mode = "draining" /\ running = Nobody /\ block # 0 /\ blocks[block] = << >>
  /\ block' = 0
  /\ UNCHANGED <<blocks, running, mode, made, ran, begun, asked>>

(* Nothing is queued, and what was registered is settled. *)
Forgets == blocks' = Empty /\ made' = << >> /\ ran' = << >>
NoDrain == block' = 0 /\ running' = Nobody /\ mode' = "idle" /\ begun' = 0 /\ asked' = Empty

DrainEnds ==
  /\ mode = "draining" /\ running = Nobody /\ block = 0 /\ Filled = {}
  /\ NoDrain /\ Forgets

(* Mutant: what the drain has not reached goes with the exception. *)
CallbackRaisesForgets ==
  /\ running # Nobody
  /\ NoDrain /\ blocks' = Empty /\ UNCHANGED <<made, ran>>

(* A callback raises: the exception leaves the drain, and what it has not  *)
(* reached stays, with what the callback has queued for itself.            *)
CallbackRaises ==
  /\ running # Nobody
  /\ NoDrain /\ UNCHANGED <<blocks, made, ran>>

(* A statement of the callback fails: _finish has cleared the queue, and   *)
(* the connection is unusable when the callback gives back control.        *)
ExecutionFails == running # Nobody /\ NoDrain /\ Forgets

(* _clear_deferred, of a rollback or of a connection that is closed.       *)
Clear == mode = "idle" /\ NoDrain /\ Forgets

QueueNext ==
  \/ \E b \in Blocks, c \in Callbacks : Defer(b, c)
  \/ DrainBegin \/ CallbackBegin \/ CallbackReturns \/ BlockEnds \/ DrainEnds
  \/ CallbackRaises \/ ExecutionFails \/ Clear

(* The drain is a loop of one thread: it goes on, and a callback ends.     *)
QueueFairness ==
  /\ WF_queueVars(CallbackBegin) /\ WF_queueVars(CallbackReturns)
  /\ WF_queueVars(BlockEnds) /\ WF_queueVars(DrainEnds)
QueueSpec == QueueInit /\ [][QueueNext]_queueVars /\ QueueFairness

-----------------------------------------------------------------------------
Before(b, k, d, l) == b < d \/ (b = d /\ k < l)
Ran(entry) == \E k \in DOMAIN ran : k > begun /\ ran[k].entry = entry

(* What was queued when the drain began runs in the order of blocks, then  *)
(* of first registration, whatever the callbacks queue meanwhile.          *)
AskedInOrder ==
  \A b, d \in Blocks : \A k \in DOMAIN asked[b], l \in DOMAIN asked[d] :
    (Before(b, k, d, l) /\ Ran(Entry(d, asked[d][l]))) => Ran(Entry(b, asked[b][k]))

(* What becomes of a registration. *)
Served(n) == \E k \in DOMAIN ran : n \in ran[k].collects
Waits(n) == \E b \in Blocks : \E k \in DOMAIN blocks[b] : n \in blocks[b][k].collects
ForItself(n) == made[n].during = made[n].entry /\ made[n].entry[2] \notin Recursive

(* A registration is served by one run and then waits no longer, and until *)
(* it is served it waits, but for those a callback made for itself and may *)
(* not make; an exception that cuts the drain short changes nothing of it. *)
ServedOnce ==
  /\ \A i, j \in DOMAIN ran : ran[i].collects \cap ran[j].collects # {} => i = j
  /\ \A n \in DOMAIN made :
       /\ ~(Served(n) /\ Waits(n))
       /\ Served(n) \/ Waits(n) \/ ForItself(n)

(* A drain serves what was queued: in order, once and all of it, in        *)
(* several drains when callbacks raise.  (_drain_deferred)                 *)
ServesTheQueue == AskedInOrder /\ ServedOnce

(* Every drain ends, for callbacks that register finitely often.           *)
DrainTerminates == (mode = "draining") ~> (mode = "idle")

(* The queue implements the unordered one of Connections.                  *)
Waiting(queues) == UNION {{Entry(b, queues[b][k].callback) : k \in DOMAIN queues[b]} : b \in Blocks}
Set == INSTANCE DeferredSet WITH
  Keys <- Blocks \X Callbacks, Repeatable <- Blocks \X Recursive, Nothing <- Nobody,
  queued <- Waiting(blocks),
  draining <- mode = "draining"
ImplementsSet == Set!Spec
=============================================================================
