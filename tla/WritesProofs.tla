---------------------------- MODULE WritesProofs ----------------------------
(***************************************************************************)
(* What table writes promise holds for every set of threads, rows and      *)
(* columns, and at every depth of hooks: the call stacks, the locks and    *)
(* the snapshots of the writes in progress, one layer on the other.        *)
(***************************************************************************)
EXTENDS Writes, SequenceTheorems, FiniteSetTheorems, TLAPS

(* An ordinary update or delete that has read the row it works on. *)
HasRead(f) == f.op \in {"update", "delete"} /\ ~f.raw /\ f.phase \in {"before", "after", "failed"}

(* What a write in progress is, whatever its hooks do. *)
FrameOK(t, f) ==
  /\ f.id \in 1..Len(within) /\ f.id \notin broken
  /\ f.op = "batch" <=> f.phase = "batch"
  /\ f.op = "insert" => f.set = Columns
  /\ f.op = "insert" \/ f.raw => f.phase # "read"
  /\ HasRead(f) => f.old \in [Columns -> 0..Len(within)] /\ \E k \in Keys : f.keys = {k}
  /\ f.unit <= unit[t]

FramesOK ==
  \A t \in Threads : \A i \in DOMAIN stack[t] :
    FrameOK(t, stack[t][i]) /\ (i < Len(stack[t]) => stack[t][i].phase # "read")

(* Writes have numbers of their own, and the stack tells what a write was  *)
(* entered in.                                                             *)
IdsOK ==
  /\ \A t, u \in Threads : \A i \in DOMAIN stack[t], j \in DOMAIN stack[u] :
       stack[t][i].id = stack[u][j].id => t = u /\ i = j
  /\ \A t \in Threads : \A i \in DOMAIN stack[t] :
       within[stack[t][i].id] = {stack[t][j].id : j \in 1..(i - 1)}
  /\ \A w \in DOMAIN within : within[w] \subseteq 1..(w - 1)

(* A unit is open from its first statement to its end or its failure.      *)
UnitsOK ==
  \A t \in Threads :
    /\ conn[t].pending => unit[t] > 0 /\ conn[t].execution_error = NoError
    /\ Running(t, {"read"}) => Usable(t)

(* Rows are locked by open units, and free ones are as committed.          *)
LocksOK ==
  \A k \in Keys :
    /\ \A t \in Threads : lock[k] = t => conn[t].pending
    /\ lock[k] = Nobody => own[k] = committed[k]
    /\ own[k] \in [Columns -> 0..Len(within)] \cup {Absent}
    /\ committed[k] \in [Columns -> 0..Len(within)] \cup {Absent}

Shape == TypeOK /\ FramesOK /\ IdsOK /\ UnitsOK /\ LocksOK

-----------------------------------------------------------------------------
(* A write between its locked read and its statement, in the unit of both. *)
Snapshot(t, f) == HasRead(f) /\ f.phase = "before" /\ conn[t].pending /\ f.unit = unit[t]

(* The value is what the write read, or from a write of its hooks. *)
Known(f, c, w) == w = f.old[c] \/ (w \in DOMAIN within /\ f.id \in within[w])

SnapshotsHold ==
  \A t \in Threads : \A i \in DOMAIN stack[t] : Snapshot(t, stack[t][i]) =>
    \A k \in stack[t][i].keys :
      /\ lock[k] = t
      /\ own[k] = Absent \/ \A c \in Columns : Known(stack[t][i], c, own[k][c])

(* A write of a hook reads what the write around it knows, in its unit or  *)
(* a later one.                                                            *)
SnapshotsNest ==
  \A t \in Threads : \A i, j \in DOMAIN stack[t] :
    i < j /\ Snapshot(t, stack[t][i]) /\ HasRead(stack[t][j]) =>
      /\ stack[t][i].unit <= stack[t][j].unit
      /\ stack[t][i].unit = stack[t][j].unit =>
           \A k \in stack[t][i].keys \cap stack[t][j].keys : \A c \in Columns :
             Known(stack[t][i], c, stack[t][j].old[c])

SnapshotIInv == SnapshotsHold /\ SnapshotsNest

-----------------------------------------------------------------------------
(* The writes a row has its values from. *)
Values(row) == {row[c] : c \in Columns} \ {0}

(* No write it comes from has been left by an exception; and of the writes *)
(* it comes from none is in progress, or only below j, or only on this     *)
(* stack, where they are past their locked read.                           *)
Unbroken(w) == Family(w) \cap broken = {}
NoneIn(w) == \A u \in Threads : \A i \in DOMAIN stack[u] : stack[u][i].id \notin Family(w)
StaysBelow(t, j, w) ==
  \A u \in Threads : \A i \in DOMAIN stack[u] : stack[u][i].id \in Family(w) => u = t /\ i < j
OnlyIn(t, w) ==
  \A u \in Threads : \A i \in DOMAIN stack[u] :
    stack[u][i].id \in Family(w) => u = t /\ stack[u][i].phase # "read"

(* What a write has read is from writes that ended well or that it is in.  *)
ReadsAreClean ==
  \A t \in Threads : \A j \in DOMAIN stack[t] : HasRead(stack[t][j]) =>
    \A w \in Values(stack[t][j].old) : Unbroken(w) /\ StaysBelow(t, j, w)

(* What a unit has written is from writes that ended well, or that its     *)
(* thread is in, or the unit is not going to be accepted.                  *)
OwnIsClean ==
  \A t \in Threads, k \in Keys : lock[k] = t /\ own[k] # Absent =>
    \A w \in Values(own[k]) : (Unbroken(w) \/ conn[t].failed) /\ OnlyIn(t, w)

CommittedIsClean ==
  \A k \in Keys : committed[k] # Absent =>
    \A w \in Values(committed[k]) : Unbroken(w) /\ NoneIn(w)

CleanIInv == ReadsAreClean /\ OwnIsClean /\ CommittedIsClean

-----------------------------------------------------------------------------
(* The value of the row was committed, or is from a write of this unit.    *)
Genuine(t, k, c, w) ==
  (committed[k] # Absent /\ w = committed[k][c]) \/ <<w, unit[t]>> \in touched

OwnIsGenuine ==
  \A t \in Threads : conn[t].pending /\ unit[t] \notin stale =>
    /\ \A k \in Keys : lock[k] = t /\ own[k] # Absent =>
         \A c \in Columns : Genuine(t, k, c, own[k][c])
    /\ \A i \in DOMAIN stack[t] : Snapshot(t, stack[t][i]) =>
         \A k \in stack[t][i].keys : \A c \in Columns : Genuine(t, k, c, stack[t][i].old[c])

-----------------------------------------------------------------------------
(* The sequence r lists the d[i] of the numbers in I in their order.       *)
Rank(I, i) == Cardinality({j \in I : j <= i})
Lists(I, d, r) == Len(r) = Cardinality(I) /\ \A i \in I : r[Rank(I, i)] = d[i]

Ids(t) == [i \in DOMAIN stack[t] |-> stack[t][i].id]

-----------------------------------------------------------------------------
(* What a step does to the call stacks. *)

(* The frame of a write goes on as another: of the write, only what its    *)
(* hooks assigned and how far it is may change.                            *)
Follows(f, g) ==
  /\ g.id = f.id /\ g.op = f.op /\ g.raw = f.raw
  /\ g.keys = f.keys /\ g.old = f.old /\ g.unit = f.unit
  /\ g.set = f.set \/ f.op = "update"
  /\ g.phase = f.phase \/ (f.phase = "before" /\ g.phase \in {"after", "failed"})

OthersRest(t) ==
  \A u \in Threads \ {t} :
    /\ conn'[u] = conn[u] /\ stack'[u] = stack[u] /\ triggers'[u] = triggers[u]
    /\ exc'[u] = exc[u] /\ unit'[u] = unit[u]

StackFollows(t) ==
  /\ DOMAIN stack'[t] = DOMAIN stack[t] /\ Len(stack'[t]) = Len(stack[t])
  /\ \A i \in DOMAIN stack[t] : Follows(stack[t][i], stack'[t][i])

(* What is pushed: a write that has done nothing yet. *)
Fresh(g) ==
  /\ g \in Frames /\ g.unit = 0
  /\ g.op = "batch" <=> g.phase = "batch"
  /\ g.op = "insert" => g.set = Columns
  /\ g.op = "insert" \/ g.raw => g.phase # "read"
  /\ ~HasRead(g)

LEMMA SeqIs ==
  ASSUME NEW S, NEW s \in Seq(S)
  PROVE  Len(s) \in Nat /\ DOMAIN s = 1..Len(s) /\ \A i \in 1..Len(s) : s[i] \in S
  BY LenProperties, ElementOfSeq

LEMMA PushIs ==
  ASSUME NEW S, NEW s \in Seq(S), NEW f \in S
  PROVE  /\ Append(s, f) \in Seq(S)
         /\ Len(Append(s, f)) = Len(s) + 1
         /\ DOMAIN Append(s, f) = 1..(Len(s) + 1)
         /\ \A i \in 1..Len(s) : Append(s, f)[i] = s[i]
         /\ Append(s, f)[Len(s) + 1] = f
  BY AppendProperties, LenProperties

LEMMA PopIs ==
  ASSUME NEW S, NEW s \in Seq(S), s # << >>
  PROVE  /\ Len(s) \in Nat \ {0} /\ DOMAIN s = 1..Len(s) /\ \A i \in 1..Len(s) : s[i] \in S
         /\ SubSeq(s, 1, Len(s) - 1) \in Seq(S)
         /\ Len(SubSeq(s, 1, Len(s) - 1)) = Len(s) - 1
         /\ DOMAIN SubSeq(s, 1, Len(s) - 1) = 1..(Len(s) - 1)
         /\ \A i \in 1..(Len(s) - 1) : SubSeq(s, 1, Len(s) - 1)[i] = s[i]
<1> DEFINE n == Len(s) - 1
<1>1. /\ Len(s) \in Nat \ {0} /\ n \in Nat /\ DOMAIN s = 1..Len(s)
      /\ \A i \in 1..Len(s) : s[i] \in S
  BY EmptySeq, SeqIs
<1>2. \A i \in 1..n : s[i] \in S
  BY <1>1
<1>3. /\ SubSeq(s, 1, n) \in Seq(S)
      /\ Len(SubSeq(s, 1, n)) = IF 1 <= n THEN n - 1 + 1 ELSE 0
      /\ \A i \in 1..(n - 1 + 1) : SubSeq(s, 1, n)[i] = s[1 + i - 1]
  BY <1>1, <1>2, SubSeqProperties
<1>4. n - 1 + 1 = n /\ \A i \in 1..n : 1 + i - 1 = i
  BY <1>1
<1>5. DOMAIN SubSeq(s, 1, n) = 1..Len(SubSeq(s, 1, n))
  BY <1>3, LenProperties
<1> QED
  BY <1>1, <1>3, <1>4, <1>5

LEMMA ChangeTopIs ==
  ASSUME NEW S, NEW s \in Seq(S), s # << >>, NEW f \in S
  PROVE  LET new == Append(SubSeq(s, 1, Len(s) - 1), f) IN
         /\ new \in Seq(S) /\ Len(new) = Len(s) /\ DOMAIN new = DOMAIN s
         /\ \A i \in 1..(Len(s) - 1) : new[i] = s[i]
         /\ new[Len(s)] = f
<1> DEFINE b == SubSeq(s, 1, Len(s) - 1)
<1>1. /\ Len(s) \in Nat \ {0} /\ DOMAIN s = 1..Len(s) /\ b \in Seq(S) /\ Len(b) = Len(s) - 1
      /\ \A i \in 1..(Len(s) - 1) : b[i] = s[i]
  BY PopIs
<1> HIDE DEF b
<1>2. /\ Append(b, f) \in Seq(S)
      /\ Len(Append(b, f)) = Len(b) + 1
      /\ DOMAIN Append(b, f) = 1..(Len(b) + 1)
      /\ \A i \in 1..Len(b) : Append(b, f)[i] = b[i]
      /\ Append(b, f)[Len(b) + 1] = f
  BY <1>1, PushIs
<1>3. Len(b) + 1 = Len(s)
  BY <1>1
<1> QED
  BY <1>1, <1>2, <1>3 DEF b

(* The runtime raises, or a hook assigns: the innermost frame follows.     *)
LEMMA TopFollows ==
  ASSUME TypeOK, NEW t \in Threads, stack[t] # << >>, NEW f \in Frames,
         Follows(Top(t), f), ChangeTop(t, f)
  PROVE  /\ stack' \in [Threads -> Seq(Frames)] /\ StackFollows(t)
         /\ \A u \in Threads \ {t} : stack'[u] = stack[u]
         /\ stack'[t] # << >> /\ Top(t)' = f
<1> DEFINE s == stack[t]
           new == Append(SubSeq(s, 1, Len(s) - 1), f)
<1>1. s \in Seq(Frames) /\ s # << >> /\ stack \in [Threads -> Seq(Frames)]
  BY DEF TypeOK
<1>2. Len(s) \in Nat \ {0} /\ DOMAIN s = 1..Len(s) /\ \A i \in 1..Len(s) : s[i] \in Frames
  BY <1>1, PopIs
<1>3. /\ new \in Seq(Frames) /\ Len(new) = Len(s) /\ DOMAIN new = DOMAIN s
      /\ \A i \in 1..(Len(s) - 1) : new[i] = s[i]
      /\ new[Len(s)] = f
  BY <1>1, ChangeTopIs
<1>4. stack' = [stack EXCEPT ![t] = new]
  BY DEF ChangeTop, SetStack, Below
<1> HIDE DEF new
<1>5. stack'[t] = new /\ \A u \in Threads \ {t} : stack'[u] = stack[u]
  BY <1>1, <1>4
<1>6. Follows(s[Len(s)], f)
  BY DEF Top
<1> HIDE DEF s
<1>7. \A i \in DOMAIN s : Follows(s[i], new[i])
  <2>1. \A i \in 1..(Len(s) - 1) : Follows(s[i], new[i])
    BY <1>3 DEF Follows
  <2>2. \A i \in DOMAIN s : i \in 1..(Len(s) - 1) \/ i = Len(s)
    BY <1>2
  <2> QED
    BY <2>1, <2>2, <1>3, <1>6
<1>8. stack' \in [Threads -> Seq(Frames)]
  BY <1>1, <1>3, <1>4
<1>9. new # << >> /\ Top(t)' = f
  <2>1. Len(<< >>) = 0
    BY EmptySeq
  <2> QED
    BY <2>1, <1>2, <1>3, <1>5 DEF Top
<1> QED
  BY <1>3, <1>5, <1>7, <1>8, <1>9 DEF StackFollows, s

-----------------------------------------------------------------------------
(* The steps of a thread fall into six kinds. *)

(* Exceptions, refusals and hooks: neither the database nor what the       *)
(* thread is in changes.                                                   *)
Quietly(t) ==
  /\ OthersRest(t) /\ StackFollows(t)
  /\ UNCHANGED <<database, triggers, within, broken, unit, begun, durable, touched, stale>>
  /\ conn'[t].pending = conn[t].pending /\ conn'[t].execution_error = conn[t].execution_error
  /\ conn[t].failed => conn'[t].failed
  /\ Running(t, {"read"})' => Running(t, {"read"}) /\ UNCHANGED conn

(* A write is entered. *)
Enters(t) ==
  /\ OthersRest(t)
  /\ LET n == Len(stack[t])
         g == stack'[t][n + 1]
     IN /\ Len(stack'[t]) = n + 1 /\ DOMAIN stack'[t] = 1..(n + 1)
        /\ \A i \in 1..n : Follows(stack[t][i], stack'[t][i])
        /\ n > 0 => stack[t][n].phase # "read"
        /\ Fresh(g) /\ g.id = Len(within) + 1
        /\ triggers'[t] = IF HasItem(g) THEN Append(triggers[t], g.id) ELSE triggers[t]
  /\ within' = Append(within, {stack[t][i].id : i \in DOMAIN stack[t]})
  /\ Usable(t)
  /\ UNCHANGED <<conn, exc, database, broken, unit, begun, durable, touched, stale>>

(* A write is left. *)
Leaves(t) ==
  /\ OthersRest(t)
  /\ stack[t] # << >>
  /\ LET n == Len(stack[t]) IN
     /\ Len(stack'[t]) = n - 1 /\ DOMAIN stack'[t] = 1..(n - 1)
     /\ \A i \in 1..(n - 1) : stack'[t][i] = stack[t][i]
     /\ triggers'[t] = Left(t, stack[t][n])
     /\ \/ UNCHANGED <<conn, broken>>
        \/ /\ broken' = broken \cup {stack[t][n].id}
           /\ conn'[t].failed \/ (conn[t].execution_error # NoError /\ ~conn'[t].pending)
  /\ conn'[t].pending = conn[t].pending /\ conn'[t].execution_error = conn[t].execution_error
  /\ conn[t].failed => conn'[t].failed
  /\ UNCHANGED <<exc, database, within, unit, begun, durable, touched, stale>>

(* The frame of a write that has read its row. *)
ReadFrame(f, k, v, u) == [f EXCEPT !.phase = "before", !.keys = {k}, !.old = v, !.unit = u]

(* A write has read and locked the row it works on, or did not find it.    *)
Reads(t) ==
  /\ OthersRest(t) /\ Running(t, {"read"})
  /\ conn'[t].pending /\ conn'[t].execution_error = NoError /\ conn'[t].failed = conn[t].failed
  /\ unit'[t] = UnitOf(t) /\ begun' = IF conn[t].pending THEN begun ELSE begun + 1
  /\ \E found \in SUBSET Keys :
       /\ Free(t, found) /\ lock' = LockedBy(t, found)
       /\ \/ stack' = stack /\ triggers' = triggers /\ exc'[t] # NoError
          \/ LET n == Len(stack[t])
                 f == stack[t][n]
                 g == stack'[t][n]
             IN /\ DOMAIN stack'[t] = DOMAIN stack[t] /\ Len(stack'[t]) = n
                /\ \A i \in 1..(n - 1) : stack'[t][i] = stack[t][i]
                /\ \E k \in Keys : /\ found = {k} /\ View(t, k) # Absent
                                   /\ g = ReadFrame(f, k, View(t, k), UnitOf(t))
                /\ triggers'[t] = IF f.op = "delete" THEN Append(triggers[t], f.id) ELSE triggers[t]
  /\ UNCHANGED <<committed, own, within, broken, durable, touched, stale>>

(* The statement of a write. *)
Executes(t) ==
  /\ OthersRest(t) /\ StackFollows(t) /\ Running(t, {"before"}) /\ Usable(t)
  /\ conn'[t].pending /\ conn'[t].execution_error = NoError /\ ~conn'[t].failed
  /\ unit'[t] = UnitOf(t) /\ begun' = IF conn[t].pending THEN begun ELSE begun + 1
  /\ LET f == Top(t) IN
     /\ \E hit \in SUBSET Keys :
          /\ Free(t, hit) /\ lock' = LockedBy(t, hit)
          /\ f.op # "insert" => \A k \in hit : k \in f.keys /\ View(t, k) # Absent
          /\ own' = [k \in Keys |-> IF k \in hit THEN NewRow(f, View(t, k)) ELSE own[k]]
     /\ touched' = touched \cup {<<f.id, UnitOf(t)>>}
     /\ stale \subseteq stale'
     /\ f.op = "update" /\ ~f.raw /\ f.unit # UnitOf(t) => UnitOf(t) \in stale'
     /\ stack'[t][Len(stack[t])].phase # "before"
  /\ UNCHANGED <<triggers, committed, within, broken, durable>>

(* The unit of work ends: the database has accepted it, or nothing of it.  *)
Ends(t) ==
  /\ OthersRest(t) /\ StackFollows(t)
  /\ ~conn'[t].pending
  /\ \/ Release(t, committed) /\ UNCHANGED durable
     \/ /\ stack[t] = << >> /\ Usable(t) /\ conn[t].pending
        /\ Release(t, Accepted(t)) /\ durable' = durable \cup {unit[t]}
  /\ Running(t, {"read"})' => Usable(t)'
  /\ UNCHANGED <<triggers, within, broken, unit, begun, touched, stale>>

Steps(t) == Quietly(t) \/ Enters(t) \/ Leaves(t) \/ Reads(t) \/ Executes(t) \/ Ends(t)

(* The write has read the row it works on in this step. *)
JustRead(t, f, g) ==
  /\ g.id = f.id /\ f.phase = "read" /\ g.phase = "before" /\ HasRead(g) /\ g.unit = UnitOf(t)
  /\ \E k \in Keys : /\ g.keys = {k} /\ g.old = own[k] /\ own[k] # Absent
                     /\ lock[k] \in {t, Nobody} /\ lock'[k] = t

LEMMA StackStays ==
  ASSUME NEW t, UNCHANGED stack
  PROVE  StackFollows(t)
  BY DEF StackFollows, Follows

LEMMA RaiseIs ==
  ASSUME TypeOK, NEW t \in Threads, NEW e \in {NoError, Other} \cup Nat, Raise(t, e)
  PROVE  /\ exc' \in [Threads -> {NoError, Other} \cup Nat] /\ exc'[t] = e
         /\ \A u \in Threads \ {t} : exc'[u] = exc[u]
  BY DEF TypeOK, Raise

(* A runtime error cannot be caught by the hooks of the write it is in.    *)
LEMMA EscapesFollows ==
  ASSUME TypeOK, NEW t \in Threads, stack[t] # << >>, Escapes(t)
  PROVE  /\ stack' \in [Threads -> Seq(Frames)] /\ StackFollows(t)
         /\ \A u \in Threads \ {t} : stack'[u] = stack[u]
         /\ stack'[t] # << >> /\ Top(t)'.phase # "before"
<1>1. /\ stack[t] \in Seq(Frames) /\ Len(stack[t]) \in Nat \ {0} /\ Top(t) \in Frames
      /\ stack \in [Threads -> Seq(Frames)]
  BY PopIs DEF TypeOK, Top
<1>2. CASE Top(t).phase = "before"
  <2> DEFINE f == [Top(t) EXCEPT !.phase = "failed"]
  <2>1. f \in Frames /\ Follows(Top(t), f) /\ f.phase = "failed"
    BY <1>1, <1>2 DEF Frames, Phases, Follows
  <2>2. ChangeTop(t, f)
    BY <1>2 DEF Escapes
  <2> HIDE DEF f
  <2> QED
    BY <2>1, <2>2, TopFollows
<1>3. CASE Top(t).phase # "before"
  <2>1. UNCHANGED stack
    BY <1>3 DEF Escapes
  <2> QED
    BY <2>1, <1>1, <1>3, StackStays DEF Top
<1> QED
  BY <1>2, <1>3

LEMMA QuietSteps ==
  ASSUME TypeOK, NEW t \in Threads,
         \/ WriteRejected(t) \/ HookAssigns(t) \/ StatementRefused(t)
         \/ UserRaise(t) \/ UserCatch(t)
  PROVE  TypeOK' /\ Quietly(t)
<1>1. stack \in [Threads -> Seq(Frames)] /\ conn \in [Threads -> States]
  BY DEF TypeOK
<1>2. CASE WriteRejected(t)
  <2>1. /\ UNCHANGED <<stack, triggers, database, history>>
        /\ conn' = [conn EXCEPT ![t].failed = TRUE] /\ Raise(t, Other)
    BY <1>2 DEF WriteRejected
  <2>2. /\ exc' \in [Threads -> {NoError, Other} \cup Nat] /\ exc'[t] = Other
        /\ \A u \in Threads \ {t} : exc'[u] = exc[u]
    BY <2>1, RaiseIs
  <2>3. /\ conn' \in [Threads -> States]
        /\ \A u \in Threads \ {t} : conn'[u] = conn[u]
        /\ conn'[t].pending = conn[t].pending /\ conn'[t].failed
        /\ conn'[t].execution_error = conn[t].execution_error
    BY <1>1, <2>1 DEF States
  <2>4. TypeOK'
    BY <2>1, <2>2, <2>3 DEF TypeOK, database, history
  <2>5. ~Running(t, {"read"})'
    BY <2>2 DEF Running, NoError, Other
  <2> QED
    BY <2>1, <2>2, <2>3, <2>4, <2>5, StackStays DEF Quietly, OthersRest, history
<1>3. CASE HookAssigns(t)
  <2>1. PICK c \in Columns \ Top(t).set : ChangeTop(t, [Top(t) EXCEPT !.set = @ \cup {c}])
    BY <1>3 DEF HookAssigns
  <2> DEFINE f == [Top(t) EXCEPT !.set = @ \cup {c}]
  <2>2. /\ UNCHANGED <<conn, triggers, exc, database, history>>
        /\ stack[t] # << >> /\ Top(t).phase = "before" /\ Top(t).op = "update"
    BY <1>3 DEF HookAssigns, Running, OnTop
  <2>3. Top(t) \in Frames
    BY <1>1, <2>2, PopIs DEF Top
  <2>4. f \in Frames /\ Follows(Top(t), f) /\ f.phase = "before"
    BY <2>2, <2>3 DEF Frames, Follows
  <2>5. ChangeTop(t, f)
    BY <2>1
  <2> HIDE DEF f
  <2>6. /\ stack' \in [Threads -> Seq(Frames)] /\ StackFollows(t)
        /\ \A u \in Threads \ {t} : stack'[u] = stack[u]
        /\ Top(t)' = f
    BY <2>2, <2>4, <2>5, TopFollows
  <2>7. TypeOK'
    BY <2>2, <2>6 DEF TypeOK, database, history
  <2>8. ~Running(t, {"read"})'
    BY <2>4, <2>6 DEF Running, OnTop
  <2> QED
    BY <2>2, <2>6, <2>7, <2>8 DEF Quietly, OthersRest, history
<1>4. CASE StatementRefused(t)
  <2>1. /\ UNCHANGED <<conn, triggers, database, history>>
        /\ stack[t] # << >> /\ Raise(t, Other) /\ Escapes(t)
    BY <1>4 DEF StatementRefused, Running, OnTop
  <2>2. /\ exc' \in [Threads -> {NoError, Other} \cup Nat] /\ exc'[t] = Other
        /\ \A u \in Threads \ {t} : exc'[u] = exc[u]
    BY <2>1, RaiseIs
  <2>3. /\ stack' \in [Threads -> Seq(Frames)] /\ StackFollows(t)
        /\ \A u \in Threads \ {t} : stack'[u] = stack[u]
    BY <2>1, EscapesFollows
  <2>4. TypeOK'
    BY <2>1, <2>2, <2>3 DEF TypeOK, database, history
  <2>5. ~Running(t, {"read"})'
    BY <2>2 DEF Running, NoError, Other
  <2> QED
    BY <2>1, <2>2, <2>3, <2>4, <2>5 DEF Quietly, OthersRest, history
<1>5. CASE UserRaise(t) \/ UserCatch(t)
  <2>1. UNCHANGED <<conn, stack, triggers, database, history>>
    BY <1>5 DEF UserRaise, UserCatch
  <2>2. PICK e \in {NoError, Other} : Raise(t, e) /\ (e = NoError => UserCatch(t))
    BY <1>5 DEF UserRaise, UserCatch, NoError, Other
  <2>3. /\ exc' \in [Threads -> {NoError, Other} \cup Nat] /\ exc'[t] = e
        /\ \A u \in Threads \ {t} : exc'[u] = exc[u]
    BY <2>2, RaiseIs
  <2>4. TypeOK'
    BY <2>1, <2>3 DEF TypeOK, database, history
  <2>5. ~Running(t, {"read"})'
    BY <2>1, <2>2, <2>3 DEF Running, NoError, Other, UserCatch, UserCode, OnTop, Top
  <2> QED
    BY <2>1, <2>3, <2>4, <2>5, StackStays DEF Quietly, OthersRest, history
<1> QED
  BY <1>2, <1>3, <1>4, <1>5

(* One write more: the stacks and the items grow by its number.            *)
LEMMA EnterIs ==
  ASSUME TypeOK, NEW t \in Threads, NEW below \in Seq(Frames), NEW g,
         Len(below) = Len(stack[t]), \A i \in 1..Len(stack[t]) : Follows(stack[t][i], below[i]),
         Len(stack[t]) > 0 => stack[t][Len(stack[t])].phase # "read",
         Fresh(g), g.id = Len(within) + 1, Enter(t, below, g)
  PROVE  TypeOK' /\ Enters(t)
<1> DEFINE n == Len(stack[t])
           ids == {stack[t][i].id : i \in DOMAIN stack[t]}
<1>1. /\ stack \in [Threads -> Seq(Frames)] /\ stack[t] \in Seq(Frames) /\ n \in Nat
      /\ DOMAIN stack[t] = 1..n /\ \A i \in 1..n : stack[t][i] \in Frames
      /\ g \in Frames /\ within \in Seq(SUBSET Nat) /\ Len(within) \in Nat
      /\ DOMAIN within = 1..Len(within)
  BY SeqIs DEF TypeOK, Fresh
<1>2. /\ Usable(t) /\ stack' = [stack EXCEPT ![t] = Append(below, g)]
      /\ triggers' = [triggers EXCEPT ![t] = Entered(t, g)]
      /\ within' = Append(within, ids)
      /\ UNCHANGED <<conn, exc, database, broken, unit, begun, durable, touched, stale, failures>>
  BY DEF Enter, SetStack
<1>3. /\ Append(below, g) \in Seq(Frames) /\ Len(Append(below, g)) = n + 1
      /\ DOMAIN Append(below, g) = 1..(n + 1)
      /\ \A i \in 1..n : Append(below, g)[i] = below[i]
      /\ Append(below, g)[n + 1] = g
  BY <1>1, PushIs
<1>4. /\ stack'[t] = Append(below, g) /\ \A u \in Threads \ {t} : stack'[u] = stack[u]
      /\ stack' \in [Threads -> Seq(Frames)]
  BY <1>1, <1>2, <1>3
<1>5. ids \in SUBSET Nat
  BY <1>1 DEF Frames
<1>6. /\ within' \in Seq(SUBSET Nat) /\ Len(within') = Len(within) + 1
  <2> HIDE DEF ids
  <2> QED
    BY <1>1, <1>2, <1>5, PushIs
<1>7. \A u \in Threads : triggers[u] \in Seq(1..Len(within'))
  <2> SUFFICES ASSUME NEW u \in Threads  PROVE triggers[u] \in Seq(1..Len(within'))
    OBVIOUS
  <2>1. triggers[u] \in Seq(1..Len(within)) /\ 1..Len(within) \subseteq 1..Len(within')
    BY <1>1, <1>6 DEF TypeOK
  <2> QED
    BY <2>1, SeqMonotonic
<1>8. /\ Append(triggers[t], g.id) \in Seq(1..Len(within'))
  BY <1>1, <1>6, <1>7, PushIs
<1>9. /\ triggers' \in [Threads -> Seq(1..Len(within'))]
      /\ triggers'[t] = IF HasItem(g) THEN Append(triggers[t], g.id) ELSE triggers[t]
      /\ \A u \in Threads \ {t} : triggers'[u] = triggers[u]
  <2>1. triggers \in [Threads -> Seq(1..Len(within))]
    BY DEF TypeOK
  <2>2. Entered(t, g) \in Seq(1..Len(within'))
    BY <1>7, <1>8 DEF Entered
  <2>3. DOMAIN triggers' = Threads /\ triggers'[t] = Entered(t, g)
        /\ \A u \in Threads \ {t} : triggers'[u] = triggers[u]
    BY <1>2, <2>1
  <2>4. triggers' = [u \in Threads |-> triggers'[u]]
    BY <1>2, <2>1
  <2>5. triggers' \in [Threads -> Seq(1..Len(within'))]
    BY <1>7, <2>2, <2>3, <2>4
  <2> QED
    BY <2>3, <2>5 DEF Entered
<1>10. broken \subseteq 1..Len(within') /\ touched \subseteq (1..Len(within')) \X (1..begun)
  <2>1. 1..Len(within) \subseteq 1..Len(within')
    BY <1>1, <1>6
  <2> QED
    BY <2>1 DEF TypeOK
<1>11. TypeOK'
  BY <1>2, <1>4, <1>6, <1>9, <1>10 DEF TypeOK, database
<1>12. OthersRest(t)
  BY <1>2, <1>4, <1>9 DEF OthersRest
<1> HIDE DEF ids
<1>13. \A i \in 1..n : Follows(stack[t][i], stack'[t][i])
  BY <1>3, <1>4
<1>14. stack'[t][n + 1] = g /\ Len(stack'[t]) = n + 1 /\ DOMAIN stack'[t] = 1..(n + 1)
  BY <1>3, <1>4
<1> QED
  BY <1>2, <1>9, <1>11, <1>12, <1>13, <1>14 DEF Enters, n, ids

LEMMA FrameIsFresh ==
  ASSUME TypeOK, NEW t \in Threads, NEW op \in Operations, NEW raw \in BOOLEAN,
         NEW keys \in SUBSET Keys, NEW set \in SUBSET Columns,
         op = "insert" => set = Columns
  PROVE  Fresh(Frame(t, op, raw, keys, set)) /\ Frame(t, op, raw, keys, set).id = Len(within) + 1
<1>1. Len(within) + 1 \in Nat /\ conn[t].execution_count \in Nat
  BY SeqIs DEF TypeOK, States
<1> QED
  BY <1>1 DEF Fresh, Frame, Frames, Operations, Phases, HasRead

LEMMA EnterSteps ==
  ASSUME TypeOK, NEW t \in Threads, WriteBegin(t) \/ BatchBegin(t) \/ BatchStep(t)
  PROVE  TypeOK' /\ Enters(t)
<1>1. /\ stack \in [Threads -> Seq(Frames)] /\ stack[t] \in Seq(Frames) /\ Len(stack[t]) \in Nat
      /\ DOMAIN stack[t] = 1..Len(stack[t]) /\ \A i \in 1..Len(stack[t]) : stack[t][i] \in Frames
      /\ \A i \in 1..Len(stack[t]) : Follows(stack[t][i], stack[t][i])
  BY SeqIs DEF TypeOK, Follows
<1>2. MayCall(t) => (Len(stack[t]) > 0 => stack[t][Len(stack[t])].phase # "read")
  BY EmptySeq DEF MayCall, UserCode, OnTop, Top
<1>3. CASE WriteBegin(t)
  <2>1. PICK op \in Operations, raw \in BOOLEAN, keys \in SUBSET Keys, set \in SUBSET Columns :
          /\ op = "insert" => set = Columns
          /\ Enter(t, stack[t], Frame(t, op, raw, keys, set))
    <3>1. PICK raw \in BOOLEAN, keys \in (SUBSET Keys) \ {{}} :
            \/ Enter(t, stack[t], Frame(t, "insert", raw, keys, Columns))
            \/ \E set \in (SUBSET Columns) \ {{}} :
                 Enter(t, stack[t], Frame(t, "update", raw, keys, set))
            \/ Enter(t, stack[t], Frame(t, "delete", raw, keys, {}))
      BY <1>3 DEF WriteBegin
    <3>2. {"insert", "update", "delete"} \subseteq Operations
      BY DEF Operations
    <3> QED
      BY <3>1, <3>2
  <2>2. MayCall(t)
    BY <1>3 DEF WriteBegin
  <2>3. Fresh(Frame(t, op, raw, keys, set)) /\ Frame(t, op, raw, keys, set).id = Len(within) + 1
    BY <2>1, FrameIsFresh
  <2> QED
    BY <1>1, <1>2, <2>1, <2>2, <2>3, EnterIs
<1>4. CASE BatchBegin(t)
  <2>1. PICK inner \in {"insert", "update"}, left \in 1..2 :
          Enter(t, stack[t], [Frame(t, "batch", TRUE, {}, {}) EXCEPT !.inner = inner, !.left = left])
    BY <1>4 DEF BatchBegin
  <2> DEFINE f == Frame(t, "batch", TRUE, {}, {})
             g == [f EXCEPT !.inner = inner, !.left = left]
  <2>2. MayCall(t)
    BY <1>4 DEF BatchBegin
  <2>3. Fresh(f) /\ f.id = Len(within) + 1 /\ f.op = "batch"
    BY FrameIsFresh DEF Operations, Frame
  <2>4. Enter(t, stack[t], g)
    BY <2>1
  <2> HIDE DEF f
  <2>5. Fresh(g) /\ g.id = Len(within) + 1
    <3>1. f \in Frames
      BY <2>3 DEF Fresh
    <3>2. inner \in Operations /\ left \in Nat
      BY DEF Operations
    <3>3. /\ g \in Frames /\ g.id = f.id /\ g.op = f.op /\ g.raw = f.raw /\ g.phase = f.phase
          /\ g.unit = f.unit /\ g.set = f.set
      BY <3>1, <3>2 DEF Frames
    <3> QED
      BY <2>3, <3>3 DEF Fresh, HasRead
  <2> HIDE DEF g
  <2> QED
    BY <1>1, <1>2, <2>2, <2>4, <2>5, EnterIs
<1>5. CASE BatchStep(t)
  <2> DEFINE f == [Top(t) EXCEPT !.left = @ - 1]
             s == stack[t]
             below == Append(Below(t), f)
  <2>1. s # << >> /\ Top(t).phase = "batch" /\ Top(t).left > 0
    BY <1>5 DEF BatchStep, Running, OnTop
  <2>2. /\ Top(t) = s[Len(s)] /\ Top(t) \in Frames /\ Len(s) \in Nat \ {0}
    BY <1>1, <2>1, PopIs DEF Top
  <2>3. f \in Frames /\ Follows(Top(t), f)
    BY <2>1, <2>2 DEF Frames, Follows
  <2>4. PICK op \in Operations, raw \in BOOLEAN, keys \in SUBSET Keys, set \in SUBSET Columns :
          /\ op = "insert" => set = Columns
          /\ Enter(t, below, Frame(t, op, raw, keys, set))
    <3>1. PICK keys \in (SUBSET Keys) \ {{}} :
            IF f.inner = "insert" THEN Enter(t, below, Frame(t, "insert", TRUE, keys, Columns))
            ELSE \E c \in Columns : Enter(t, below, Frame(t, "update", FALSE, keys, {c}))
      BY <1>5 DEF BatchStep
    <3> HIDE DEF f, below
    <3>2. {"insert", "update"} \subseteq Operations
      BY DEF Operations
    <3>3. CASE f.inner = "insert"
      BY <3>1, <3>2, <3>3
    <3>4. CASE f.inner # "insert"
      <4>1. PICK c \in Columns : Enter(t, below, Frame(t, "update", FALSE, keys, {c}))
        BY <3>1, <3>4
      <4>2. {c} \in SUBSET Columns
        OBVIOUS
      <4> QED
        BY <4>1, <4>2, <3>2
    <3> QED
      BY <3>3, <3>4
  <2> HIDE DEF f
  <2>5. /\ below \in Seq(Frames) /\ Len(below) = Len(s)
        /\ \A i \in 1..(Len(s) - 1) : below[i] = s[i]
        /\ below[Len(s)] = f
    <3>1. s \in Seq(Frames) /\ s # << >> /\ f \in Frames
      BY <1>1, <2>1, <2>3
    <3>2. below = Append(SubSeq(s, 1, Len(s) - 1), f)
      BY DEF Below
    <3> HIDE DEF s, below
    <3> QED
      BY <3>1, <3>2, ChangeTopIs
  <2> HIDE DEF below
  <2>6. \A i \in 1..Len(s) : Follows(s[i], below[i])
    <3>1. \A i \in 1..Len(s) : i \in 1..(Len(s) - 1) \/ i = Len(s)
      BY <2>2
    <3>2. \A i \in 1..(Len(s) - 1) : Follows(s[i], below[i])
      BY <1>1, <2>2, <2>5
    <3> QED
      BY <3>1, <3>2, <2>2, <2>3, <2>5
  <2>7. Fresh(Frame(t, op, raw, keys, set)) /\ Frame(t, op, raw, keys, set).id = Len(within) + 1
    BY <2>4, FrameIsFresh
  <2>8. s[Len(s)].phase # "read"
    BY <2>1, <2>2
  <2> QED
    BY <1>1, <2>4, <2>5, <2>6, <2>7, <2>8, EnterIs
<1> QED
  BY <1>3, <1>4, <1>5

(* A write is left by return or by an exception.  If that is not of a      *)
(* statement of this write, whose failure has rolled the unit back, the    *)
(* connection is rollback-only.  (runtime.py:234)                          *)
LEMMA LeaveSteps ==
  ASSUME Shape, NEW t \in Threads, WriteReturns(t) \/ WriteFails(t)
  PROVE  TypeOK' /\ Leaves(t)
<1> DEFINE s == stack[t]
           n == Len(s)
           f == s[n]
           b == SubSeq(s, 1, Len(s) - 1)
<1>1. TypeOK /\ s \in Seq(Frames) /\ stack \in [Threads -> Seq(Frames)] /\ conn \in [Threads -> States]
  BY DEF Shape, TypeOK
<1>2. /\ s # << >> /\ stack' = [stack EXCEPT ![t] = b]
      /\ triggers' = [triggers EXCEPT ![t] = Left(t, f)]
      /\ UNCHANGED <<exc, database, within, unit, begun, durable, touched, stale, failures>>
  BY DEF WriteReturns, WriteFails, Running, OnTop, SetStack, Below, Top, history
<1>3. /\ n \in Nat \ {0} /\ DOMAIN s = 1..n /\ b \in Seq(Frames) /\ Len(b) = n - 1
      /\ DOMAIN b = 1..(n - 1) /\ \A i \in 1..(n - 1) : b[i] = s[i]
  BY <1>1, <1>2, PopIs
<1>4. Left(t, f) \in Seq(1..Len(within))
  <2> DEFINE r == triggers[t]
             m == Len(r) - 1
  <2>1. r \in Seq(1..Len(within)) /\ Len(r) \in Nat /\ \A i \in 1..Len(r) : r[i] \in 1..Len(within)
    BY <1>1, SeqIs DEF TypeOK
  <2>2. 1 \in Int /\ m \in Int /\ \A i \in 1..m : r[i] \in 1..Len(within)
    BY <2>1
  <2>3. SubSeq(r, 1, m) \in Seq(1..Len(within))
    BY <2>2, SubSeqProperties
  <2> QED
    BY <2>1, <2>3 DEF Left
<1>5. FrameOK(t, f)
  BY <1>3 DEF Shape, FramesOK
<1>6. /\ stack'[t] = b /\ \A u \in Threads \ {t} : stack'[u] = stack[u]
      /\ stack' \in [Threads -> Seq(Frames)]
  BY <1>1, <1>2, <1>3
<1>7. /\ triggers'[t] = Left(t, f) /\ \A u \in Threads \ {t} : triggers'[u] = triggers[u]
      /\ triggers' \in [Threads -> Seq(1..Len(within))]
  <2>1. triggers \in [Threads -> Seq(1..Len(within))]
    BY <1>1 DEF TypeOK
  <2> QED
    BY <2>1, <1>2, <1>4
<1> HIDE DEF b
<1>8. /\ conn' \in [Threads -> States]
      /\ \A u \in Threads \ {t} : conn'[u] = conn[u]
      /\ conn'[t].pending = conn[t].pending /\ conn'[t].execution_error = conn[t].execution_error
      /\ conn[t].failed => conn'[t].failed
      /\ \/ UNCHANGED <<conn, broken>>
         \/ /\ broken' = broken \cup {f.id}
            /\ conn'[t].failed \/ (conn[t].execution_error # NoError /\ ~conn'[t].pending)
  <2>1. CASE WriteReturns(t)
    BY <2>1, <1>1 DEF WriteReturns, history
  <2>2. CASE WriteFails(t)
    <3> DEFINE r == RolledBackBy(conn[t], Top(t), exc[t])
    <3>1. /\ conn' = [conn EXCEPT ![t].failed = conn[t].failed \/ ~r]
          /\ exc[t] # NoError /\ broken' = broken \cup {f.id}
      BY <2>2 DEF WriteFails, Top
    <3>2. r => conn[t].execution_error # NoError
      BY <3>1 DEF RolledBackBy
    <3>3. conn[t].execution_error # NoError => ~conn[t].pending
      BY DEF Shape, UnitsOK
    <3>4. r \in BOOLEAN
      BY DEF RolledBackBy
    <3> HIDE DEF r
    <3>5. /\ conn' \in [Threads -> States]
          /\ \A u \in Threads \ {t} : conn'[u] = conn[u]
          /\ conn'[t].pending = conn[t].pending
          /\ conn'[t].execution_error = conn[t].execution_error
          /\ conn'[t].failed <=> conn[t].failed \/ ~r
      BY <3>1, <3>4, <1>1 DEF States
    <3> QED
      BY <3>1, <3>2, <3>3, <3>5
  <2> QED
    BY <2>1, <2>2
<1>9. broken' \subseteq 1..Len(within)
  BY <1>1, <1>5, <1>8 DEF TypeOK, FrameOK
<1>10. TypeOK'
  BY <1>1, <1>2, <1>6, <1>7, <1>8, <1>9 DEF TypeOK, database
<1>11. OthersRest(t)
  BY <1>2, <1>6, <1>7, <1>8 DEF OthersRest
<1> QED
  BY <1>2, <1>3, <1>6, <1>7, <1>8, <1>10, <1>11 DEF Leaves

(* A statement runs in the unit of its connection or opens one.            *)
LEMMA ExecutedIs ==
  ASSUME TypeOK, NEW t \in Threads, Executed(t)
  PROVE  /\ conn' \in [Threads -> States] /\ \A u \in Threads \ {t} : conn'[u] = conn[u]
         /\ conn'[t].pending /\ conn'[t].execution_error = NoError
         /\ conn'[t].failed = conn[t].failed
         /\ unit'[t] = UnitOf(t) /\ \A u \in Threads \ {t} : unit'[u] = unit[u]
         /\ begun' = IF conn[t].pending THEN begun ELSE begun + 1
         /\ begun' \in Nat /\ unit' \in [Threads -> 0..begun']
         /\ UnitOf(t) \in 0..begun' /\ (conn[t].pending \/ UnitOf(t) > 0)
         /\ begun <= begun'
<1>1. /\ conn \in [Threads -> States] /\ begun \in Nat /\ unit \in [Threads -> 0..begun]
      /\ conn[t].execution_count + 1 \in Nat /\ conn[t].pending \in BOOLEAN
  BY DEF TypeOK, States
<1>2. /\ conn' \in [Threads -> States] /\ \A u \in Threads \ {t} : conn'[u] = conn[u]
      /\ conn'[t].pending /\ conn'[t].execution_error = NoError
      /\ conn'[t].failed = conn[t].failed
  BY <1>1 DEF Executed, States, NoError
<1> QED
  BY <1>1, <1>2 DEF Executed, UnitOf

LEMMA FrameRead ==
  ASSUME NEW f \in Frames, NEW k \in Keys, NEW v \in Rows, NEW u \in Nat
  PROVE  LET g == ReadFrame(f, k, v, u) IN
         /\ g \in Frames /\ g.op = f.op /\ g.raw = f.raw /\ g.id = f.id /\ g.set = f.set
         /\ g.phase = "before" /\ g.keys = {k} /\ g.old = v /\ g.unit = u
  BY DEF ReadFrame, Frames, Phases

(* The row is locked when it is read, and nobody has it locked before.     *)
LEMMA ReadSteps ==
  ASSUME Shape, NEW t \in Threads, LockedRead(t)
  PROVE  TypeOK' /\ Reads(t)
<1> DEFINE s == stack[t]
           n == Len(s)
           f == s[n]
<1>1. PICK found \in SUBSET Visible(t, Top(t).keys) :
        LET g == [Top(t) EXCEPT !.phase = "before", !.keys = found,
                                !.old = View(t, CHOOSE k \in found : TRUE), !.unit = UnitOf(t)]
        IN /\ Free(t, found) /\ Executed(t) /\ lock' = LockedBy(t, LocksRead(found))
           /\ IF Cardinality(found) = 1
              THEN /\ ChangeTop(t, g)
                   /\ triggers' = IF g.op = "delete"
                                  THEN [triggers EXCEPT ![t] = Entered(t, g)] ELSE triggers
                   /\ UNCHANGED exc
              ELSE Raise(t, Other) /\ UNCHANGED <<stack, triggers>>
  BY DEF LockedRead
<1>2. /\ Running(t, {"read"}) /\ s # << >> /\ Top(t).phase = "read"
      /\ UNCHANGED <<committed, own, within, broken, durable, touched, stale, failures>>
  BY DEF LockedRead, Running, OnTop
<1>3. /\ TypeOK /\ s \in Seq(Frames) /\ stack \in [Threads -> Seq(Frames)]
      /\ triggers \in [Threads -> Seq(1..Len(within))]
  BY DEF Shape, TypeOK
<1>4. Top(t) = f /\ f \in Frames /\ n \in Nat \ {0} /\ DOMAIN s = 1..n
  BY <1>2, <1>3, PopIs DEF Top
<1>5. found \subseteq Keys /\ \A k \in found : View(t, k) # Absent
  BY <1>4 DEF Visible, Frames
<1>6. /\ conn' \in [Threads -> States] /\ \A u \in Threads \ {t} : conn'[u] = conn[u]
      /\ conn'[t].pending /\ conn'[t].execution_error = NoError
      /\ conn'[t].failed = conn[t].failed
      /\ unit'[t] = UnitOf(t) /\ \A u \in Threads \ {t} : unit'[u] = unit[u]
      /\ begun' = IF conn[t].pending THEN begun ELSE begun + 1
      /\ begun' \in Nat /\ unit' \in [Threads -> 0..begun']
      /\ UnitOf(t) \in 0..begun' /\ begun <= begun'
  BY <1>1, <1>3, ExecutedIs
<1>7. lock' = LockedBy(t, found) /\ lock' \in [Keys -> Threads \cup {Nobody}]
  BY <1>1, <1>3 DEF LocksRead, LockedBy, TypeOK
<1>8. durable' \subseteq 1..begun' /\ stale' \subseteq 1..begun'
      /\ touched' \subseteq (1..Len(within)) \X (1..begun')
  <2>1. begun \in Nat /\ 1..begun \subseteq 1..begun'
    BY <1>3, <1>6 DEF TypeOK
  <2> QED
    BY <2>1, <1>2, <1>3 DEF TypeOK
<1>9. CASE Cardinality(found) = 1
  <2>1. PICK k \in Keys : found = {k}
    <3>1. IsFiniteSet(found)
      BY <1>5, RowAssumption, FS_Subset
    <3> QED
      BY <3>1, <1>5, <1>9, FS_Singleton
  <2> DEFINE g == ReadFrame(f, k, View(t, k), UnitOf(t))
  <2>2. (CHOOSE x \in found : TRUE) = k
    BY <2>1
  <2>3. /\ ChangeTop(t, g) /\ UNCHANGED exc
        /\ triggers' = IF g.op = "delete" THEN [triggers EXCEPT ![t] = Entered(t, g)] ELSE triggers
    BY <1>1, <1>4, <1>9, <2>1, <2>2 DEF ReadFrame
  <2>4. View(t, k) \in Rows
    BY <1>3, <1>5, <2>1 DEF TypeOK, View
  <2>5. g \in Frames /\ g.op = f.op /\ g.id = f.id /\ g.phase = "before"
    <3>1. UnitOf(t) \in Nat /\ f \in Frames
      BY <1>4, <1>6
    <3> HIDE DEF f
    <3> QED
      BY <3>1, <2>4, FrameRead
  <2>6. g = ReadFrame(f, k, View(t, k), UnitOf(t))
    OBVIOUS
  <2> HIDE DEF g
  <2>7. /\ stack' = [stack EXCEPT ![t] = Append(SubSeq(s, 1, n - 1), g)]
    BY <2>3 DEF ChangeTop, SetStack, Below
  <2>8. LET new == Append(SubSeq(s, 1, n - 1), g) IN
        /\ new \in Seq(Frames) /\ Len(new) = n /\ DOMAIN new = DOMAIN s
        /\ \A i \in 1..(n - 1) : new[i] = s[i]
        /\ new[n] = g
    BY <1>2, <1>3, <2>5, ChangeTopIs
  <2>9. /\ stack' \in [Threads -> Seq(Frames)]
        /\ Len(stack'[t]) = n /\ DOMAIN stack'[t] = DOMAIN s
        /\ \A i \in 1..(n - 1) : stack'[t][i] = s[i]
        /\ stack'[t][n] = g
        /\ \A u \in Threads \ {t} : stack'[u] = stack[u]
    BY <1>3, <2>7, <2>8
  <2>10. f.id \in 1..Len(within)
    BY <1>4 DEF Shape, FramesOK, FrameOK
  <2>11. g.op = "delete" => Entered(t, g) = Append(triggers[t], f.id)
    BY <2>5 DEF Entered, HasItem
  <2>12. Append(triggers[t], f.id) \in Seq(1..Len(within))
    BY <1>3, <2>10, PushIs
  <2>13. /\ triggers' \in [Threads -> Seq(1..Len(within))]
         /\ triggers'[t] = IF f.op = "delete" THEN Append(triggers[t], f.id) ELSE triggers[t]
         /\ \A u \in Threads \ {t} : triggers'[u] = triggers[u]
    BY <1>3, <2>3, <2>5, <2>11, <2>12
  <2>14. TypeOK'
    BY <1>2, <1>3, <1>6, <1>7, <1>8, <2>3, <2>9, <2>13 DEF TypeOK
  <2>15. OthersRest(t)
    BY <1>6, <2>3, <2>9, <2>13 DEF OthersRest
  <2>16. View(t, k) # Absent /\ found \in SUBSET Keys /\ Free(t, found)
    BY <1>1, <1>5, <2>1
  <2> QED
    BY <1>2, <1>6, <1>7, <2>1, <2>6, <2>9, <2>13, <2>14, <2>15, <2>16 DEF Reads
<1>10. CASE Cardinality(found) # 1
  <2>1. Raise(t, Other) /\ UNCHANGED <<stack, triggers>>
    BY <1>1, <1>10
  <2>2. /\ exc' \in [Threads -> {NoError, Other} \cup Nat] /\ exc'[t] = Other
        /\ \A u \in Threads \ {t} : exc'[u] = exc[u]
    BY <1>3, <2>1, RaiseIs
  <2>3. TypeOK'
    BY <1>2, <1>3, <1>6, <1>7, <1>8, <2>1, <2>2 DEF TypeOK
  <2>4. OthersRest(t)
    BY <1>6, <2>1, <2>2 DEF OthersRest
  <2>5. found \in SUBSET Keys /\ Free(t, found) /\ exc'[t] # NoError
    BY <1>1, <1>5, <2>2 DEF NoError, Other
  <2> QED
    BY <1>2, <1>6, <1>7, <2>1, <2>3, <2>4, <2>5 DEF Reads
<1> QED
  BY <1>9, <1>10

(* What a statement leaves in a row is of writes that have begun.          *)
LEMMA RowWritten ==
  ASSUME Shape, NEW t \in Threads, NEW k \in Keys, stack[t] # << >>, Top(t).phase = "before",
         Top(t).op # "insert" => View(t, k) # Absent
  PROVE  /\ NewRow(Top(t), View(t, k)) \in [Columns -> 0..Len(within)] \cup {Absent}
         /\ NewRow(Top(t), View(t, k)) \in Rows \cup {Absent}
<1> DEFINE f == Top(t)
<1>1. /\ Len(stack[t]) \in Nat \ {0} /\ f \in Frames /\ f = stack[t][Len(stack[t])]
      /\ DOMAIN stack[t] = 1..Len(stack[t])
  BY PopIs DEF Shape, TypeOK, Top
<1>2. FrameOK(t, f)
  BY <1>1 DEF Shape, FramesOK
<1>3. Len(within) \in Nat /\ 0..Len(within) \subseteq Nat
  BY SeqIs DEF Shape, TypeOK
<1>4. View(t, k) \in [Columns -> 0..Len(within)] \cup {Absent}
  BY DEF Shape, LocksOK, View
<1>5. /\ f.id \in 0..Len(within) /\ f.phase = "before"
      /\ f.op \in {"insert", "update", "delete"} /\ f.raw \in BOOLEAN
      /\ f.op = "insert" => f.set = Columns
      /\ f.op = "update" /\ ~f.raw => f.old \in [Columns -> 0..Len(within)]
  BY <1>1, <1>2, <1>3 DEF FrameOK, HasRead, Frames, Operations
<1> HIDE DEF f
<1>6. NewRow(f, View(t, k)) \in [Columns -> 0..Len(within)] \cup {Absent}
  <2>1. CASE f.op = "delete"
    BY <2>1 DEF NewRow
  <2>2. CASE f.op = "insert"
    BY <2>2, <1>5 DEF NewRow
  <2>3. CASE f.op = "update" /\ f.raw
    <3>1. View(t, k) \in [Columns -> 0..Len(within)]
      BY <2>3, <1>4 DEF f
    <3> QED
      BY <3>1, <2>3, <1>5 DEF NewRow
  <2>4. CASE f.op = "update" /\ ~f.raw
    BY <2>4, <1>5 DEF NewRow
  <2> QED
    BY <2>1, <2>2, <2>3, <2>4, <1>5
<1>7. [Columns -> 0..Len(within)] \subseteq Rows
  BY <1>3 DEF Rows
<1> QED
  BY <1>6, <1>7 DEF f

LEMMA StatementSteps ==
  ASSUME Shape, NEW t \in Threads, Statement(t)
  PROVE  TypeOK' /\ Executes(t)
<1> DEFINE s == stack[t]
           n == Len(s)
           f == Top(t)
           hit == IF f.op = "insert" THEN f.keys ELSE Visible(t, f.keys)
<1>1. /\ Running(t, {"before"}) /\ s # << >> /\ f.phase = "before" /\ Usable(t) /\ exc[t] = NoError
      /\ Free(t, hit) /\ Executed(t) /\ lock' = LockedBy(t, hit)
      /\ own' = [k \in Keys |-> IF k \in hit THEN NewRow(f, View(t, k)) ELSE own[k]]
      /\ touched' = touched \cup {<<f.id, UnitOf(t)>>}
      /\ stale' = IF f.op = "update" /\ ~f.raw /\ f.unit # UnitOf(t)
                  THEN stale \cup {UnitOf(t)} ELSE stale
      /\ \/ ChangeTop(t, [f EXCEPT !.phase = "after"]) /\ UNCHANGED exc
         \/ Raise(t, Other) /\ Escapes(t)
      /\ UNCHANGED <<triggers, committed, within, broken, durable, failures>>
  BY DEF Statement, Running, OnTop
<1>2. /\ TypeOK /\ s \in Seq(Frames) /\ stack \in [Threads -> Seq(Frames)]
  BY DEF Shape, TypeOK
<1>3. f = s[n] /\ f \in Frames /\ n \in Nat \ {0} /\ DOMAIN s = 1..n
  BY <1>1, <1>2, PopIs DEF Top
<1>4. hit \in SUBSET Keys /\ (f.op # "insert" => \A k \in hit : k \in f.keys /\ View(t, k) # Absent)
  BY <1>3 DEF Visible, Frames
<1>5. /\ conn' \in [Threads -> States] /\ \A u \in Threads \ {t} : conn'[u] = conn[u]
      /\ conn'[t].pending /\ conn'[t].execution_error = NoError
      /\ conn'[t].failed = conn[t].failed
      /\ unit'[t] = UnitOf(t) /\ \A u \in Threads \ {t} : unit'[u] = unit[u]
      /\ begun' = IF conn[t].pending THEN begun ELSE begun + 1
      /\ begun' \in Nat /\ unit' \in [Threads -> 0..begun']
      /\ UnitOf(t) \in 0..begun' /\ (conn[t].pending \/ UnitOf(t) > 0) /\ begun <= begun'
  BY <1>1, <1>2, ExecutedIs
<1>6. UnitOf(t) \in 1..begun'
  <2>1. conn[t].pending => UnitOf(t) > 0
    BY DEF Shape, UnitsOK, UnitOf
  <2> QED
    BY <2>1, <1>5
<1>7. f.id \in 1..Len(within)
  BY <1>3 DEF Shape, FramesOK, FrameOK
<1>8. \A k \in hit : NewRow(f, View(t, k)) \in Rows \cup {Absent}
  BY <1>1, <1>4, RowWritten
<1> HIDE DEF hit
<1>9. /\ lock' \in [Keys -> Threads \cup {Nobody}] /\ own' \in [Keys -> Rows \cup {Absent}]
  BY <1>1, <1>2, <1>4, <1>8 DEF TypeOK, LockedBy
<1>10. /\ durable' \subseteq 1..begun' /\ stale' \subseteq 1..begun'
       /\ touched' \subseteq (1..Len(within)) \X (1..begun')
  <2>1. begun \in Nat /\ 1..begun \subseteq 1..begun'
    BY <1>2, <1>5 DEF TypeOK
  <2> QED
    BY <2>1, <1>1, <1>2, <1>6, <1>7 DEF TypeOK
<1>11. /\ stack' \in [Threads -> Seq(Frames)] /\ StackFollows(t)
       /\ \A u \in Threads \ {t} : stack'[u] = stack[u]
       /\ stack'[t][n].phase # "before"
       /\ exc' \in [Threads -> {NoError, Other} \cup Nat]
       /\ \A u \in Threads \ {t} : exc'[u] = exc[u]
  <2>1. CASE ChangeTop(t, [f EXCEPT !.phase = "after"]) /\ UNCHANGED exc
    <3> DEFINE g == [f EXCEPT !.phase = "after"]
    <3>1. g \in Frames /\ Follows(f, g) /\ g.phase = "after"
      BY <1>1, <1>3 DEF Frames, Phases, Follows
    <3>2. ChangeTop(t, g) /\ UNCHANGED exc
      BY <2>1
    <3> HIDE DEF g
    <3>3. /\ stack' \in [Threads -> Seq(Frames)] /\ StackFollows(t)
          /\ \A u \in Threads \ {t} : stack'[u] = stack[u]
          /\ Top(t)' = g
      BY <1>1, <1>2, <3>1, <3>2, TopFollows
    <3> QED
      BY <3>1, <3>2, <3>3, <1>2 DEF TypeOK, Top, StackFollows
  <2>2. CASE Raise(t, Other) /\ Escapes(t)
    <3>1. /\ stack' \in [Threads -> Seq(Frames)] /\ StackFollows(t)
          /\ \A u \in Threads \ {t} : stack'[u] = stack[u]
          /\ Top(t)'.phase # "before"
      BY <2>2, <1>1, <1>2, EscapesFollows
    <3>2. /\ exc' \in [Threads -> {NoError, Other} \cup Nat]
          /\ \A u \in Threads \ {t} : exc'[u] = exc[u]
      BY <2>2, <1>2, RaiseIs
    <3> QED
      BY <3>1, <3>2 DEF Top, StackFollows
  <2> QED
    BY <1>1, <2>1, <2>2
<1>12. TypeOK'
  BY <1>1, <1>2, <1>5, <1>9, <1>10, <1>11 DEF TypeOK
<1>13. OthersRest(t)
  BY <1>1, <1>5, <1>11 DEF OthersRest
<1>14. stale \subseteq stale' /\ (f.op = "update" /\ ~f.raw /\ f.unit # UnitOf(t) => UnitOf(t) \in stale')
  BY <1>1
<1>15. ~conn'[t].failed
  BY <1>1, <1>5 DEF Usable
<1> HIDE DEF f
<1>16. \E h \in SUBSET Keys :
         /\ Free(t, h) /\ lock' = LockedBy(t, h)
         /\ f.op # "insert" => \A k \in h : k \in f.keys /\ View(t, k) # Absent
         /\ own' = [k \in Keys |-> IF k \in h THEN NewRow(f, View(t, k)) ELSE own[k]]
  BY <1>1, <1>4
<1> QED
  BY <1>1, <1>5, <1>11, <1>12, <1>13, <1>14, <1>15, <1>16 DEF Executes, f

LEMMA ReleaseIs ==
  ASSUME TypeOK, NEW t \in Threads
  PROVE  /\ Accepted(t) \in [Keys -> Rows \cup {Absent}]
         /\ \A rows \in [Keys -> Rows \cup {Absent}] : Release(t, rows) =>
              /\ committed' \in [Keys -> Rows \cup {Absent}] /\ own' \in [Keys -> Rows \cup {Absent}]
              /\ lock' \in [Keys -> Threads \cup {Nobody}]
<1>1. /\ committed \in [Keys -> Rows \cup {Absent}] /\ own \in [Keys -> Rows \cup {Absent}]
      /\ lock \in [Keys -> Threads \cup {Nobody}]
  BY DEF TypeOK
<1>2. Accepted(t) \in [Keys -> Rows \cup {Absent}]
  BY <1>1 DEF Accepted, View
<1>3. ASSUME NEW rows \in [Keys -> Rows \cup {Absent}], Release(t, rows)
      PROVE  /\ committed' \in [Keys -> Rows \cup {Absent}] /\ own' \in [Keys -> Rows \cup {Absent}]
             /\ lock' \in [Keys -> Threads \cup {Nobody}]
  BY <1>1, <1>3 DEF Release
<1> QED
  BY <1>2, <1>3

(* A unit ends with a completion, for which the call stack is empty, or    *)
(* with the failure of a statement, which rolls it back.                   *)
LEMMA EndSteps ==
  ASSUME Shape, NEW t \in Threads, NEW ok \in BOOLEAN,
         \/ Commit(t) \/ CommitUncertain(t) \/ Rollback(t, ok)
         \/ UserStatementFails(t, ok) \/ OwnStatementFails(t, ok)
  PROVE  TypeOK' /\ Ends(t)
<1>1. /\ TypeOK /\ stack \in [Threads -> Seq(Frames)] /\ conn \in [Threads -> States]
      /\ exc \in [Threads -> {NoError, Other} \cup Nat] /\ failures \in Nat /\ failures + 1 \in Nat
      /\ committed \in [Keys -> Rows \cup {Absent}] /\ begun \in Nat
      /\ unit \in [Threads -> 0..begun] /\ durable \subseteq 1..begun
  BY DEF Shape, TypeOK
<1>2. conn[t].pending => unit[t] \in 1..begun
  BY <1>1 DEF Shape, UnitsOK
<1>3. \A rows \in {committed, Accepted(t)} : Release(t, rows) =>
        /\ committed' \in [Keys -> Rows \cup {Absent}] /\ own' \in [Keys -> Rows \cup {Absent}]
        /\ lock' \in [Keys -> Threads \cup {Nobody}]
  BY <1>1, ReleaseIs
<1>4. CASE Commit(t) \/ CommitUncertain(t) \/ Rollback(t, ok)
  <2>1. /\ stack[t] = << >> /\ UNCHANGED <<stack, triggers, within, broken, unit, begun, touched, stale>>
        /\ \/ Release(t, committed) /\ UNCHANGED durable
           \/ conn[t].pending /\ Usable(t) /\ Release(t, Accepted(t)) /\ durable' = durable \cup {unit[t]}
        /\ failures' \in {failures, failures + 1}
    BY <1>4 DEF Commit, CommitUncertain, Rollback, MayComplete, Boundary
  <2>2. /\ conn' \in [Threads -> States] /\ \A u \in Threads \ {t} : conn'[u] = conn[u]
        /\ ~conn'[t].pending
    <3>1. PICK e \in BOOLEAN : \/ conn' = [conn EXCEPT ![t].pending = FALSE]
                              \/ conn' = [conn EXCEPT ![t].pending = FALSE, ![t].failed = e]
      BY <1>4 DEF Commit, CommitUncertain, Rollback
    <3>2. CASE conn' = [conn EXCEPT ![t].pending = FALSE]
      BY <3>2, <1>1 DEF States
    <3>3. CASE conn' = [conn EXCEPT ![t].pending = FALSE, ![t].failed = e]
      BY <3>3, <1>1 DEF States
    <3> QED
      BY <3>1, <3>2, <3>3
  <2>3. /\ exc' \in [Threads -> {NoError, Other} \cup Nat]
        /\ \A u \in Threads \ {t} : exc'[u] = exc[u]
    <3>1. UNCHANGED exc \/ \E e \in {NoError, Other} : Raise(t, e)
      BY <1>4 DEF Commit, CommitUncertain, Rollback
    <3> QED
      BY <3>1, <1>1, RaiseIs
  <2>4. durable' \subseteq 1..begun
    BY <1>1, <1>2, <2>1
  <2>5. TypeOK'
    BY <1>1, <1>3, <2>1, <2>2, <2>3, <2>4 DEF TypeOK
  <2>6. OthersRest(t) /\ StackFollows(t)
    BY <2>1, <2>2, <2>3, StackStays DEF OthersRest
  <2>7. ~Running(t, {"read"})'
    BY <2>1 DEF Running, OnTop
  <2> QED
    BY <2>1, <2>2, <2>5, <2>6, <2>7 DEF Ends
<1>5. CASE UserStatementFails(t, ok) \/ OwnStatementFails(t, ok)
  <2> DEFINE e == conn[t].execution_count + 1
  <2>1. /\ conn' = [conn EXCEPT ![t] = [pending |-> FALSE, failed |-> ~ok,
                                        execution_count |-> e, execution_error |-> e]]
        /\ Raise(t, e) /\ Release(t, committed) /\ failures' = failures + 1
        /\ UNCHANGED <<triggers, within, broken, unit, begun, durable, touched, stale>>
    BY <1>5 DEF UserStatementFails, OwnStatementFails, ExecutionFails
  <2>2. e \in Nat \ {0}
    BY <1>1 DEF States
  <2> HIDE DEF e
  <2>3. /\ conn' \in [Threads -> States] /\ \A u \in Threads \ {t} : conn'[u] = conn[u]
        /\ ~conn'[t].pending
    BY <1>1, <2>1, <2>2 DEF States
  <2>4. /\ exc' \in [Threads -> {NoError, Other} \cup Nat] /\ exc'[t] = e
        /\ \A u \in Threads \ {t} : exc'[u] = exc[u]
    BY <1>1, <2>1, <2>2, RaiseIs
  <2>5. /\ stack' \in [Threads -> Seq(Frames)] /\ StackFollows(t)
        /\ \A u \in Threads \ {t} : stack'[u] = stack[u]
    <3>1. UNCHANGED stack \/ (stack[t] # << >> /\ Escapes(t))
      BY <1>5 DEF UserStatementFails, OwnStatementFails, Running, OnTop
    <3> QED
      BY <3>1, <1>1, EscapesFollows, StackStays
  <2>6. TypeOK'
    BY <1>1, <1>3, <2>1, <2>3, <2>4, <2>5 DEF TypeOK
  <2>7. ~Running(t, {"read"})'
    BY <2>2, <2>4 DEF Running, NoError
  <2>8. OthersRest(t)
    BY <2>1, <2>3, <2>4, <2>5 DEF OthersRest
  <2> QED
    BY <2>1, <2>3, <2>5, <2>6, <2>7, <2>8 DEF Ends
<1> QED
  BY <1>4, <1>5

(* Every step of the specification is of one of the six kinds. *)
LEMMA StepKinds ==
  ASSUME Shape, [Next]_vars
  PROVE  /\ TypeOK'
         /\ \/ UNCHANGED vars
            \/ \E t \in Threads : Steps(t)
<1>1. CASE UNCHANGED vars
  <2>1. TypeOK'
    BY <1>1 DEF Shape, TypeOK, vars, program, database, history
  <2> QED
    BY <1>1, <2>1
<1>2. CASE Next
  <2>1. PICK t \in Threads :
          \/ WriteBegin(t) \/ BatchBegin(t) \/ BatchStep(t) \/ WriteRejected(t)
          \/ LockedRead(t) \/ HookAssigns(t) \/ Statement(t) \/ StatementRefused(t)
          \/ WriteReturns(t) \/ WriteFails(t)
          \/ UserRaise(t) \/ UserCatch(t)
          \/ Commit(t) \/ CommitUncertain(t)
          \/ \E ok \in BOOLEAN : \/ UserStatementFails(t, ok) \/ OwnStatementFails(t, ok)
                                 \/ Rollback(t, ok)
    BY <1>2 DEF Next
  <2>2. TypeOK
    BY DEF Shape
  <2>3. CASE WriteBegin(t) \/ BatchBegin(t) \/ BatchStep(t)
    BY <2>2, <2>3, EnterSteps DEF Steps
  <2>4. CASE WriteRejected(t) \/ HookAssigns(t) \/ StatementRefused(t) \/ UserRaise(t) \/ UserCatch(t)
    BY <2>2, <2>4, QuietSteps DEF Steps
  <2>5. CASE WriteReturns(t) \/ WriteFails(t)
    BY <2>5, LeaveSteps DEF Steps
  <2>6. CASE LockedRead(t)
    BY <2>6, ReadSteps DEF Steps
  <2>7. CASE Statement(t)
    BY <2>7, StatementSteps DEF Steps
  <2>8. ASSUME NEW ok \in BOOLEAN,
               \/ Commit(t) \/ CommitUncertain(t) \/ Rollback(t, ok)
               \/ UserStatementFails(t, ok) \/ OwnStatementFails(t, ok)
        PROVE  TypeOK' /\ Ends(t)
    BY <2>8, EndSteps
  <2> QED
    BY <2>1, <2>3, <2>4, <2>5, <2>6, <2>7, <2>8 DEF Steps
<1> QED
  BY <1>1, <1>2

-----------------------------------------------------------------------------
(* The shape of the state is kept by every kind of step. *)

LEMMA ShapeIs ==
  ASSUME Shape
  PROVE  /\ Len(within) \in Nat /\ DOMAIN within = 1..Len(within)
         /\ begun \in Nat /\ unit \in [Threads -> Nat]
         /\ \A t \in Threads :
              /\ Len(stack[t]) \in Nat /\ DOMAIN stack[t] = 1..Len(stack[t])
              /\ \A i \in DOMAIN stack[t] :
                   /\ stack[t][i] \in Frames /\ FrameOK(t, stack[t][i])
                   /\ stack[t][i].id \in 1..Len(within) /\ stack[t][i].unit \in Nat
                   /\ i < Len(stack[t]) => stack[t][i].phase # "read"
<1>1. /\ within \in Seq(SUBSET Nat) /\ begun \in Nat /\ unit \in [Threads -> Nat]
      /\ \A t \in Threads : stack[t] \in Seq(Frames)
  BY DEF Shape, TypeOK
<1>2. /\ Len(within) \in Nat /\ DOMAIN within = 1..Len(within)
  BY <1>1, SeqIs
<1>3. \A t \in Threads : /\ Len(stack[t]) \in Nat /\ DOMAIN stack[t] = 1..Len(stack[t])
                         /\ \A i \in DOMAIN stack[t] : stack[t][i] \in Frames
  BY <1>1, SeqIs
<1>4. \A f \in Frames : f.unit \in Nat
  BY DEF Frames
<1>5. \A t \in Threads : \A i \in DOMAIN stack[t] :
        /\ FrameOK(t, stack[t][i]) /\ stack[t][i].id \in 1..Len(within)
        /\ i < Len(stack[t]) => stack[t][i].phase # "read"
  BY DEF Shape, FramesOK, FrameOK
<1> QED
  BY <1>1, <1>2, <1>3, <1>4, <1>5

LEMMA FrameStays ==
  ASSUME NEW t, NEW f, NEW g, FrameOK(t, f), Follows(f, g), g.id \notin broken',
         Len(within) \in Nat, Len(within') \in Nat, Len(within) <= Len(within'),
         f.unit \in Nat, unit[t] \in Nat, unit'[t] \in Nat, unit[t] <= unit'[t]
  PROVE  FrameOK(t, g)' /\ (g.phase = "read" => f.phase = "read") /\ (HasRead(g) => HasRead(f))
<1>1. /\ g.id = f.id /\ g.op = f.op /\ g.raw = f.raw
      /\ g.keys = f.keys /\ g.old = f.old /\ g.unit = f.unit
      /\ g.set = f.set \/ f.op = "update"
      /\ g.phase = f.phase \/ (f.phase = "before" /\ g.phase \in {"after", "failed"})
  BY DEF Follows
<1>2. HasRead(g) => HasRead(f)
  BY <1>1 DEF HasRead
<1>3. 1..Len(within) \subseteq 1..Len(within') /\ 0..Len(within) \subseteq 0..Len(within')
  OBVIOUS
<1>4. [Columns -> 0..Len(within)] \subseteq [Columns -> 0..Len(within')]
  BY <1>3
<1>5. g.id \in 1..Len(within') /\ g.unit <= unit'[t]
  BY <1>1, <1>3 DEF FrameOK
<1>6. HasRead(g) => g.old \in [Columns -> 0..Len(within')] /\ \E k \in Keys : g.keys = {k}
  BY <1>1, <1>2, <1>4 DEF FrameOK
<1>7. /\ g.op = "batch" <=> g.phase = "batch"
      /\ g.op = "insert" => g.set = Columns
      /\ g.op = "insert" \/ g.raw => g.phase # "read"
  BY <1>1 DEF FrameOK
<1> QED
  BY <1>1, <1>2, <1>5, <1>6, <1>7 DEF FrameOK

LEMMA FollowsItself ==
  ASSUME NEW f  PROVE Follows(f, f)
  BY DEF Follows

LEMMA IdsStay ==
  ASSUME Shape, UNCHANGED within,
         \A t \in Threads :
           /\ DOMAIN stack'[t] = 1..Len(stack'[t]) /\ Len(stack'[t]) \in Nat
           /\ Len(stack'[t]) <= Len(stack[t])
           /\ \A i \in DOMAIN stack'[t] : stack'[t][i].id = stack[t][i].id
  PROVE  IdsOK'
<1>1. \A t \in Threads : /\ Len(stack[t]) \in Nat /\ DOMAIN stack[t] = 1..Len(stack[t])
                         /\ DOMAIN stack'[t] \subseteq DOMAIN stack[t]
  BY ShapeIs
<1>2. /\ \A t, u \in Threads : \A i \in DOMAIN stack[t], j \in DOMAIN stack[u] :
           stack[t][i].id = stack[u][j].id => t = u /\ i = j
      /\ \A t \in Threads : \A i \in DOMAIN stack[t] :
           within[stack[t][i].id] = {stack[t][j].id : j \in 1..(i - 1)}
      /\ \A w \in DOMAIN within : within[w] \subseteq 1..(w - 1)
  BY DEF Shape, IdsOK
<1>3. ASSUME NEW t \in Threads, NEW u \in Threads, NEW i \in DOMAIN stack'[t],
             NEW j \in DOMAIN stack'[u], stack'[t][i].id = stack'[u][j].id
      PROVE  t = u /\ i = j
  <2>1. i \in DOMAIN stack[t] /\ j \in DOMAIN stack[u]
    BY <1>1
  <2>2. stack[t][i].id = stack[u][j].id
    BY <1>3
  <2> QED
    BY <1>2, <2>1, <2>2
<1>4. ASSUME NEW t \in Threads, NEW i \in DOMAIN stack'[t]
      PROVE  within'[stack'[t][i].id] = {stack'[t][j].id : j \in 1..(i - 1)}
  <2>1. \A j \in 1..(i - 1) : j \in DOMAIN stack'[t]
    BY <1>1
  <2>2. {stack'[t][j].id : j \in 1..(i - 1)} = {stack[t][j].id : j \in 1..(i - 1)}
    BY <2>1
  <2>3. stack'[t][i].id = stack[t][i].id /\ i \in DOMAIN stack[t]
    BY <1>1
  <2>4. within[stack[t][i].id] = {stack[t][j].id : j \in 1..(i - 1)}
    BY <1>2, <2>3
  <2>5. within'[stack'[t][i].id] = within[stack[t][i].id]
    BY <2>3
  <2> QED
    BY <2>2, <2>4, <2>5
<1> QED
  BY <1>2, <1>3, <1>4 DEF IdsOK

(* The stack of t goes on, those of the others are as they were. *)
LEMMA StacksFollow ==
  ASSUME Shape, NEW t \in Threads, OthersRest(t), StackFollows(t), UNCHANGED <<within, broken>>,
         unit'[t] \in Nat, unit[t] <= unit'[t]
  PROVE  FramesOK' /\ IdsOK'
<1>1. \A u \in Threads :
        /\ DOMAIN stack'[u] = DOMAIN stack[u] /\ Len(stack'[u]) = Len(stack[u])
        /\ \A i \in DOMAIN stack[u] : Follows(stack[u][i], stack'[u][i])
        /\ unit'[u] \in Nat /\ unit[u] <= unit'[u]
  BY FollowsItself, ShapeIs DEF OthersRest, StackFollows
<1>2. \A u \in Threads : \A i \in DOMAIN stack[u] : stack'[u][i].id = stack[u][i].id
  BY <1>1 DEF Follows
<1>3. ASSUME NEW u \in Threads, NEW i \in DOMAIN stack'[u]
      PROVE  FrameOK(u, stack[u][i])' /\ (i < Len(stack'[u]) => stack'[u][i].phase # "read")
  <2> DEFINE f == stack[u][i]
             g == stack'[u][i]
  <2>1. /\ FrameOK(u, f) /\ f.unit \in Nat /\ unit[u] \in Nat /\ Len(within) \in Nat
        /\ i < Len(stack[u]) => f.phase # "read"
    BY <1>1, ShapeIs
  <2>2. Follows(f, g) /\ unit'[u] \in Nat /\ unit[u] <= unit'[u] /\ g.id \notin broken'
    BY <1>1, <1>2, <2>1 DEF FrameOK
  <2>3. Len(within') = Len(within) /\ Len(stack'[u]) = Len(stack[u])
    BY <1>1
  <2> HIDE DEF f, g
  <2>4. \A h : h = g => FrameOK(u, h)' /\ (g.phase = "read" => f.phase = "read")
    BY <2>1, <2>2, <2>3, FrameStays
  <2> QED
    BY <2>1, <2>3, <2>4 DEF g, FrameOK, HasRead
<1>4. FramesOK'
  BY <1>3 DEF FramesOK
<1>5. IdsOK'
  BY <1>1, <1>2, ShapeIs, IdsStay
<1> QED
  BY <1>4, <1>5

LEMMA UnitOfIs ==
  ASSUME Shape, NEW t \in Threads
  PROVE  UnitOf(t) \in Nat /\ unit[t] <= UnitOf(t) /\ (conn[t].pending => UnitOf(t) = unit[t])
         /\ (~conn[t].pending => unit[t] < UnitOf(t)) /\ UnitOf(t) > 0
<1>1. begun \in Nat /\ unit[t] \in 0..begun /\ (conn[t].pending => unit[t] > 0)
  BY DEF Shape, TypeOK, UnitsOK
<1> QED
  BY <1>1 DEF UnitOf

LEMMA EnterFrames ==
  ASSUME Shape, TypeOK', NEW t \in Threads, Enters(t)
  PROVE  FramesOK' /\ IdsOK'
<1> DEFINE n == Len(stack[t])
           ids == {stack[t][i].id : i \in DOMAIN stack[t]}
           m == Len(within) + 1
           top == stack'[t][n + 1]
<1>1. /\ Len(stack'[t]) = n + 1 /\ DOMAIN stack'[t] = 1..(n + 1)
      /\ \A i \in 1..n : Follows(stack[t][i], stack'[t][i])
      /\ n > 0 => stack[t][n].phase # "read"
      /\ Fresh(top) /\ top.id = m
      /\ within' = Append(within, ids)
      /\ UNCHANGED <<broken, unit>>
      /\ \A u \in Threads \ {t} : stack'[u] = stack[u]
  BY DEF Enters, OthersRest
<1>2. /\ n \in Nat /\ DOMAIN stack[t] = 1..n /\ Len(within) \in Nat /\ DOMAIN within = 1..Len(within)
      /\ within \in Seq(SUBSET Nat) /\ broken \subseteq 1..Len(within)
  BY ShapeIs DEF Shape, TypeOK
<1>3. /\ Len(within') = m /\ DOMAIN within' = 1..m
      /\ \A w \in 1..Len(within) : within'[w] = within[w]
      /\ within'[m] = ids
  <2>1. ids \in SUBSET Nat
    BY ShapeIs
  <2> HIDE DEF ids
  <2> QED
    BY <2>1, <1>1, <1>2, PushIs
<1>4. \A u \in Threads : \A i \in DOMAIN stack'[u] :
        \/ u = t /\ i = n + 1
        \/ /\ i \in DOMAIN stack[u] /\ Follows(stack[u][i], stack'[u][i])
           /\ stack'[u][i].id = stack[u][i].id /\ stack[u][i].id \in 1..Len(within)
  <2>1. \A u \in Threads \ {t} : \A i \in DOMAIN stack'[u] :
          i \in DOMAIN stack[u] /\ Follows(stack[u][i], stack'[u][i])
    BY <1>1, FollowsItself
  <2>2. \A i \in DOMAIN stack'[t] : i # n + 1 => i \in DOMAIN stack[t] /\ Follows(stack[t][i], stack'[t][i])
    BY <1>1, <1>2
  <2>3. \A u \in Threads : \A i \in DOMAIN stack[u] : stack[u][i].id \in 1..Len(within)
    BY ShapeIs
  <2> QED
    BY <2>1, <2>2, <2>3 DEF Follows
<1>5. ASSUME NEW u \in Threads, NEW i \in DOMAIN stack'[u]
      PROVE  FrameOK(u, stack[u][i])' /\ (i < Len(stack'[u]) => stack'[u][i].phase # "read")
  <2>1. CASE u = t /\ i = n + 1
    <3>1. top.id \in 1..m /\ top.id \notin broken /\ top.unit = 0 /\ unit'[t] \in Nat
      BY <1>1, <1>2, ShapeIs DEF Fresh
    <3>2. /\ top.op = "batch" <=> top.phase = "batch"
          /\ top.op = "insert" => top.set = Columns
          /\ top.op = "insert" \/ top.raw => top.phase # "read"
          /\ ~HasRead(top)
      BY <1>1 DEF Fresh
    <3>3. top = stack'[u][i] /\ u = t /\ ~(i < Len(stack'[u]))
      BY <2>1, <1>1, <1>2
    <3>4. FrameOK(u, stack[u][i])'
      <4> HIDE DEF top, m
      <4>1. \A h : h = top => FrameOK(t, h)'
        BY <3>1, <3>2, <1>1, <1>3 DEF FrameOK
      <4> QED
        BY <4>1, <3>3 DEF FrameOK, HasRead
    <3> QED
      BY <3>3, <3>4
  <2>2. CASE ~(u = t /\ i = n + 1)
    <3> DEFINE f == stack[u][i]
               g == stack'[u][i]
    <3>1. i \in DOMAIN stack[u] /\ Follows(f, g) /\ g.id = f.id
      BY <1>4, <2>2
    <3>2. /\ FrameOK(u, f) /\ f.unit \in Nat /\ unit[u] \in Nat
          /\ i < Len(stack[u]) => f.phase # "read"
      BY <3>1, ShapeIs
    <3>3. g.id \notin broken' /\ unit'[u] \in Nat /\ unit[u] <= unit'[u]
      BY <1>1, <3>1, <3>2 DEF FrameOK
    <3>4. i < Len(stack'[u]) => f.phase # "read"
      <4>1. CASE u = t
        BY <4>1, <1>1, <1>2, <3>1, <3>2
      <4>2. CASE u # t
        BY <4>2, <1>1, <3>2
      <4> QED
        BY <4>1, <4>2
    <3>5. Len(within') \in Nat /\ Len(within) <= Len(within')
      BY <1>2, <1>3
    <3> HIDE DEF f, g
    <3>6. \A h : h = g => FrameOK(u, h)' /\ (g.phase = "read" => f.phase = "read")
      BY <1>2, <3>1, <3>2, <3>3, <3>5, FrameStays
    <3> QED
      BY <3>4, <3>6 DEF g, FrameOK, HasRead
  <2> QED
    BY <2>1, <2>2
<1>6. FramesOK'
  BY <1>5 DEF FramesOK
<1>7. /\ \A u, v \in Threads : \A i \in DOMAIN stack[u], j \in DOMAIN stack[v] :
           stack[u][i].id = stack[v][j].id => u = v /\ i = j
      /\ \A u \in Threads : \A i \in DOMAIN stack[u] :
           within[stack[u][i].id] = {stack[u][j].id : j \in 1..(i - 1)}
      /\ \A w \in DOMAIN within : within[w] \subseteq 1..(w - 1)
  BY DEF Shape, IdsOK
<1>8. ASSUME NEW u \in Threads, NEW v \in Threads, NEW i \in DOMAIN stack'[u],
             NEW j \in DOMAIN stack'[v], stack'[u][i].id = stack'[v][j].id
      PROVE  u = v /\ i = j
  <2>1. stack'[t][n + 1].id = m /\ m \notin 1..Len(within)
    BY <1>1, <1>2
  <2>2. CASE u = t /\ i = n + 1
    BY <2>1, <2>2, <1>4, <1>8
  <2>3. CASE v = t /\ j = n + 1
    BY <2>1, <2>3, <1>4, <1>8
  <2>4. CASE ~(u = t /\ i = n + 1) /\ ~(v = t /\ j = n + 1)
    <3>1. i \in DOMAIN stack[u] /\ j \in DOMAIN stack[v] /\ stack[u][i].id = stack[v][j].id
      BY <2>4, <1>4, <1>8
    <3> QED
      BY <3>1, <1>7
  <2> QED
    BY <2>2, <2>3, <2>4
<1>9. ASSUME NEW u \in Threads, NEW i \in DOMAIN stack'[u]
      PROVE  within'[stack'[u][i].id] = {stack'[u][j].id : j \in 1..(i - 1)}
  <2>1. i \in Nat /\ \A j \in 1..(i - 1) : j \in DOMAIN stack[u] /\ stack'[u][j].id = stack[u][j].id
    <3>1. CASE u = t
      <4>1. i \in 1..(n + 1) /\ \A j \in 1..(i - 1) : j \in 1..n
        BY <3>1, <1>1, <1>2
      <4> QED
        BY <4>1, <3>1, <1>1, <1>2 DEF Follows
    <3>2. CASE u # t
      BY <3>2, <1>1, ShapeIs
    <3> QED
      BY <3>1, <3>2
  <2>2. {stack'[u][j].id : j \in 1..(i - 1)} = {stack[u][j].id : j \in 1..(i - 1)}
    BY <2>1
  <2>3. CASE u = t /\ i = n + 1
    <3>1. 1..(i - 1) = DOMAIN stack[t]
      BY <2>3, <1>2
    <3>2. ids = {stack[t][j].id : j \in 1..(i - 1)}
      BY <3>1
    <3>3. within'[stack'[u][i].id] = ids
      BY <2>3, <1>1, <1>3
    <3> QED
      BY <2>2, <2>3, <3>2, <3>3
  <2>4. CASE ~(u = t /\ i = n + 1)
    <3>1. /\ i \in DOMAIN stack[u] /\ stack'[u][i].id = stack[u][i].id
          /\ stack[u][i].id \in 1..Len(within)
      BY <2>4, <1>4
    <3>2. within'[stack'[u][i].id] = within[stack[u][i].id]
      BY <3>1, <1>3
    <3>3. within[stack[u][i].id] = {stack[u][j].id : j \in 1..(i - 1)}
      BY <3>1, <1>7
    <3> QED
      BY <2>2, <3>2, <3>3
  <2> QED
    BY <2>3, <2>4
<1>10. \A w \in DOMAIN within' : within'[w] \subseteq 1..(w - 1)
  <2>1. ids \subseteq 1..(m - 1)
    <3>1. m - 1 = Len(within)
      BY <1>2
    <3> QED
      BY <3>1, ShapeIs
  <2>2. \A w \in DOMAIN within' : w \in DOMAIN within \/ w = m
    BY <1>2, <1>3
  <2> QED
    BY <2>1, <2>2, <1>2, <1>3, <1>7
<1> QED
  BY <1>6, <1>8, <1>9, <1>10 DEF IdsOK

LEMMA LeaveFrames ==
  ASSUME Shape, NEW t \in Threads, Leaves(t)
  PROVE  FramesOK' /\ IdsOK'
<1> DEFINE n == Len(stack[t])
<1>1. /\ stack[t] # << >> /\ Len(stack'[t]) = n - 1 /\ DOMAIN stack'[t] = 1..(n - 1)
      /\ \A i \in 1..(n - 1) : stack'[t][i] = stack[t][i]
      /\ broken' \subseteq broken \cup {stack[t][n].id}
      /\ UNCHANGED <<within, unit>>
      /\ \A u \in Threads \ {t} : stack'[u] = stack[u]
  BY DEF Leaves, OthersRest
<1>2. /\ n \in Nat \ {0} /\ DOMAIN stack[t] = 1..n
  BY <1>1, PopIs, ShapeIs DEF Shape, TypeOK
<1>3. \A u \in Threads :
        /\ DOMAIN stack'[u] = 1..Len(stack'[u]) /\ Len(stack'[u]) \in Nat
        /\ Len(stack'[u]) <= Len(stack[u])
        /\ \A i \in DOMAIN stack'[u] : stack'[u][i] = stack[u][i] /\ i \in DOMAIN stack[u]
  <2>1. \A u \in Threads \ {t} : Len(stack[u]) \in Nat /\ DOMAIN stack[u] = 1..Len(stack[u])
    BY ShapeIs
  <2> QED
    BY <2>1, <1>1, <1>2
<1>4. IdsOK'
  BY <1>1, <1>3, IdsStay
<1>5. ASSUME NEW u \in Threads, NEW i \in DOMAIN stack'[u]
      PROVE  FrameOK(u, stack[u][i])' /\ (i < Len(stack'[u]) => stack'[u][i].phase # "read")
  <2> DEFINE f == stack[u][i]
             g == stack'[u][i]
  <2>1. /\ FrameOK(u, f) /\ f.unit \in Nat /\ unit[u] \in Nat /\ Len(within) \in Nat
        /\ i \in DOMAIN stack[u] /\ i \in Nat /\ Len(stack[u]) \in Nat
        /\ i < Len(stack[u]) => f.phase # "read"
    BY <1>3, ShapeIs
  <2>2. f.id # stack[t][n].id
    <3>1. n \in DOMAIN stack[t] /\ ~(u = t /\ i = n)
      BY <1>1, <1>2
    <3> QED
      BY <2>1, <3>1 DEF Shape, IdsOK
  <2>3. g = f /\ Follows(f, g) /\ g.id \notin broken'
    BY <1>1, <1>3, <2>1, <2>2, FollowsItself DEF FrameOK
  <2>4. Len(within') = Len(within) /\ unit'[u] = unit[u] /\ Len(stack'[u]) <= Len(stack[u])
        /\ Len(stack'[u]) \in Nat
    BY <1>1, <1>3
  <2> HIDE DEF f, g
  <2>5. \A h : h = g => FrameOK(u, h)' /\ (g.phase = "read" => f.phase = "read")
    BY <2>1, <2>3, <2>4, FrameStays
  <2> QED
    BY <2>1, <2>3, <2>4, <2>5 DEF g, FrameOK, HasRead
<1>6. FramesOK'
  BY <1>5 DEF FramesOK
<1> QED
  BY <1>4, <1>6

LEMMA ReadFrames ==
  ASSUME Shape, NEW t \in Threads, Reads(t)
  PROVE  FramesOK' /\ IdsOK'
<1> DEFINE n == Len(stack[t])
           f == stack[t][n]
           g == stack'[t][n]
<1>1. /\ OthersRest(t) /\ UNCHANGED <<within, broken>> /\ unit'[t] = UnitOf(t)
      /\ stack[t] # << >> /\ f.phase = "read"
  BY DEF Reads, Running, OnTop, Top
<1>2. unit'[t] \in Nat /\ unit[t] <= unit'[t]
  BY <1>1, UnitOfIs
<1>3. n \in Nat \ {0} /\ DOMAIN stack[t] = 1..n
  BY <1>1, PopIs, ShapeIs DEF Shape, TypeOK
<1>4. CASE UNCHANGED stack
  BY <1>1, <1>2, <1>4, StackStays, StacksFollow
<1>5. CASE /\ DOMAIN stack'[t] = DOMAIN stack[t] /\ Len(stack'[t]) = n
           /\ \A i \in 1..(n - 1) : stack'[t][i] = stack[t][i]
           /\ \E k \in Keys : View(t, k) # Absent /\ g = ReadFrame(f, k, View(t, k), UnitOf(t))
  <2>1. PICK k \in Keys : View(t, k) # Absent /\ g = ReadFrame(f, k, View(t, k), UnitOf(t))
    BY <1>5
  <2>2. /\ f \in Frames /\ FrameOK(t, f) /\ f.id \in 1..Len(within) /\ Len(within) \in Nat
    BY <1>3, ShapeIs
  <2>3. View(t, k) \in [Columns -> 0..Len(within)]
    BY <2>1 DEF Shape, LocksOK, View
  <2>4. View(t, k) \in Rows /\ UnitOf(t) \in Nat
    <3>1. 0..Len(within) \subseteq Nat
      BY <2>2
    <3> QED
      BY <3>1, <2>3, UnitOfIs DEF Rows
  <2>5. /\ g.op = f.op /\ g.raw = f.raw /\ g.id = f.id /\ g.set = f.set
        /\ g.phase = "before" /\ g.keys = {k} /\ g.old = View(t, k) /\ g.unit = UnitOf(t)
    <3> HIDE DEF f, g
    <3> QED
      BY <2>1, <2>2, <2>4, FrameRead
  <2>6. /\ f.op \in {"update", "delete"} /\ ~f.raw
    <3>1. f.op # "insert" /\ ~f.raw /\ f.op # "batch"
      BY <1>1, <2>2 DEF FrameOK
    <3> QED
      BY <3>1, <2>2 DEF Frames, Operations
  <2>7. \A u \in Threads :
          /\ DOMAIN stack'[u] = DOMAIN stack[u] /\ Len(stack'[u]) = Len(stack[u])
          /\ Len(stack[u]) \in Nat /\ DOMAIN stack[u] = 1..Len(stack[u])
          /\ \A i \in DOMAIN stack[u] : i \in Nat /\ (stack'[u][i] = stack[u][i] \/ (u = t /\ i = n))
    <3>1. \A u \in Threads \ {t} : stack'[u] = stack[u]
      BY <1>1 DEF OthersRest
    <3>2. \A i \in DOMAIN stack[t] : i \in 1..(n - 1) \/ i = n
      BY <1>3
    <3>3. \A u \in Threads : Len(stack[u]) \in Nat /\ DOMAIN stack[u] = 1..Len(stack[u])
      BY ShapeIs
    <3> QED
      BY <1>3, <1>5, <3>1, <3>2, <3>3
  <2>8. \A u \in Threads : \A i \in DOMAIN stack'[u] : stack'[u][i].id = stack[u][i].id
    BY <2>5, <2>7
  <2>9. IdsOK'
    BY <1>1, <2>7, <2>8, IdsStay
  <2>10. ASSUME NEW u \in Threads, NEW i \in DOMAIN stack'[u]
         PROVE  FrameOK(u, stack[u][i])' /\ (i < Len(stack'[u]) => stack'[u][i].phase # "read")
    <3> DEFINE x == stack[u][i]
               y == stack'[u][i]
    <3>1. /\ FrameOK(u, x) /\ x.unit \in Nat /\ unit[u] \in Nat
          /\ i < Len(stack[u]) => x.phase # "read"
      BY <2>7, ShapeIs
    <3>2. unit'[u] \in Nat /\ unit[u] <= unit'[u] /\ Len(within') = Len(within) /\ broken' = broken
      BY <1>1, <1>2, <3>1 DEF OthersRest
    <3>3. CASE y = x
      <4>1. Follows(x, y) /\ y.id \notin broken'
        BY <3>1, <3>2, <3>3, FollowsItself DEF FrameOK
      <4> HIDE DEF x, y
      <4>2. \A h : h = y => FrameOK(u, h)'
        BY <2>2, <3>1, <3>2, <4>1, FrameStays
      <4> QED
        BY <2>7, <3>1, <3>3, <4>2 DEF x, y, FrameOK, HasRead
    <3>4. CASE u = t /\ i = n
      <4>1. y = g
        BY <3>4
      <4>2. /\ g.id \in 1..Len(within) /\ g.id \notin broken /\ g.op # "batch" /\ g.op # "insert"
            /\ ~g.raw /\ g.phase = "before" /\ g.keys = {k} /\ g.unit <= unit'[t]
            /\ g.old \in [Columns -> 0..Len(within)]
        BY <1>1, <2>2, <2>3, <2>5, <2>6, UnitOfIs DEF FrameOK
      <4> HIDE DEF g, y
      <4>3. \A h : h = g => FrameOK(t, h)' /\ h.phase # "read"
        BY <3>2, <4>2 DEF FrameOK, HasRead
      <4> QED
        BY <3>4, <4>1, <4>3 DEF y, FrameOK, HasRead
    <3> QED
      BY <2>7, <3>3, <3>4
  <2>11. FramesOK'
    BY <2>10 DEF FramesOK
  <2> QED
    BY <2>9, <2>11
<1> QED
  BY <1>4, <1>5 DEF Reads

LEMMA FramesKept ==
  ASSUME Shape, TypeOK', NEW t \in Threads, Steps(t)
  PROVE  FramesOK' /\ IdsOK'
<1>1. CASE Quietly(t) \/ Executes(t) \/ Ends(t)
  <2>1. /\ OthersRest(t) /\ StackFollows(t) /\ UNCHANGED <<within, broken>>
        /\ unit'[t] = unit[t] \/ unit'[t] = UnitOf(t)
    BY <1>1 DEF Quietly, Executes, Ends
  <2>2. unit'[t] \in Nat /\ unit[t] <= unit'[t]
    BY <2>1, UnitOfIs, ShapeIs
  <2> QED
    BY <2>1, <2>2, StacksFollow
<1> QED
  BY <1>1, EnterFrames, LeaveFrames, ReadFrames DEF Steps

LEMMA UnitsKept ==
  ASSUME Shape, TypeOK', NEW t \in Threads, Steps(t)
  PROVE  UnitsOK'
<1>1. \A u \in Threads : /\ conn[u].pending => unit[u] > 0 /\ conn[u].execution_error = NoError
                         /\ Running(u, {"read"}) => Usable(u)
  BY DEF Shape, UnitsOK
<1>2. OthersRest(t)
  BY DEF Steps, Quietly, Enters, Leaves, Reads, Executes, Ends
<1>3. \A u \in Threads \ {t} :
        /\ conn'[u].pending => unit'[u] > 0 /\ conn'[u].execution_error = NoError
        /\ Running(u, {"read"})' => Usable(u)'
  BY <1>1, <1>2 DEF OthersRest, Running, OnTop, Top, Usable
<1>4. conn'[t].pending => unit'[t] > 0 /\ conn'[t].execution_error = NoError
  <2>1. CASE Quietly(t) \/ Enters(t) \/ Leaves(t)
    BY <2>1, <1>1 DEF Quietly, Enters, Leaves
  <2>2. CASE Reads(t) \/ Executes(t)
    BY <2>2, UnitOfIs DEF Reads, Executes
  <2>3. CASE Ends(t)
    BY <2>3 DEF Ends
  <2> QED
    BY <2>1, <2>2, <2>3 DEF Steps
<1>5. Running(t, {"read"})' => Usable(t)'
  <2>1. CASE Quietly(t)
    BY <2>1, <1>1 DEF Quietly, Usable
  <2>2. CASE Enters(t)
    BY <2>2 DEF Enters, Usable
  <2>3. CASE Leaves(t)
    <3> DEFINE n == Len(stack[t])
    <3>1. /\ n \in Nat \ {0} /\ DOMAIN stack[t] = 1..n /\ DOMAIN stack'[t] = 1..(n - 1)
          /\ Len(stack'[t]) = n - 1 /\ \A i \in 1..(n - 1) : stack'[t][i] = stack[t][i]
      BY <2>3, PopIs, ShapeIs DEF Leaves, Shape, TypeOK
    <3>2. n = 1 => stack'[t] = << >>
      <4>1. stack'[t] \in Seq(Frames)
        BY DEF TypeOK
      <4> QED
        BY <3>1, <4>1, EmptySeq
    <3>3. n > 1 => stack'[t][n - 1].phase # "read"
      <4>1. n > 1 => n - 1 \in 1..n /\ n - 1 < n /\ n - 1 \in 1..(n - 1)
        BY <3>1
      <4> QED
        BY <3>1, <4>1, ShapeIs
    <3>4. n = 1 \/ n > 1
      <4> HIDE DEF n
      <4> QED
        BY <3>1
    <3> QED
      BY <3>1, <3>2, <3>3, <3>4 DEF Running, OnTop, Top
  <2>4. CASE Reads(t)
    BY <2>4, <1>1 DEF Reads, Usable
  <2>5. CASE Executes(t)
    BY <2>5 DEF Executes, Usable
  <2>6. CASE Ends(t)
    BY <2>6 DEF Ends
  <2> QED
    BY <2>1, <2>2, <2>3, <2>4, <2>5, <2>6 DEF Steps
<1> QED
  BY <1>3, <1>4, <1>5 DEF UnitsOK

LEMMA LocksKept ==
  ASSUME Shape, TypeOK', NEW t \in Threads, Steps(t)
  PROVE  LocksOK'
<1> DEFINE Held == [Columns -> 0..Len(within)] \cup {Absent}
<1>1. \A k \in Keys :
        /\ \A u \in Threads : lock[k] = u => conn[u].pending
        /\ lock[k] = Nobody => own[k] = committed[k]
        /\ own[k] \in Held /\ committed[k] \in Held
  BY DEF Shape, LocksOK
<1>2. \A u \in Threads \ {t} : conn'[u] = conn[u]
  BY DEF Steps, Quietly, Enters, Leaves, Reads, Executes, Ends, OthersRest
<1>3. Len(within') \in Nat /\ Len(within) \in Nat /\ Len(within) <= Len(within')
  <2>1. Len(within') \in Nat /\ within \in Seq(SUBSET Nat) /\ Len(within) \in Nat
    BY SeqIs DEF Shape, TypeOK
  <2>2. CASE Enters(t)
    <3> DEFINE ids == {stack[t][i].id : i \in DOMAIN stack[t]}
    <3>1. within' = Append(within, ids) /\ ids \in SUBSET Nat
      BY <2>2, ShapeIs DEF Enters
    <3> HIDE DEF ids
    <3> QED
      BY <2>1, <3>1, PushIs
  <2>3. CASE ~Enters(t)
    BY <2>1, <2>3 DEF Steps, Quietly, Leaves, Reads, Executes, Ends
  <2> QED
    BY <2>2, <2>3
<1>4. Held \subseteq [Columns -> 0..Len(within')] \cup {Absent}
  <2>1. 0..Len(within) \subseteq 0..Len(within')
    BY <1>3
  <2> QED
    BY <2>1
<1> HIDE DEF Held
<1>5. t # Nobody
  BY ThreadAssumption
<1>6. ASSUME NEW k \in Keys
      PROVE  /\ \A u \in Threads : lock'[k] = u => conn'[u].pending
             /\ lock'[k] = Nobody => own'[k] = committed'[k]
             /\ own'[k] \in Held /\ committed'[k] \in Held
  <2>1. CASE Quietly(t) \/ Enters(t) \/ Leaves(t)
    <3>1. UNCHANGED <<committed, lock, own>> /\ conn'[t].pending = conn[t].pending
      BY <2>1 DEF Quietly, Enters, Leaves, database
    <3> QED
      BY <3>1, <1>1, <1>2
  <2>2. CASE Reads(t)
    <3>1. /\ conn'[t].pending /\ UNCHANGED <<committed, own>>
          /\ lock'[k] = t \/ lock'[k] = lock[k]
      BY <2>2 DEF Reads, LockedBy
    <3> QED
      BY <3>1, <1>1, <1>2, <1>5
  <2>3. CASE Executes(t)
    <3>1. /\ conn'[t].pending /\ UNCHANGED committed /\ Running(t, {"before"})
      BY <2>3 DEF Executes
    <3>2. PICK hit \in SUBSET Keys :
            /\ lock' = LockedBy(t, hit)
            /\ Top(t).op # "insert" => \A x \in hit : View(t, x) # Absent
            /\ own' = [x \in Keys |-> IF x \in hit THEN NewRow(Top(t), View(t, x)) ELSE own[x]]
      BY <2>3 DEF Executes
    <3>3. lock'[k] = IF k \in hit THEN t ELSE lock[k]
      BY <3>2 DEF LockedBy
    <3>4. own'[k] = IF k \in hit THEN NewRow(Top(t), View(t, k)) ELSE own[k]
      BY <3>2
    <3>5. k \in hit => NewRow(Top(t), View(t, k)) \in Held
      <4>1. stack[t] # << >> /\ Top(t).phase = "before"
        BY <3>1 DEF Running, OnTop
      <4> QED
        BY <4>1, <3>2, RowWritten DEF Held
    <3> QED
      BY <3>1, <3>3, <3>4, <3>5, <1>1, <1>2, <1>5
  <2>4. CASE Ends(t)
    <3>1. PICK rows \in {committed, Accepted(t)} : Release(t, rows)
      BY <2>4 DEF Ends
    <3>2. rows[k] \in Held /\ (lock[k] # t => rows[k] = committed[k])
      BY <1>1 DEF Accepted, View
    <3>3. /\ committed'[k] = rows[k]
          /\ lock'[k] = IF lock[k] = t THEN Nobody ELSE lock[k]
          /\ own'[k] = IF lock[k] = t THEN rows[k] ELSE own[k]
      BY <3>1 DEF Release
    <3> QED
      BY <3>2, <3>3, <1>1, <1>2, <1>5, ThreadAssumption
  <2> QED
    BY <2>1, <2>2, <2>3, <2>4 DEF Steps
<1> QED
  BY <1>4, <1>6 DEF LocksOK

LEMMA ShapeInit ==
  ASSUME Init
  PROVE  Shape
<1>1. /\ \A t \in Threads : stack[t] = << >>
      /\ within = << >> /\ broken = {} /\ Len(within) = 0
  BY EmptySeq DEF Init
<1>2. PICK held \in Starts :
        committed = [k \in Keys |-> IF k \in held THEN [c \in Columns |-> 0] ELSE Absent]
  BY DEF Init
<1>3. TypeOK
  <2>1. /\ stack \in [Threads -> Seq(Frames)] /\ triggers \in [Threads -> Seq(1..Len(within))]
        /\ within \in Seq(SUBSET Nat)
    BY EmptySeq DEF Init
  <2>2. /\ committed \in [Keys -> Rows \cup {Absent}] /\ own \in [Keys -> Rows \cup {Absent}]
        /\ lock \in [Keys -> Threads \cup {Nobody}]
    BY <1>2 DEF Init, Rows
  <2>3. conn \in [Threads -> States] /\ exc \in [Threads -> {NoError, Other} \cup Nat]
    BY DEF Init, States, NoError
  <2>4. /\ begun \in Nat /\ unit \in [Threads -> 0..begun] /\ failures \in Nat
        /\ durable \subseteq 1..begun /\ stale \subseteq 1..begun /\ broken \subseteq 1..Len(within)
        /\ touched \subseteq (1..Len(within)) \X (1..begun)
    BY DEF Init
  <2> QED
    BY <2>1, <2>2, <2>3, <2>4 DEF TypeOK
<1>4. DOMAIN << >> = {}
  OBVIOUS
<1>5. FramesOK /\ IdsOK
  BY <1>1, <1>4 DEF FramesOK, IdsOK
<1>6. UnitsOK
  BY <1>1 DEF Init, UnitsOK, Running, OnTop
<1>7. LocksOK
  <2>1. \A k \in Keys : committed[k] \in [Columns -> 0..Len(within)] \cup {Absent}
    BY <1>1, <1>2
  <2>2. own = committed /\ \A k \in Keys : lock[k] = Nobody
    BY DEF Init
  <2> QED
    BY <2>1, <2>2, ThreadAssumption DEF LocksOK
<1> QED
  BY <1>3, <1>5, <1>6, <1>7 DEF Shape

LEMMA ShapeStep ==
  ASSUME Shape, [Next]_vars
  PROVE  Shape'
<1>1. TypeOK'
  BY StepKinds
<1>2. CASE UNCHANGED vars
  BY <1>1, <1>2 DEF Shape, FramesOK, FrameOK, HasRead, IdsOK, UnitsOK, LocksOK, Running, OnTop, Top,
                    Usable, vars, program, database, history
<1>3. CASE \E t \in Threads : Steps(t)
  <2>1. PICK t \in Threads : Steps(t)
    BY <1>3
  <2> QED
    BY <1>1, <2>1, FramesKept, UnitsKept, LocksKept DEF Shape
<1> QED
  BY <1>2, <1>3, StepKinds

(* Every variable of Writes stays within its type, locks are those of open *)
(* units, and every write in progress knows what it was entered in.        *)
THEOREM WritesShape == Spec => []Shape
<1>1. Init => Shape
  BY ShapeInit
<1>2. Shape /\ [Next]_vars => Shape'
  BY ShapeStep
<1> QED
  BY <1>1, <1>2, PTL DEF Spec

(* Every variable of Writes stays within its type (writes.py, triggers.py). *)
THEOREM WritesTypeCorrect == Spec => []TypeOK
<1>1. Shape => TypeOK
  BY DEF Shape
<1> QED
  BY <1>1, WritesShape, PTL

-----------------------------------------------------------------------------
(* What all steps have in common. *)

(* The numbers of the writes and what these were entered in stay.          *)
LEMMA WithinGrows ==
  ASSUME Shape, NEW t \in Threads, Steps(t)
  PROVE  \A w \in DOMAIN within : w \in DOMAIN within' /\ within'[w] = within[w]
<1>1. CASE Enters(t)
  <2> DEFINE ids == {stack[t][i].id : i \in DOMAIN stack[t]}
  <2>1. /\ within' = Append(within, ids) /\ ids \in SUBSET Nat
        /\ within \in Seq(SUBSET Nat)
    BY <1>1, ShapeIs DEF Enters, Shape, TypeOK
  <2> HIDE DEF ids
  <2>2. /\ DOMAIN within = 1..Len(within) /\ Len(within) \in Nat
        /\ DOMAIN within' = 1..(Len(within) + 1)
        /\ \A w \in 1..Len(within) : within'[w] = within[w]
    BY <2>1, PushIs, SeqIs
  <2> QED
    BY <2>2
<1>2. CASE ~Enters(t)
  <2>1. UNCHANGED within
    BY <1>2 DEF Steps, Quietly, Leaves, Reads, Executes, Ends
  <2> QED
    BY <2>1
<1> QED
  BY <1>1, <1>2

(* Nobody changes what another thread has locked.                          *)
LEMMA OthersRows ==
  ASSUME Shape, NEW t \in Threads, Steps(t), NEW u \in Threads \ {t}, NEW k \in Keys
  PROVE  (lock'[k] = u <=> lock[k] = u) /\ (lock[k] = u => own'[k] = own[k])
<1>1. u # Nobody /\ t # Nobody
  BY ThreadAssumption
<1>2. CASE Quietly(t) \/ Enters(t) \/ Leaves(t)
  BY <1>2 DEF Quietly, Enters, Leaves, database
<1>3. CASE Reads(t)
  <2>1. PICK found \in SUBSET Keys : Free(t, found) /\ lock' = LockedBy(t, found)
    BY <1>3 DEF Reads
  <2>2. lock'[k] = IF k \in found THEN t ELSE lock[k]
    BY <2>1 DEF LockedBy
  <2> QED
    BY <2>1, <2>2, <1>1, <1>3 DEF Reads, Free
<1>4. CASE Executes(t)
  <2>1. PICK hit \in SUBSET Keys :
          /\ Free(t, hit) /\ lock' = LockedBy(t, hit)
          /\ own' = [x \in Keys |-> IF x \in hit THEN NewRow(Top(t), View(t, x)) ELSE own[x]]
    BY <1>4 DEF Executes
  <2>2. /\ lock'[k] = IF k \in hit THEN t ELSE lock[k]
        /\ k \notin hit => own'[k] = own[k]
    BY <2>1 DEF LockedBy
  <2> QED
    BY <2>1, <2>2, <1>1 DEF Free
<1>5. CASE Ends(t)
  <2>1. PICK rows \in {committed, Accepted(t)} : Release(t, rows)
    BY <1>5 DEF Ends
  <2>2. /\ lock'[k] = IF lock[k] = t THEN Nobody ELSE lock[k]
        /\ own'[k] = IF lock[k] = t THEN rows[k] ELSE own[k]
    BY <2>1 DEF Release
  <2> QED
    BY <2>2, <1>1
<1> QED
  BY <1>2, <1>3, <1>4, <1>5 DEF Steps

(* A frame follows one of before, is new, or has just read its row.        *)
LEMMA FrameWas ==
  ASSUME Shape, NEW t \in Threads, Steps(t), NEW u \in Threads, NEW i \in DOMAIN stack'[u]
  PROVE  \/ i \in DOMAIN stack[u] /\ Follows(stack[u][i], stack'[u][i])
         \/ /\ u = t /\ Enters(t) /\ i = Len(stack[t]) + 1
            /\ Fresh(stack'[t][i]) /\ stack'[t][i].id = Len(within) + 1
         \/ /\ u = t /\ Reads(t) /\ i = Len(stack[t]) /\ i \in DOMAIN stack[t]
            /\ JustRead(t, stack[t][i], stack'[t][i])
<1> DEFINE n == Len(stack[t])
<1>1. n \in Nat /\ DOMAIN stack[t] = 1..n
  BY ShapeIs
<1>2. CASE u # t
  <2>1. stack'[u] = stack[u]
    BY <1>2 DEF Steps, Quietly, Enters, Leaves, Reads, Executes, Ends, OthersRest
  <2> QED
    BY <2>1, FollowsItself
<1>3. CASE u = t /\ (Quietly(t) \/ Executes(t) \/ Ends(t))
  BY <1>3 DEF Quietly, Executes, Ends, StackFollows
<1>4. CASE u = t /\ Enters(t)
  <2>1. /\ DOMAIN stack'[t] = 1..(n + 1)
        /\ \A x \in 1..n : Follows(stack[t][x], stack'[t][x])
        /\ Fresh(stack'[t][n + 1]) /\ stack'[t][n + 1].id = Len(within) + 1
    BY <1>4 DEF Enters
  <2>2. i \in 1..n \/ i = n + 1
    BY <1>1, <1>4, <2>1
  <2> QED
    BY <1>1, <1>4, <2>1, <2>2
<1>5. CASE u = t /\ Leaves(t)
  <2>1. /\ DOMAIN stack'[t] = 1..(n - 1)
        /\ \A x \in 1..(n - 1) : stack'[t][x] = stack[t][x]
    BY <1>5 DEF Leaves
  <2>2. i \in 1..(n - 1) /\ i \in 1..n
    BY <1>1, <1>5, <2>1
  <2> QED
    BY <1>1, <1>5, <2>1, <2>2, FollowsItself
<1>6. CASE u = t /\ Reads(t)
  <2> DEFINE f == stack[t][n]
             g == stack'[t][n]
  <2>1. PICK found \in SUBSET Keys :
          /\ Free(t, found) /\ lock' = LockedBy(t, found)
          /\ \/ stack' = stack
             \/ /\ DOMAIN stack'[t] = DOMAIN stack[t]
                /\ \A x \in 1..(n - 1) : stack'[t][x] = stack[t][x]
                /\ \E k \in Keys : /\ found = {k} /\ View(t, k) # Absent
                                   /\ g = ReadFrame(f, k, View(t, k), UnitOf(t))
    BY <1>6 DEF Reads
  <2>2. CASE stack' = stack
    BY <1>6, <2>2, FollowsItself
  <2>3. CASE stack' # stack
    <3>1. PICK k \in Keys : /\ found = {k} /\ View(t, k) # Absent
                            /\ g = ReadFrame(f, k, View(t, k), UnitOf(t))
      BY <2>1, <2>3
    <3>2. i \in 1..(n - 1) \/ i = n
      BY <1>1, <1>6, <2>1, <2>3
    <3>3. CASE i \in 1..(n - 1)
      <4>1. i \in 1..n /\ stack'[t][i] = stack[t][i]
        BY <1>1, <2>1, <2>3, <3>3
      <4> QED
        BY <4>1, <1>1, <1>6, FollowsItself
    <3>4. CASE i = n
      <4>1. i \in DOMAIN stack[t] /\ f \in Frames /\ FrameOK(t, f) /\ f.phase = "read"
            /\ Len(within) \in Nat
        BY <1>6, <2>1, <2>3, <3>4, ShapeIs DEF Reads, Running, OnTop, Top
      <4>2. /\ lock[k] \in {t, Nobody} /\ lock'[k] = t
        BY <2>1, <3>1 DEF Free, LockedBy
      <4>3. View(t, k) = own[k]
        BY <4>2 DEF View, Shape, LocksOK
      <4>4. own[k] \in Rows /\ UnitOf(t) \in Nat
        BY <3>1, <4>3, UnitOfIs DEF Shape, TypeOK
      <4>5. g = ReadFrame(f, k, own[k], UnitOf(t))
        BY <3>1, <4>3
      <4>6. f.op # "insert" /\ ~f.raw /\ f.op # "batch"
        BY <4>1 DEF FrameOK
      <4> HIDE DEF f, g
      <4>7. /\ g.op = f.op /\ g.raw = f.raw /\ g.id = f.id
            /\ g.phase = "before" /\ g.keys = {k} /\ g.old = own[k] /\ g.unit = UnitOf(t)
        BY <4>1, <4>4, <4>5, FrameRead
      <4>8. HasRead(g)
        BY <4>1, <4>6, <4>7 DEF HasRead, Frames, Operations
      <4>9. JustRead(t, f, g)
        BY <3>1, <4>1, <4>2, <4>3, <4>7, <4>8 DEF JustRead
      <4> QED
        BY <1>6, <3>4, <4>1, <4>9 DEF f, g
    <3> QED
      BY <3>2, <3>3, <3>4
  <2> QED
    BY <2>2, <2>3
<1> QED
  BY <1>2, <1>3, <1>4, <1>5, <1>6 DEF Steps

(* A snapshot goes back to the statement that read it. *)
LEMMA SnapshotWas ==
  ASSUME Shape, NEW t \in Threads, Steps(t), NEW u \in Threads, NEW i \in DOMAIN stack'[u],
         i \in DOMAIN stack[u], Follows(stack[u][i], stack'[u][i]), Snapshot(u, stack[u][i])'
  PROVE  Snapshot(u, stack[u][i]) /\ (u = t => unit'[t] = unit[t])
<1> DEFINE f == stack[u][i]
           g == stack'[u][i]
<1>1. HasRead(g) /\ g.phase = "before" /\ conn'[u].pending /\ g.unit = unit'[u]
  BY DEF Snapshot, HasRead
<1>2. f.unit \in Nat /\ f.unit <= unit[u] /\ unit[u] \in Nat
  BY ShapeIs DEF FrameOK
<1>3. HasRead(f) /\ f.phase = "before" /\ g.unit = f.unit
  <2> HIDE DEF f, g
  <2>1. Follows(f, g)
    BY DEF f, g
  <2> QED
    BY <1>1, <2>1 DEF Follows, HasRead
<1>4. conn[u].pending /\ unit'[u] = unit[u]
  <2>1. CASE u # t
    BY <1>1, <2>1 DEF Steps, Quietly, Enters, Leaves, Reads, Executes, Ends, OthersRest
  <2>2. CASE u = t /\ (Quietly(t) \/ Enters(t) \/ Leaves(t))
    BY <1>1, <2>2 DEF Quietly, Enters, Leaves
  <2>3. CASE u = t /\ (Reads(t) \/ Executes(t))
    <3>1. unit'[t] = UnitOf(t)
      BY <2>3 DEF Reads, Executes
    <3>2. /\ UnitOf(t) \in Nat /\ (conn[t].pending => UnitOf(t) = unit[t])
          /\ ~conn[t].pending => unit[t] < UnitOf(t)
      BY UnitOfIs
    <3>3. f.unit = UnitOf(t) /\ f.unit <= unit[t] /\ unit[t] \in Nat
      BY <3>1, <1>1, <1>2, <1>3, <2>3
    <3> HIDE DEF f
    <3>4. ~(unit[t] < UnitOf(t))
      BY <3>2, <3>3
    <3> QED
      BY <3>1, <3>2, <3>4, <2>3
  <2>4. CASE u = t /\ Ends(t)
    BY <1>1, <2>4 DEF Ends
  <2> QED
    BY <2>1, <2>2, <2>3, <2>4 DEF Steps
<1> QED
  BY <1>1, <1>3, <1>4 DEF Snapshot

-----------------------------------------------------------------------------
(* What a write has read stays locked and known to it. *)

LEMMA KnownStays ==
  ASSUME Shape, NEW t \in Threads, Steps(t), NEW f, NEW g, g.id = f.id, g.old = f.old,
         NEW c, NEW w, Known(f, c, w)
  PROVE  Known(g, c, w)'
  BY WithinGrows DEF Known

LEMMA SnapshotsHeld ==
  ASSUME Shape, SnapshotIInv, NEW t \in Threads, Steps(t)
  PROVE  SnapshotsHold'
<1> SUFFICES ASSUME NEW u \in Threads, NEW i \in DOMAIN stack'[u], Snapshot(u, stack[u][i])',
                    NEW k \in stack'[u][i].keys
             PROVE  /\ lock'[k] = u
                    /\ own'[k] = Absent \/ \A c \in Columns : Known(stack[u][i], c, own[k][c])'
  BY DEF SnapshotsHold
<1> DEFINE f == stack[u][i]
           g == stack'[u][i]
<1>1. HasRead(g) /\ g.phase = "before" /\ conn'[u].pending /\ g.unit = unit'[u]
  BY DEF Snapshot, HasRead
<1>2. CASE i \in DOMAIN stack[u] /\ Follows(f, g)
  <2>1. Snapshot(u, f) /\ (u = t => unit'[t] = unit[t])
    BY <1>2, SnapshotWas
  <2>2. g.id = f.id /\ g.old = f.old /\ g.keys = f.keys
    <3> HIDE DEF f, g
    <3> QED
      BY <1>2 DEF Follows
  <2>3. k \in Keys
    BY <1>2, <2>2, ShapeIs DEF Frames
  <2>4. lock[k] = u /\ (own[k] = Absent \/ \A c \in Columns : Known(f, c, own[k][c]))
    BY <1>2, <2>1, <2>2 DEF SnapshotIInv, SnapshotsHold
  <2>5. ASSUME own'[k] = own[k]
        PROVE  own'[k] = Absent \/ \A c \in Columns : Known(stack[u][i], c, own[k][c])'
    <3> SUFFICES ASSUME own'[k] # Absent, NEW c \in Columns
                 PROVE  Known(stack[u][i], c, own[k][c])'
      OBVIOUS
    <3>1. Known(f, c, own[k][c])
      BY <2>4, <2>5
    <3> HIDE DEF f, g
    <3>2. \A h, w : h = g /\ w = own[k][c] => Known(h, c, w)'
      BY <2>2, <3>1, KnownStays
    <3> QED
      BY <2>5, <3>2 DEF g, Known
  <2>6. CASE u # t
    BY <2>3, <2>4, <2>5, <2>6, OthersRows
  <2>7. CASE u = t /\ (Quietly(t) \/ Enters(t) \/ Leaves(t))
    <3>1. lock' = lock /\ own' = own
      BY <2>7 DEF Quietly, Enters, Leaves, database
    <3> QED
      BY <3>1, <2>4, <2>5, <2>7
  <2>8. CASE u = t /\ Reads(t)
    <3>1. own' = own /\ (lock[k] = t => lock'[k] = t)
      BY <2>3, <2>8 DEF Reads, LockedBy
    <3> QED
      BY <3>1, <2>4, <2>5, <2>8
  <2>9. CASE u = t /\ Ends(t)
    BY <1>1, <2>9 DEF Ends
  <2>10. CASE u = t /\ Executes(t)
    <3> DEFINE n == Len(stack[t])
               top == Top(t)
    <3>1. PICK hit \in SUBSET Keys :
            /\ lock' = LockedBy(t, hit)
            /\ top.op # "insert" => \A x \in hit : x \in top.keys /\ View(t, x) # Absent
            /\ own' = [x \in Keys |-> IF x \in hit THEN NewRow(top, View(t, x)) ELSE own[x]]
      BY <2>10 DEF Executes
    <3>2. lock'[k] = t
      BY <2>3, <2>4, <2>10, <3>1 DEF LockedBy
    <3>3. CASE k \notin hit
      <4>1. own'[k] = own[k]
        BY <2>3, <3>1, <3>3
      <4> QED
        BY <4>1, <2>5, <2>10, <3>2
    <3>4. CASE k \in hit
      <4>1. View(t, k) = own[k] /\ own'[k] = NewRow(top, own[k])
        BY <2>3, <2>4, <2>10, <3>1, <3>4 DEF View
      <4>2. /\ n \in Nat /\ DOMAIN stack[t] = 1..n /\ stack[t] # << >> /\ top = stack[t][n]
            /\ top.phase = "before" /\ stack'[t][n].phase # "before"
        BY <2>10, ShapeIs DEF Executes, Running, OnTop, Top
      <4>3. i \in 1..n /\ n \in DOMAIN stack[t] /\ i < n
        BY <1>1, <1>2, <2>10, <4>2
      <4>4. /\ FrameOK(t, top) /\ top \in Frames /\ top.id \in DOMAIN within
        BY <4>2, <4>3, ShapeIs
      <4>5. f.id \in within[top.id]
        <5>1. within[stack[t][n].id] = {stack[t][j].id : j \in 1..(n - 1)}
          BY <4>3 DEF Shape, IdsOK
        <5>2. i \in 1..(n - 1)
          BY <4>2, <4>3
        <5> QED
          BY <5>1, <5>2, <4>2, <2>10
      <4>6. \A c \in Columns : Known(f, c, top.id)
        BY <4>4, <4>5 DEF Known
      <4>7. HasRead(top) =>
              \A c \in Columns : k \in top.keys => Known(f, c, top.old[c])
        <5> SUFFICES ASSUME HasRead(top), k \in top.keys, NEW c \in Columns
                     PROVE  Known(f, c, top.old[c])
          OBVIOUS
        <5>1. f.unit <= top.unit /\ (f.unit = top.unit => Known(f, c, top.old[c]))
          BY <1>2, <2>1, <2>2, <2>10, <4>2, <4>3 DEF SnapshotIInv, SnapshotsNest
        <5>2. f.unit = unit[t] /\ top.unit <= unit[t] /\ top.unit \in Nat /\ unit[t] \in Nat
          BY <2>1, <2>10, <4>2, <4>3, <4>4, ShapeIs DEF Snapshot, FrameOK
        <5> HIDE DEF f, top
        <5> QED
          BY <5>1, <5>2
      <4>8. own'[k] = Absent \/ \A c \in Columns : Known(f, c, own'[k][c])
        <5> SUFFICES ASSUME own'[k] # Absent, NEW c \in Columns
                     PROVE  Known(f, c, own'[k][c])
          OBVIOUS
        <5>1. top.op # "delete"
          BY <4>1 DEF NewRow
        <5>2. own'[k][c] = IF c \in top.set THEN top.id ELSE IF top.raw THEN own[k][c] ELSE top.old[c]
          BY <4>1, <5>1 DEF NewRow
        <5>3. CASE c \in top.set
          BY <4>6, <5>2, <5>3
        <5>4. CASE c \notin top.set
          <6>1. top.op = "update"
            BY <4>2, <4>4, <5>1, <5>4 DEF FrameOK, Frames, Operations
          <6>2. k \in top.keys /\ own[k] # Absent
            BY <3>1, <3>4, <4>1, <6>1
          <6>3. CASE top.raw
            BY <2>4, <5>2, <5>4, <6>2, <6>3
          <6>4. CASE ~top.raw
            <7>1. HasRead(top)
              BY <4>2, <6>1, <6>4 DEF HasRead
            <7> QED
              BY <4>7, <5>2, <5>4, <6>2, <6>4, <7>1
          <6> QED
            BY <6>3, <6>4
        <5> QED
          BY <5>3, <5>4
      <4>9. own'[k] = Absent \/ \A c \in Columns : Known(stack[u][i], c, own[k][c])'
        <5> SUFFICES ASSUME own'[k] # Absent, NEW c \in Columns
                     PROVE  Known(stack[u][i], c, own[k][c])'
          OBVIOUS
        <5>1. Known(f, c, own'[k][c])
          BY <4>8
        <5> HIDE DEF f, g
        <5>2. \A h, w : h = g /\ w = own'[k][c] => Known(h, c, w)'
          BY <2>2, <5>1, KnownStays
        <5> QED
          BY <5>2 DEF g, Known
      <4> QED
        BY <2>10, <3>2, <4>9
    <3> QED
      BY <3>3, <3>4
  <2> QED
    BY <2>6, <2>7, <2>8, <2>9, <2>10 DEF Steps
<1>3. CASE u = t /\ Fresh(g)
  BY <1>1, <1>3 DEF Fresh
<1>4. CASE u = t /\ Reads(t) /\ JustRead(t, f, g)
  <2>1. lock'[k] = t /\ g.old = own[k] /\ own' = own
    BY <1>4 DEF JustRead, Reads
  <2> QED
    BY <2>1, <1>4 DEF Known
<1> QED
  BY <1>2, <1>3, <1>4, FrameWas

LEMMA SnapshotsNested ==
  ASSUME Shape, SnapshotIInv, NEW t \in Threads, Steps(t)
  PROVE  SnapshotsNest'
<1> SUFFICES ASSUME NEW u \in Threads, NEW i \in DOMAIN stack'[u], NEW j \in DOMAIN stack'[u],
                    i < j, Snapshot(u, stack[u][i])', HasRead(stack'[u][j])
             PROVE  /\ stack'[u][i].unit <= stack'[u][j].unit
                    /\ stack'[u][i].unit = stack'[u][j].unit =>
                         \A k \in stack'[u][i].keys \cap stack'[u][j].keys : \A c \in Columns :
                           Known(stack[u][i], c, stack[u][j].old[c])'
  BY DEF SnapshotsNest, HasRead
<1> DEFINE f == stack[u][i]
           g == stack'[u][i]
           x == stack[u][j]
           y == stack'[u][j]
           n == Len(stack[t])
<1>1. /\ n \in Nat /\ DOMAIN stack[t] = 1..n /\ DOMAIN stack[u] = 1..Len(stack[u])
      /\ Len(stack[u]) \in Nat
  BY ShapeIs
<1>2. /\ i \in DOMAIN stack[u] /\ Follows(f, g)
      /\ \/ j \in DOMAIN stack[u] /\ Follows(x, y)
         \/ u = t /\ Reads(t) /\ j = n /\ j \in DOMAIN stack[t] /\ JustRead(t, x, y)
  <2>1. \/ j \in DOMAIN stack[u] /\ Follows(x, y)
        \/ u = t /\ Reads(t) /\ j = n /\ j \in DOMAIN stack[t] /\ JustRead(t, x, y)
    BY FrameWas DEF Fresh
  <2>2. ~(u = t /\ i = n) /\ ~(u = t /\ i = n + 1)
    BY <2>1, <1>1
  <2> QED
    BY <2>1, <2>2, FrameWas
<1>3. Snapshot(u, f) /\ (u = t => unit'[t] = unit[t])
  BY <1>2, SnapshotWas
<1>4. g.id = f.id /\ g.old = f.old /\ g.keys = f.keys /\ g.unit = f.unit
  <2> HIDE DEF f, g
  <2> QED
    BY <1>2 DEF Follows
<1>5. ASSUME NEW c \in Columns, Known(f, c, y.old[c])
      PROVE  Known(stack[u][i], c, stack[u][j].old[c])'
  <2> HIDE DEF f, g, y
  <2>1. \A h, w : h = g /\ w = y.old[c] => Known(h, c, w)'
    BY <1>4, <1>5, KnownStays
  <2> QED
    BY <2>1 DEF g, y, Known
<1>6. CASE j \in DOMAIN stack[u] /\ Follows(x, y)
  <2>1. y.old = x.old /\ y.keys = x.keys /\ y.unit = x.unit /\ (HasRead(y) => HasRead(x))
    <3> HIDE DEF x, y
    <3> QED
      BY <1>6 DEF Follows, HasRead
  <2>2. /\ f.unit <= x.unit
        /\ f.unit = x.unit => \A k \in f.keys \cap x.keys : \A c \in Columns : Known(f, c, x.old[c])
    BY <1>2, <1>3, <1>6, <2>1 DEF SnapshotIInv, SnapshotsNest
  <2> QED
    BY <1>4, <1>5, <2>1, <2>2
<1>7. CASE u = t /\ JustRead(t, x, y)
  <2>1. PICK k \in Keys : y.keys = {k} /\ y.old = own[k] /\ own[k] # Absent /\ y.unit = UnitOf(t)
    BY <1>7 DEF JustRead
  <2>2. conn[t].pending /\ f.unit = unit[t] /\ unit[t] \in Nat /\ UnitOf(t) = unit[t]
    BY <1>3, <1>7, UnitOfIs, ShapeIs DEF Snapshot
  <2>3. k \in f.keys => \A c \in Columns : Known(f, c, own[k][c])
    BY <1>2, <1>3, <1>7, <2>1 DEF SnapshotIInv, SnapshotsHold
  <2>4. g.unit = y.unit /\ y.unit \in Nat
    BY <1>4, <2>1, <2>2
  <2>5. \A k2 \in g.keys \cap y.keys : k2 = k /\ k \in f.keys
    BY <1>4, <2>1
  <2> QED
    BY <1>5, <2>1, <2>3, <2>4, <2>5
<1> QED
  BY <1>2, <1>6, <1>7

LEMMA SnapshotInit ==
  ASSUME Init
  PROVE  SnapshotIInv
<1>1. \A t \in Threads : DOMAIN stack[t] = {}
  <2>1. DOMAIN << >> = {}
    OBVIOUS
  <2> QED
    BY <2>1 DEF Init
<1> QED
  BY <1>1 DEF SnapshotIInv, SnapshotsHold, SnapshotsNest

(* Every snapshot that is still to be used holds: its rows are locked, and *)
(* what is in them is what was read or comes from the hooks of its write.  *)
THEOREM SnapshotInvariance == Spec => []SnapshotIInv
<1>1. Init => SnapshotIInv
  BY SnapshotInit
<1>2. Shape /\ SnapshotIInv /\ [Next]_vars => SnapshotIInv'
  <2> SUFFICES ASSUME Shape, SnapshotIInv, [Next]_vars
               PROVE  SnapshotIInv'
    OBVIOUS
  <2>1. CASE UNCHANGED vars
    BY <2>1 DEF SnapshotIInv, SnapshotsHold, SnapshotsNest, Snapshot, HasRead, Known,
                vars, program, database, history
  <2>2. CASE \E t \in Threads : Steps(t)
    BY <2>2, SnapshotsHeld, SnapshotsNested DEF SnapshotIInv
  <2> QED
    BY <2>1, <2>2, StepKinds
<1> QED
  BY <1>1, <1>2, WritesShape, PTL DEF Spec

(* Between its locked read and its statement an ordinary write works on    *)
(* what it read, whatever other threads and its own hooks do, as long as   *)
(* no failure ends the unit (writes.py:103-116).                           *)
THEOREM SnapshotsAreKept == Spec => []LockedSnapshotHolds
<1>1. SnapshotIInv => LockedSnapshotHolds
  BY DEF SnapshotIInv, SnapshotsHold, Snapshot, HasRead, Known, LockedSnapshotHolds
<1> QED
  BY <1>1, SnapshotInvariance, PTL

-----------------------------------------------------------------------------
(* What a broken write and its hooks have done is not committed. *)

LEMMA ValuesAre ==
  ASSUME Len(within) \in Nat, NEW row \in [Columns -> 0..Len(within)]
  PROVE  Values(row) \subseteq 1..Len(within)
  BY DEF Values

(* Who is in a write after a step was in it before: the numbers of writes  *)
(* entered later are in no old family.                                     *)
LEMMA FamilyWas ==
  ASSUME Shape, NEW t \in Threads, Steps(t), NEW w \in 1..Len(within)
  PROVE  /\ Family(w)' = Family(w)
         /\ \A u \in Threads : \A i \in DOMAIN stack'[u] : stack'[u][i].id \in Family(w) =>
              /\ i \in DOMAIN stack[u] /\ stack[u][i].id \in Family(w)
              /\ stack'[u][i].phase = "read" => stack[u][i].phase = "read"
<1>1. Len(within) \in Nat /\ DOMAIN within = 1..Len(within)
  BY ShapeIs
<1>2. Family(w)' = Family(w)
  BY <1>1, WithinGrows DEF Family
<1>3. Family(w) \subseteq 1..Len(within)
  <2>1. within[w] \subseteq 1..(w - 1)
    BY <1>1 DEF Shape, IdsOK
  <2>2. \A x \in 1..(w - 1) : x \in 1..Len(within)
    BY <1>1
  <2> QED
    BY <2>1, <2>2 DEF Family
<1>4. ASSUME NEW u \in Threads, NEW i \in DOMAIN stack'[u], stack'[u][i].id \in Family(w)
      PROVE  /\ i \in DOMAIN stack[u] /\ stack[u][i].id \in Family(w)
             /\ stack'[u][i].phase = "read" => stack[u][i].phase = "read"
  <2>1. CASE i \in DOMAIN stack[u] /\ Follows(stack[u][i], stack'[u][i])
    BY <1>4, <2>1 DEF Follows
  <2>2. CASE u = t /\ stack'[t][i].id = Len(within) + 1
    <3>1. Len(within) + 1 \notin 1..Len(within)
      BY <1>1
    <3> QED
      BY <1>3, <1>4, <2>2, <3>1
  <2>3. CASE u = t /\ i \in DOMAIN stack[t] /\ JustRead(t, stack[t][i], stack'[t][i])
    BY <1>4, <2>3 DEF JustRead
  <2> QED
    BY <2>1, <2>2, <2>3, FrameWas
<1> QED
  BY <1>2, <1>4

(* A step breaks at most the innermost write of its thread. *)
LEMMA BrokenWas ==
  ASSUME Shape, NEW t \in Threads, Steps(t), NEW w \in 1..Len(within), Unbroken(w)
  PROVE  \/ Unbroken(w)'
         \/ /\ Leaves(t) /\ Len(stack[t]) \in DOMAIN stack[t]
            /\ stack[t][Len(stack[t])].id \in Family(w)
            /\ conn'[t].failed \/ ~conn[t].pending
<1>1. Family(w)' = Family(w)
  BY FamilyWas
<1>2. CASE Leaves(t)
  <2> DEFINE n == Len(stack[t])
  <2>1. n \in DOMAIN stack[t]
    BY <1>2, PopIs, ShapeIs DEF Leaves, Shape, TypeOK
  <2>2. \/ UNCHANGED broken
        \/ /\ broken' = broken \cup {stack[t][n].id}
           /\ conn'[t].failed \/ ~conn[t].pending
    BY <1>2 DEF Leaves
  <2> QED
    BY <1>1, <1>2, <2>1, <2>2 DEF Unbroken
<1>3. CASE ~Leaves(t)
  <2>1. UNCHANGED broken
    BY <1>3 DEF Steps, Quietly, Enters, Reads, Executes, Ends
  <2> QED
    BY <1>1, <2>1 DEF Unbroken
<1> QED
  BY <1>2, <1>3

LEMMA CleanStays ==
  ASSUME Shape, NEW t \in Threads, Steps(t), NEW w \in 1..Len(within)
  PROVE  /\ NoneIn(w) /\ Unbroken(w) => (NoneIn(w) /\ Unbroken(w))'
         /\ \A u \in Threads, j \in Nat : j \in DOMAIN stack'[u] =>
              (StaysBelow(u, j, w) /\ Unbroken(w) => (StaysBelow(u, j, w) /\ Unbroken(w))')
         /\ \A u \in Threads : OnlyIn(u, w) => OnlyIn(u, w)'
         /\ \A u \in Threads \ {t} : OnlyIn(u, w) /\ Unbroken(w) => Unbroken(w)'
<1> DEFINE n == Len(stack[t])
<1>1. /\ Family(w)' = Family(w)
      /\ \A u \in Threads : \A i \in DOMAIN stack'[u] : stack'[u][i].id \in Family(w) =>
           /\ i \in DOMAIN stack[u] /\ stack[u][i].id \in Family(w)
           /\ stack'[u][i].phase = "read" => stack[u][i].phase = "read"
  BY FamilyWas
<1>2. Unbroken(w) =>
        \/ Unbroken(w)'
        \/ Leaves(t) /\ n \in DOMAIN stack[t] /\ stack[t][n].id \in Family(w)
  BY BrokenWas
<1>3. NoneIn(w) /\ Unbroken(w) => (NoneIn(w) /\ Unbroken(w))'
  BY <1>1, <1>2 DEF NoneIn
<1>4. ASSUME NEW u \in Threads, NEW j \in Nat, j \in DOMAIN stack'[u], StaysBelow(u, j, w), Unbroken(w)
      PROVE  (StaysBelow(u, j, w) /\ Unbroken(w))'
  <2>1. StaysBelow(u, j, w)'
    BY <1>1, <1>4 DEF StaysBelow
  <2>2. CASE Leaves(t) /\ n \in DOMAIN stack[t] /\ stack[t][n].id \in Family(w)
    <3>1. u = t /\ n < j
      BY <1>4, <2>2 DEF StaysBelow
    <3>2. DOMAIN stack'[t] = 1..(n - 1) /\ n \in Nat
      BY <2>2, ShapeIs DEF Leaves
    <3>3. j \in 1..(n - 1)
      BY <1>4, <3>1, <3>2
    <3> QED
      BY <3>1, <3>2, <3>3
  <2> QED
    BY <1>2, <1>4, <2>1, <2>2
<1>5. ASSUME NEW u \in Threads, OnlyIn(u, w)
      PROVE  OnlyIn(u, w)'
  BY <1>1, <1>5 DEF OnlyIn
<1>6. ASSUME NEW u \in Threads \ {t}, OnlyIn(u, w), Unbroken(w)
      PROVE  Unbroken(w)'
  BY <1>2, <1>6 DEF OnlyIn
<1> QED
  BY <1>3, <1>4, <1>5, <1>6

LEMMA RowValues ==
  ASSUME Shape
  PROVE  /\ \A k \in Keys : own[k] # Absent => Values(own[k]) \subseteq 1..Len(within)
         /\ \A k \in Keys : committed[k] # Absent => Values(committed[k]) \subseteq 1..Len(within)
         /\ \A t \in Threads : \A i \in DOMAIN stack[t] :
              HasRead(stack[t][i]) => Values(stack[t][i].old) \subseteq 1..Len(within)
  BY ValuesAre, ShapeIs DEF Shape, LocksOK, FrameOK

(* What a thread may read and change is clean as long as its unit may be   *)
(* accepted.                                                               *)
LEMMA FreeIsClean ==
  ASSUME Shape, CleanIInv, NEW t \in Threads, Usable(t), NEW k \in Keys,
         lock[k] \in {t, Nobody}, own[k] # Absent
  PROVE  \A w \in Values(own[k]) : Unbroken(w) /\ OnlyIn(t, w)
<1>1. CASE lock[k] = t
  BY <1>1 DEF CleanIInv, OwnIsClean, Usable
<1>2. CASE lock[k] = Nobody
  <2>1. own[k] = committed[k]
    BY <1>2 DEF Shape, LocksOK
  <2> QED
    BY <2>1 DEF CleanIInv, CommittedIsClean, NoneIn, OnlyIn
<1> QED
  BY <1>1, <1>2

LEMMA ReadsStayClean ==
  ASSUME Shape, CleanIInv, NEW t \in Threads, Steps(t)
  PROVE  ReadsAreClean'
<1> SUFFICES ASSUME NEW u \in Threads, NEW j \in DOMAIN stack'[u], HasRead(stack'[u][j]),
                    NEW w \in Values(stack'[u][j].old)
             PROVE  (Unbroken(w) /\ StaysBelow(u, j, w))'
  BY DEF ReadsAreClean, HasRead, Values
<1> DEFINE x == stack[u][j]
           y == stack'[u][j]
<1>1. CASE j \in DOMAIN stack[u] /\ Follows(x, y)
  <2>1. y.old = x.old /\ HasRead(x)
    <3>1. HasRead(y)
      OBVIOUS
    <3> HIDE DEF x, y
    <3> QED
      BY <1>1, <3>1 DEF Follows, HasRead
  <2>2. w \in 1..Len(within) /\ j \in Nat
    BY <1>1, <2>1, RowValues, ShapeIs
  <2>3. Unbroken(w) /\ StaysBelow(u, j, w)
    BY <1>1, <2>1 DEF CleanIInv, ReadsAreClean
  <2> QED
    BY <2>2, <2>3, CleanStays
<1>2. CASE u = t /\ Fresh(y)
  BY <1>2 DEF Fresh
<1>3. CASE u = t /\ Reads(t) /\ j = Len(stack[t]) /\ j \in DOMAIN stack[t] /\ JustRead(t, x, y)
  <2>1. PICK k \in Keys : y.old = own[k] /\ own[k] # Absent /\ lock[k] \in {t, Nobody}
    BY <1>3 DEF JustRead
  <2>2. Usable(t) /\ x.phase = "read"
    BY <1>3 DEF Reads, Shape, UnitsOK, JustRead
  <2>3. w \in 1..Len(within) /\ j \in Nat
    BY <1>3, <2>1, RowValues, ShapeIs
  <2>4. Unbroken(w) /\ OnlyIn(t, w)
    BY <2>1, <2>2, FreeIsClean
  <2>5. StaysBelow(t, j, w)
    <3> SUFFICES ASSUME NEW v \in Threads, NEW i \in DOMAIN stack[v], stack[v][i].id \in Family(w)
                 PROVE  v = t /\ i < j
      BY DEF StaysBelow
    <3>1. v = t /\ stack[v][i].phase # "read"
      BY <2>4 DEF OnlyIn
    <3>2. i # j /\ i \in 1..Len(stack[t]) /\ Len(stack[t]) \in Nat
      BY <1>3, <2>2, <3>1, ShapeIs
    <3> QED
      BY <1>3, <3>1, <3>2
  <2> QED
    BY <1>3, <2>3, <2>4, <2>5, CleanStays
<1> QED
  BY <1>1, <1>2, <1>3, FrameWas

LEMMA CommittedStaysClean ==
  ASSUME Shape, CleanIInv, NEW t \in Threads, Steps(t)
  PROVE  CommittedIsClean'
<1> SUFFICES ASSUME NEW k \in Keys, committed'[k] # Absent, NEW w \in Values(committed'[k])
             PROVE  (Unbroken(w) /\ NoneIn(w))'
  BY DEF CommittedIsClean, Values
<1>1. CASE committed'[k] = committed[k]
  <2>1. Unbroken(w) /\ NoneIn(w) /\ w \in 1..Len(within)
    BY <1>1, RowValues DEF CleanIInv, CommittedIsClean
  <2> QED
    BY <2>1, CleanStays
<1>2. CASE committed'[k] # committed[k]
  <2>1. Ends(t)
    BY <1>2 DEF Steps, Quietly, Enters, Leaves, Reads, Executes, database
  <2>2. stack[t] = << >> /\ Usable(t) /\ committed'[k] = View(t, k)
    BY <1>2, <2>1 DEF Ends, Release, Accepted
  <2>3. lock[k] = t /\ committed'[k] = own[k]
    BY <1>2, <2>2 DEF View
  <2>4. Unbroken(w) /\ OnlyIn(t, w) /\ w \in 1..Len(within)
    BY <2>2, <2>3, FreeIsClean, RowValues
  <2>5. DOMAIN stack[t] = {}
    <3>1. DOMAIN << >> = {}
      OBVIOUS
    <3> QED
      BY <2>2, <3>1
  <2>6. NoneIn(w)
    BY <2>4, <2>5 DEF NoneIn, OnlyIn
  <2> QED
    BY <2>4, <2>6, CleanStays
<1> QED
  BY <1>1, <1>2

(* The write whose statement runs, and those it was entered in, are going  *)
(* on.                                                                     *)
LEMMA TopIsClean ==
  ASSUME Shape, NEW t \in Threads, stack[t] # << >>, Top(t).phase = "before"
  PROVE  Top(t).id \in 1..Len(within) /\ Unbroken(Top(t).id) /\ OnlyIn(t, Top(t).id)
<1> DEFINE n == Len(stack[t])
           f == stack[t][n]
<1>1. /\ n \in Nat /\ DOMAIN stack[t] = 1..n /\ n \in DOMAIN stack[t] /\ Top(t) = f
      /\ f.phase = "before"
  BY PopIs, ShapeIs DEF Shape, TypeOK, Top
<1>2. Family(f.id) = {stack[t][j].id : j \in 1..n}
  <2>1. within[f.id] = {stack[t][j].id : j \in 1..(n - 1)}
    BY <1>1 DEF Shape, IdsOK
  <2>2. 1..n = 1..(n - 1) \cup {n}
    BY <1>1
  <2> QED
    BY <2>1, <2>2 DEF Family
<1>3. Unbroken(f.id)
  BY <1>1, <1>2, ShapeIs DEF Unbroken, FrameOK
<1>4. OnlyIn(t, f.id)
  <2> SUFFICES ASSUME NEW u \in Threads, NEW i \in DOMAIN stack[u], stack[u][i].id \in Family(f.id)
               PROVE  u = t /\ stack[u][i].phase # "read"
    BY DEF OnlyIn
  <2>1. PICK j \in 1..n : stack[u][i].id = stack[t][j].id
    BY <1>2
  <2>2. u = t /\ i = j
    BY <1>1, <2>1 DEF Shape, IdsOK
  <2>3. i < n \/ i = n
    BY <1>1, <2>2
  <2> QED
    BY <1>1, <2>2, <2>3, ShapeIs
<1> QED
  BY <1>1, <1>3, <1>4, ShapeIs

(* What a statement leaves in a row is from its own write, from what that  *)
(* has read, or from what was in the row.                                  *)
LEMMA StatementIsClean ==
  ASSUME Shape, CleanIInv, NEW t \in Threads, Executes(t), NEW k \in Keys,
         lock[k] \in {t, Nobody}, Top(t).op # "insert" => View(t, k) # Absent,
         NewRow(Top(t), View(t, k)) # Absent, NEW w \in Values(NewRow(Top(t), View(t, k)))
  PROVE  w \in 1..Len(within) /\ Unbroken(w) /\ OnlyIn(t, w)
<1> DEFINE n == Len(stack[t])
           f == Top(t)
<1>1. /\ n \in Nat /\ DOMAIN stack[t] = 1..n /\ n \in DOMAIN stack[t] /\ f = stack[t][n]
      /\ f.phase = "before" /\ Usable(t) /\ stack[t] # << >>
  BY PopIs, ShapeIs DEF Shape, TypeOK, Top, Executes, Running, OnTop
<1>2. f \in Frames /\ FrameOK(t, f)
  BY <1>1, ShapeIs
<1>3. View(t, k) = own[k]
  BY DEF View, Shape, LocksOK
<1>4. f.op # "delete"
  BY DEF NewRow
<1>5. PICK c \in Columns : w # 0 /\ w = NewRow(f, own[k])[c]
  BY <1>3 DEF Values
<1>6. w = IF c \in f.set THEN f.id ELSE IF f.raw THEN own[k][c] ELSE f.old[c]
  BY <1>4, <1>5 DEF NewRow
<1>7. CASE c \in f.set
  BY <1>1, <1>6, <1>7, TopIsClean
<1>8. CASE c \notin f.set
  <2>1. f.op = "update"
    BY <1>1, <1>2, <1>4, <1>8 DEF FrameOK, Frames, Operations
  <2>2. CASE f.raw
    <3>1. own[k] # Absent /\ w \in Values(own[k])
      BY <1>3, <1>5, <1>6, <1>8, <2>1, <2>2 DEF Values
    <3> QED
      BY <1>1, <3>1, FreeIsClean, RowValues
  <2>3. CASE ~f.raw
    <3>1. HasRead(f) /\ w \in Values(f.old)
      BY <1>1, <1>5, <1>6, <1>8, <2>1, <2>3 DEF Values, HasRead
    <3>2. Unbroken(w) /\ StaysBelow(t, n, w) /\ w \in 1..Len(within)
      BY <1>1, <3>1, RowValues DEF CleanIInv, ReadsAreClean
    <3>3. OnlyIn(t, w)
      <4> SUFFICES ASSUME NEW u \in Threads, NEW i \in DOMAIN stack[u], stack[u][i].id \in Family(w)
                   PROVE  u = t /\ stack[u][i].phase # "read"
        BY DEF OnlyIn
      <4>1. u = t /\ i < n
        BY <3>2 DEF StaysBelow
      <4> QED
        BY <4>1, ShapeIs
    <3> QED
      BY <3>2, <3>3
  <2> QED
    BY <2>2, <2>3
<1> QED
  BY <1>7, <1>8

LEMMA OwnStaysClean ==
  ASSUME Shape, CleanIInv, NEW t \in Threads, Steps(t)
  PROVE  OwnIsClean'
<1> SUFFICES ASSUME NEW u \in Threads, NEW k \in Keys, lock'[k] = u, own'[k] # Absent,
                    NEW w \in Values(own'[k])
             PROVE  ((Unbroken(w) \/ conn[u].failed) /\ OnlyIn(u, w))'
  BY DEF OwnIsClean, Values
<1>1. CASE u # t
  <2>1. lock[k] = u /\ own'[k] = own[k] /\ conn'[u] = conn[u]
    <3>1. conn'[u] = conn[u]
      BY <1>1 DEF Steps, Quietly, Enters, Leaves, Reads, Executes, Ends, OthersRest
    <3> QED
      BY <1>1, <3>1, OthersRows
  <2>2. (Unbroken(w) \/ conn[u].failed) /\ OnlyIn(u, w) /\ w \in 1..Len(within)
    BY <2>1, RowValues DEF CleanIInv, OwnIsClean
  <2> QED
    BY <1>1, <2>1, <2>2, CleanStays
<1>2. ASSUME w \in 1..Len(within), Unbroken(w), OnlyIn(t, w), Reads(t) \/ Executes(t)
      PROVE  (Unbroken(w) /\ OnlyIn(t, w))'
  <2>1. UNCHANGED broken
    BY <1>2 DEF Reads, Executes
  <2> QED
    BY <1>2, <2>1, CleanStays, FamilyWas DEF Unbroken
<1>3. CASE u = t /\ (Quietly(t) \/ Enters(t) \/ Leaves(t))
  <2>1. /\ lock[k] = t /\ own'[k] = own[k] /\ (conn[t].failed => conn'[t].failed)
    BY <1>3 DEF Quietly, Enters, Leaves, database
  <2>2. (Unbroken(w) \/ conn[t].failed) /\ OnlyIn(t, w) /\ w \in 1..Len(within)
    BY <2>1, RowValues DEF CleanIInv, OwnIsClean
  <2>3. conn[t].pending
    BY <2>1 DEF Shape, LocksOK
  <2> QED
    BY <1>3, <2>1, <2>2, <2>3, CleanStays, BrokenWas
<1>4. CASE u = t /\ Reads(t)
  <2>1. own'[k] = own[k] /\ Usable(t)
    BY <1>4 DEF Reads, Shape, UnitsOK
  <2>2. lock[k] \in {t, Nobody}
    BY <1>4 DEF Reads, LockedBy, Free
  <2>3. Unbroken(w) /\ OnlyIn(t, w) /\ w \in 1..Len(within)
    BY <2>1, <2>2, FreeIsClean, RowValues
  <2> QED
    BY <1>2, <1>4, <2>3
<1>5. CASE u = t /\ Executes(t)
  <2>1. PICK hit \in SUBSET Keys :
          /\ Free(t, hit) /\ lock' = LockedBy(t, hit)
          /\ Top(t).op # "insert" => \A x \in hit : View(t, x) # Absent
          /\ own' = [x \in Keys |-> IF x \in hit THEN NewRow(Top(t), View(t, x)) ELSE own[x]]
    BY <1>5 DEF Executes
  <2>2. Unbroken(w) /\ OnlyIn(t, w) /\ w \in 1..Len(within)
    <3>1. CASE k \in hit
      <4>1. lock[k] \in {t, Nobody} /\ own'[k] = NewRow(Top(t), View(t, k))
        BY <2>1, <3>1 DEF Free
      <4> QED
        BY <1>5, <2>1, <3>1, <4>1, StatementIsClean
    <3>2. CASE k \notin hit
      <4>1. lock[k] = t /\ own'[k] = own[k] /\ Usable(t)
        BY <1>5, <2>1, <3>2 DEF LockedBy, Executes
      <4> QED
        BY <4>1, FreeIsClean, RowValues
    <3> QED
      BY <3>1, <3>2
  <2> QED
    BY <1>2, <1>5, <2>2
<1>6. CASE u = t /\ Ends(t)
  <2>1. lock'[k] # t
    BY <1>6, ThreadAssumption DEF Ends, Release
  <2> QED
    BY <1>6, <2>1
<1> QED
  BY <1>1, <1>3, <1>4, <1>5, <1>6 DEF Steps

LEMMA CleanInit ==
  ASSUME Init
  PROVE  CleanIInv
<1>1. DOMAIN << >> = {}
  OBVIOUS
<1>2. PICK held \in Starts :
        committed = [k \in Keys |-> IF k \in held THEN [c \in Columns |-> 0] ELSE Absent]
  BY DEF Init
<1>3. \A k \in Keys : committed[k] # Absent => Values(committed[k]) = {}
  BY <1>2 DEF Values
<1>4. own = committed /\ \A t \in Threads : DOMAIN stack[t] = {}
  BY <1>1 DEF Init
<1> QED
  BY <1>3, <1>4 DEF CleanIInv, ReadsAreClean, OwnIsClean, CommittedIsClean

(* Whatever is in the database comes from writes that ended well; what an  *)
(* open unit has written also from those its thread is in.                 *)
THEOREM CleanInvariance == Spec => []CleanIInv
<1>1. Init => CleanIInv
  BY CleanInit
<1>2. Shape /\ CleanIInv /\ [Next]_vars => CleanIInv'
  <2> SUFFICES ASSUME Shape, CleanIInv, [Next]_vars
               PROVE  CleanIInv'
    OBVIOUS
  <2>1. CASE UNCHANGED vars
    <3>1. UNCHANGED <<conn, stack, committed, lock, own, within, broken>>
      BY <2>1 DEF vars, program, database, history
    <3>2. ReadsAreClean'
      BY <3>1 DEF CleanIInv, ReadsAreClean, Values, Unbroken, StaysBelow, Family, HasRead
    <3>3. OwnIsClean'
      BY <3>1 DEF CleanIInv, OwnIsClean, Values, Unbroken, OnlyIn, Family
    <3>4. CommittedIsClean'
      BY <3>1 DEF CleanIInv, CommittedIsClean, Values, Unbroken, NoneIn, Family
    <3> QED
      BY <3>2, <3>3, <3>4 DEF CleanIInv
  <2>2. CASE \E t \in Threads : Steps(t)
    BY <2>2, ReadsStayClean, OwnStaysClean, CommittedStaysClean DEF CleanIInv
  <2> QED
    BY <2>1, <2>2, StepKinds
<1> QED
  BY <1>1, <1>2, WritesShape, PTL DEF Spec

(* No part of a committed row comes from a write that an exception escaped *)
(* from or that is in progress, or from a write entered in such a write,   *)
(* also where a later update copied it from a record (runtime.py:234).     *)
THEOREM BrokenWritesLeaveNothing == Spec => []BrokenWriteLeavesNothing
<1>1. CleanIInv => BrokenWriteLeavesNothing
  <2> SUFFICES ASSUME CleanIInv, NEW w \in Origins
               PROVE  Family(w) \cap (broken \cup InProgress) = {}
    BY DEF BrokenWriteLeavesNothing
  <2>1. PICK k \in Keys : committed[k] # Absent /\ w \in Values(committed[k])
    BY DEF Origins, Present, Values
  <2>2. Unbroken(w) /\ NoneIn(w)
    BY <2>1 DEF CleanIInv, CommittedIsClean
  <2> QED
    BY <2>2 DEF Unbroken, NoneIn, InProgress
<1> QED
  BY <1>1, CleanInvariance, PTL

-----------------------------------------------------------------------------
(* A unit brings to the database what it has written itself. *)

(* Only what is locked by the thread that ends its unit is committed.      *)
LEMMA CommittedWas ==
  ASSUME NEW t \in Threads, Steps(t), NEW k \in Keys, lock[k] # t
  PROVE  committed'[k] = committed[k]
<1>1. CASE Ends(t)
  BY <1>1 DEF Ends, Release, Accepted, View
<1>2. CASE ~Ends(t)
  <2>1. committed' = committed
    BY <1>2 DEF Steps, Quietly, Enters, Leaves, Reads, Executes, database
  <2> QED
    BY <2>1
<1> QED
  BY <1>1, <1>2

LEMMA GenuineStays ==
  ASSUME NEW t \in Threads, Steps(t), NEW u \in Threads, unit'[u] = unit[u],
         NEW k \in Keys, committed'[k] = committed[k], NEW c, NEW w, Genuine(u, k, c, w)
  PROVE  Genuine(u, k, c, w)'
<1>1. touched \subseteq touched'
  BY DEF Steps, Quietly, Enters, Leaves, Reads, Executes, Ends
<1> QED
  BY <1>1 DEF Genuine

(* What a thread finds in a row that it has locked or can lock. *)
LEMMA FreeIsGenuine ==
  ASSUME Shape, OwnIsGenuine, NEW t \in Threads, NEW k \in Keys, own[k] # Absent,
         unit[t] \notin stale \/ ~conn[t].pending, lock[k] \in {t, Nobody}
  PROVE  \A c \in Columns : \/ committed[k] # Absent /\ own[k][c] = committed[k][c]
                            \/ conn[t].pending /\ Genuine(t, k, c, own[k][c])
<1>1. CASE lock[k] = t
  <2>1. conn[t].pending
    BY <1>1 DEF Shape, LocksOK
  <2> QED
    BY <1>1, <2>1 DEF OwnIsGenuine
<1>2. CASE lock[k] = Nobody
  BY <1>2 DEF Shape, LocksOK
<1> QED
  BY <1>1, <1>2

(* The unit of a thread is another than before only if it had none open.   *)
LEMMA UnitWas ==
  ASSUME Shape, NEW t \in Threads, Steps(t), NEW u \in Threads, conn'[u].pending
  PROVE  /\ unit'[u] \notin stale' => unit'[u] \notin stale
         /\ conn[u].pending => unit'[u] = unit[u]
         /\ u # t \/ ~(Reads(t) \/ Executes(t)) => conn[u].pending
         /\ u = t => ~Ends(t)
<1>1. stale \subseteq stale'
  BY DEF Steps, Quietly, Enters, Leaves, Reads, Executes, Ends
<1>2. CASE u # t
  BY <1>1, <1>2 DEF Steps, Quietly, Enters, Leaves, Reads, Executes, Ends, OthersRest
<1>3. CASE u = t /\ (Quietly(t) \/ Enters(t) \/ Leaves(t))
  <2>1. unit'[t] = unit[t] /\ conn'[t].pending = conn[t].pending
    BY <1>3 DEF Quietly, Enters, Leaves
  <2>2. ~Ends(t)
    BY <1>3 DEF Ends
  <2> QED
    BY <1>1, <1>3, <2>1, <2>2
<1>4. CASE u = t /\ (Reads(t) \/ Executes(t))
  BY <1>1, <1>4, UnitOfIs DEF Reads, Executes, Ends
<1>5. CASE u = t /\ Ends(t)
  BY <1>5 DEF Ends
<1> QED
  BY <1>2, <1>3, <1>4, <1>5 DEF Steps

LEMMA OwnStaysGenuine ==
  ASSUME Shape, OwnIsGenuine, NEW t \in Threads, Steps(t), NEW u \in Threads,
         conn'[u].pending, unit'[u] \notin stale',
         NEW k \in Keys, lock'[k] = u, own'[k] # Absent, NEW c \in Columns, NEW w, w = own'[k][c]
  PROVE  Genuine(u, k, c, w)'
<1>1. unit'[u] \notin stale /\ (conn[u].pending => unit'[u] = unit[u])
  BY UnitWas
<1>2. ASSUME lock[k] = u, own'[k] = own[k], committed'[k] = committed[k]
      PROVE  Genuine(u, k, c, w)'
  <2>1. conn[u].pending
    BY <1>2 DEF Shape, LocksOK
  <2>2. unit'[u] = unit[u] /\ unit[u] \notin stale
    BY <1>1, <2>1
  <2>3. Genuine(u, k, c, w)
    BY <1>2, <2>1, <2>2 DEF OwnIsGenuine
  <2> QED
    BY <1>2, <2>2, <2>3, GenuineStays
<1>3. ASSUME u = t, committed' = committed, lock[k] \in {t, Nobody}, own[k] # Absent, w = own[k][c]
      PROVE  Genuine(u, k, c, w)'
  <2>1. unit[t] \notin stale \/ ~conn[t].pending
    BY <1>1, <1>3
  <2>2. \/ committed[k] # Absent /\ own[k][c] = committed[k][c]
        \/ conn[t].pending /\ Genuine(t, k, c, own[k][c])
    BY <1>3, <2>1, FreeIsGenuine
  <2>3. CASE committed[k] # Absent /\ own[k][c] = committed[k][c]
    BY <1>3, <2>3 DEF Genuine
  <2>4. CASE conn[t].pending /\ Genuine(t, k, c, own[k][c])
    BY <1>1, <1>3, <2>4, GenuineStays
  <2> QED
    BY <2>2, <2>3, <2>4
<1>4. CASE u # t
  <2>1. lock[k] = u /\ own'[k] = own[k] /\ lock[k] # t
    BY <1>4, OthersRows
  <2> QED
    BY <1>2, <2>1, CommittedWas
<1>5. CASE u = t /\ (Quietly(t) \/ Enters(t) \/ Leaves(t))
  BY <1>2, <1>5 DEF Quietly, Enters, Leaves, database
<1>6. CASE u = t /\ Reads(t)
  <2>1. UNCHANGED <<committed, own>> /\ lock[k] \in {t, Nobody}
    BY <1>6 DEF Reads, LockedBy, Free
  <2> QED
    BY <1>3, <1>6, <2>1
<1>7. CASE u = t /\ Executes(t)
  <2> DEFINE n == Len(stack[t])
             f == Top(t)
  <2>1. PICK hit \in SUBSET Keys :
          /\ Free(t, hit) /\ lock' = LockedBy(t, hit)
          /\ f.op # "insert" => \A x \in hit : x \in f.keys /\ View(t, x) # Absent
          /\ own' = [x \in Keys |-> IF x \in hit THEN NewRow(f, View(t, x)) ELSE own[x]]
    BY <1>7 DEF Executes
  <2>2. committed' = committed /\ touched' = touched \cup {<<f.id, UnitOf(t)>>} /\ unit'[t] = UnitOf(t)
    BY <1>7 DEF Executes
  <2>3. CASE k \notin hit
    <3>1. lock[k] = t /\ own'[k] = own[k]
      BY <1>7, <2>1, <2>3 DEF LockedBy
    <3> QED
      BY <1>2, <1>7, <2>2, <3>1
  <2>4. CASE k \in hit
    <3>1. lock[k] \in {t, Nobody} /\ View(t, k) = own[k] /\ own'[k] = NewRow(f, own[k])
      BY <2>1, <2>4 DEF Free, View, Shape, LocksOK
    <3>2. w = IF c \in f.set THEN f.id ELSE IF f.raw THEN own[k][c] ELSE f.old[c]
      BY <3>1 DEF NewRow
    <3>3. CASE c \in f.set
      BY <1>7, <2>2, <3>2, <3>3 DEF Genuine
    <3>4. CASE c \notin f.set
      <4>1. /\ n \in DOMAIN stack[t] /\ f = stack[t][n] /\ f.phase = "before"
            /\ f \in Frames /\ FrameOK(t, f) /\ f.unit \in Nat
        <5>1. stack[t] # << >> /\ f = stack[t][n] /\ f.phase = "before"
          BY <1>7 DEF Top, Executes, Running, OnTop
        <5>2. n \in DOMAIN stack[t]
          BY <5>1, PopIs DEF Shape, TypeOK
        <5> QED
          BY <5>1, <5>2, ShapeIs
      <4>2. f.op # "delete"
        BY <3>1 DEF NewRow
      <4>3. f.op = "update"
        BY <3>4, <4>1, <4>2 DEF FrameOK, Frames, Operations
      <4>4. own[k] # Absent /\ k \in f.keys
        BY <2>1, <2>4, <3>1, <4>3
      <4>5. CASE f.raw
        BY <1>3, <1>7, <2>2, <3>1, <3>2, <3>4, <4>4, <4>5
      <4>6. CASE ~f.raw
        <5>1. f.unit = UnitOf(t)
          BY <1>7, <2>2, <4>3, <4>6 DEF Executes
        <5>2. conn[t].pending /\ UnitOf(t) = unit[t]
          <6>1. f.unit <= unit[t] /\ unit[t] \in Nat
            BY <4>1, ShapeIs DEF FrameOK
          <6> HIDE DEF f
          <6> QED
            BY <5>1, <6>1, UnitOfIs
        <5>3. Snapshot(t, f)
          BY <4>1, <4>3, <4>6, <5>1, <5>2 DEF Snapshot, HasRead
        <5>4. Genuine(t, k, c, f.old[c])
          BY <1>1, <1>7, <2>2, <4>1, <4>4, <5>2, <5>3 DEF OwnIsGenuine
        <5>5. w = f.old[c] /\ unit'[t] = unit[t]
          BY <2>2, <3>2, <3>4, <4>6, <5>2
        <5> HIDE DEF f
        <5> QED
          BY <1>7, <2>2, <5>4, <5>5, GenuineStays
      <4> QED
        BY <4>5, <4>6
    <3> QED
      BY <3>3, <3>4
  <2> QED
    BY <2>3, <2>4
<1>8. CASE u = t /\ Ends(t)
  BY <1>8, UnitWas
<1> QED
  BY <1>4, <1>5, <1>6, <1>7, <1>8 DEF Steps

LEMMA ReadsStayGenuine ==
  ASSUME Shape, SnapshotIInv, OwnIsGenuine, NEW t \in Threads, Steps(t), NEW u \in Threads,
         conn'[u].pending, unit'[u] \notin stale',
         NEW i \in DOMAIN stack'[u], Snapshot(u, stack[u][i])',
         NEW k \in stack'[u][i].keys, NEW c \in Columns, NEW w, w = stack'[u][i].old[c]
  PROVE  Genuine(u, k, c, w)'
<1> DEFINE f == stack[u][i]
           g == stack'[u][i]
<1>1. unit'[u] \notin stale /\ (conn[u].pending => unit'[u] = unit[u])
  BY UnitWas
<1>2. CASE i \in DOMAIN stack[u] /\ Follows(f, g)
  <2>1. Snapshot(u, f) /\ conn[u].pending /\ (u = t => unit'[t] = unit[t])
    BY <1>2, SnapshotWas DEF Snapshot
  <2>2. g.old = f.old /\ g.keys = f.keys
    <3> HIDE DEF f, g
    <3> QED
      BY <1>2 DEF Follows
  <2>3. Genuine(u, k, c, w)
    BY <1>1, <1>2, <2>1, <2>2 DEF OwnIsGenuine
  <2>4. lock[k] = u /\ k \in Keys
    BY <1>2, <2>1, <2>2, ShapeIs DEF SnapshotIInv, SnapshotsHold, Frames
  <2>5. committed'[k] = committed[k]
    <3>1. CASE u # t
      BY <2>4, <3>1, CommittedWas
    <3>2. CASE u = t
      <4>1. ~Ends(t)
        BY <3>2, UnitWas
      <4> QED
        BY <4>1 DEF Steps, Quietly, Enters, Leaves, Reads, Executes, database
    <3> QED
      BY <3>1, <3>2
  <2> QED
    BY <1>1, <2>1, <2>3, <2>4, <2>5, GenuineStays
<1>3. CASE u = t /\ Fresh(g)
  BY <1>3 DEF Fresh, Snapshot, HasRead
<1>4. CASE u = t /\ Reads(t) /\ JustRead(t, f, g)
  <2>1. k \in Keys /\ g.old = own[k] /\ own[k] # Absent /\ lock'[k] = t
    BY <1>4 DEF JustRead
  <2>2. own' = own
    BY <1>4 DEF Reads
  <2> QED
    BY <1>4, <2>1, <2>2, OwnStaysGenuine
<1> QED
  BY <1>2, <1>3, <1>4, FrameWas

(* What an open unit has written is what was committed or is its own, as   *)
(* long as it has not updated from the snapshot of an earlier unit.        *)
THEOREM GenuineInvariance == Spec => []OwnIsGenuine
<1>1. Init => OwnIsGenuine
  BY DEF Init, OwnIsGenuine
<1>2. Shape /\ SnapshotIInv /\ OwnIsGenuine /\ [Next]_vars => OwnIsGenuine'
  <2> SUFFICES ASSUME Shape, SnapshotIInv, OwnIsGenuine, [Next]_vars
               PROVE  OwnIsGenuine'
    OBVIOUS
  <2>1. CASE UNCHANGED vars
    BY <2>1 DEF OwnIsGenuine, Genuine, Snapshot, HasRead, vars, program, database, history
  <2>2. CASE \E t \in Threads : Steps(t)
    <3> SUFFICES ASSUME NEW u \in Threads, conn'[u].pending, unit'[u] \notin stale'
                 PROVE  /\ \A k \in Keys : lock'[k] = u /\ own'[k] # Absent =>
                             \A c \in Columns : Genuine(u, k, c, own[k][c])'
                        /\ \A i \in DOMAIN stack'[u] : Snapshot(u, stack[u][i])' =>
                             \A k \in stack'[u][i].keys : \A c \in Columns :
                               Genuine(u, k, c, stack[u][i].old[c])'
      BY DEF OwnIsGenuine
    <3>1. ASSUME NEW k \in Keys, lock'[k] = u, own'[k] # Absent, NEW c \in Columns
          PROVE  Genuine(u, k, c, own[k][c])'
      <4>1. \A w : w = own'[k][c] => Genuine(u, k, c, w)'
        BY <2>2, <3>1, OwnStaysGenuine
      <4> QED
        BY <4>1 DEF Genuine
    <3>2. ASSUME NEW i \in DOMAIN stack'[u], Snapshot(u, stack[u][i])',
                 NEW k \in stack'[u][i].keys, NEW c \in Columns
          PROVE  Genuine(u, k, c, stack[u][i].old[c])'
      <4>1. \A w : w = stack'[u][i].old[c] => Genuine(u, k, c, w)'
        BY <2>2, <3>2, ReadsStayGenuine
      <4> QED
        BY <4>1 DEF Genuine
    <3> QED
      BY <3>1, <3>2
  <2> QED
    BY <2>1, <2>2, StepKinds
<1> QED
  BY <1>1, <1>2, WritesShape, SnapshotInvariance, PTL DEF Spec

(* A commit brings what its own unit wrote and leaves the rest of every    *)
(* row as it was: no update puts back a value that another thread has      *)
(* replaced since (writes.py:114).                                         *)
THEOREM CommitsAreGenuine == Spec => CommitsItsOwnWork
<1> DEFINE Honest(t) ==
      conn[t].pending /\ ~conn'[t].pending /\ unit[t] \notin stale
      => \A k \in Present(committed') : \A c \in Columns :
           \/ k \in Present(committed) /\ committed'[k][c] = committed[k][c]
           \/ <<committed'[k][c], unit[t]>> \in touched
<1>1. Shape /\ OwnIsGenuine /\ [Next]_vars => [\A t \in Threads : Honest(t)]_vars
  <2> SUFFICES ASSUME Shape, OwnIsGenuine, [Next]_vars, ~UNCHANGED vars, NEW t \in Threads,
                      conn[t].pending, ~conn'[t].pending, unit[t] \notin stale,
                      NEW k \in Present(committed'), NEW c \in Columns
               PROVE  \/ k \in Present(committed) /\ committed'[k][c] = committed[k][c]
                      \/ <<committed'[k][c], unit[t]>> \in touched
    OBVIOUS
  <2>1. PICK s \in Threads : Steps(s)
    BY StepKinds
  <2>2. s = t /\ Ends(t)
    BY <2>1 DEF Steps, Quietly, Enters, Leaves, Reads, Executes, OthersRest, Ends
  <2>3. k \in Keys /\ committed'[k] # Absent
    BY DEF Present
  <2>4. CASE lock[k] = t /\ committed'[k] = own[k]
    BY <2>3, <2>4 DEF OwnIsGenuine, Genuine, Present
  <2>5. CASE committed'[k] = committed[k]
    BY <2>3, <2>5 DEF Present
  <2>6. committed'[k] = committed[k] \/ (lock[k] = t /\ committed'[k] = own[k])
    BY <2>2, <2>3 DEF Ends, Release, Accepted, View
  <2> QED
    BY <2>4, <2>5, <2>6
<1> QED
  BY <1>1, WritesShape, GenuineInvariance, PTL DEF Spec, CommitsItsOwnWork

-----------------------------------------------------------------------------
(* The connection of each thread is a unit of work. *)

PhaseOf(s) == IF s.failed THEN "blocked" ELSE IF s.pending THEN "open" ELSE "idle"

LEMMA PhaseIs ==
  ASSUME TypeOK, TypeOK', NEW t \in Threads,
         \A u \in Threads \ {t} : conn'[u] = conn[u]
  PROVE  [u \in Threads |-> PhaseOf(conn'[u])] =
           [[u \in Threads |-> PhaseOf(conn[u])] EXCEPT ![t] = PhaseOf(conn'[t])]
  OBVIOUS

LEMMA UnitIs ==
  ASSUME TypeOK, TypeOK', NEW t \in Threads,
         \A u \in Threads \ {t} : unit'[u] = unit[u]
  PROVE  unit' = [unit EXCEPT ![t] = unit'[t]]
<1>1. unit \in [Threads -> 0..begun] /\ unit' \in [Threads -> 0..begun']
  BY DEF TypeOK
<1> QED
  BY <1>1

LEMMA UnitOfWorkStep ==
  ASSUME Shape, TypeOK', NEW t \in Threads, Steps(t)
  PROVE  [Abstract!Next]_(Abstract!abstractVars)
<1> DEFINE phase == [u \in Threads |-> PhaseOf(conn[u])]
           after == [u \in Threads |-> PhaseOf(conn'[u])]
<1>1. \A u \in Threads \ {t} : conn'[u] = conn[u] /\ unit'[u] = unit[u]
  BY DEF Steps, Quietly, Enters, Leaves, Reads, Executes, Ends, OthersRest
<1>2. after = [phase EXCEPT ![t] = PhaseOf(conn'[t])]
  BY <1>1, PhaseIs DEF Shape
<1>3. unit' = [unit EXCEPT ![t] = unit'[t]]
  BY <1>1, UnitIs DEF Shape
<1>4. phase[t] = PhaseOf(conn[t])
  OBVIOUS
<1>5. (PhaseOf(conn'[t]) = PhaseOf(conn[t])) => after = phase
  BY <1>2, <1>4
<1>6. CASE Quietly(t) \/ Enters(t) \/ Leaves(t)
  <2>1. /\ UNCHANGED <<unit, begun, durable>> /\ conn'[t].pending = conn[t].pending
        /\ conn[t].failed => conn'[t].failed
    BY <1>6 DEF Quietly, Enters, Leaves
  <2>2. PhaseOf(conn'[t]) = "blocked" \/ PhaseOf(conn'[t]) = PhaseOf(conn[t])
    BY <2>1 DEF PhaseOf
  <2>3. CASE PhaseOf(conn'[t]) = "blocked"
    <3>1. after = [phase EXCEPT ![t] = "blocked"]
      BY <1>2, <2>3
    <3>2. Abstract!Block(t)
      BY <2>1, <3>1 DEF Abstract!Block, PhaseOf
    <3> QED
      BY <3>2 DEF Abstract!Next
  <2>4. CASE PhaseOf(conn'[t]) = PhaseOf(conn[t])
    <3>1. after = phase
      BY <1>5, <2>4
    <3> QED
      BY <2>1, <3>1 DEF Abstract!abstractVars, PhaseOf
  <2> QED
    BY <2>2, <2>3, <2>4
<1>7. CASE Reads(t) \/ Executes(t)
  <2>1. /\ unit'[t] = UnitOf(t) /\ begun' = (IF conn[t].pending THEN begun ELSE begun + 1)
        /\ conn'[t].pending /\ ~conn[t].failed /\ ~conn'[t].failed /\ UNCHANGED durable
    BY <1>7 DEF Reads, Executes, Usable, Shape, UnitsOK
  <2>2. PhaseOf(conn'[t]) = "open"
    BY <2>1 DEF PhaseOf
  <2>3. CASE conn[t].pending
    <3>1. unit'[t] = unit[t] /\ begun' = begun /\ PhaseOf(conn[t]) = "open"
      BY <2>1, <2>3 DEF UnitOf, PhaseOf
    <3>2. unit' = unit /\ after = phase
      <4>1. unit \in [Threads -> 0..begun]
        BY DEF Shape, TypeOK
      <4> QED
        BY <4>1, <1>3, <1>5, <2>2, <3>1
    <3> QED
      BY <2>1, <3>1, <3>2 DEF Abstract!abstractVars, PhaseOf
  <2>4. CASE ~conn[t].pending
    <3>1. unit'[t] = begun + 1 /\ begun' = begun + 1 /\ phase[t] = "idle"
      BY <2>1, <2>4 DEF UnitOf, PhaseOf
    <3>2. /\ unit' = [unit EXCEPT ![t] = begun + 1]
          /\ after = [phase EXCEPT ![t] = "open"]
      BY <1>2, <1>3, <2>2, <3>1
    <3>3. Abstract!Begin(t)
      BY <2>1, <3>1, <3>2 DEF Abstract!Begin, PhaseOf
    <3> QED
      BY <3>3 DEF Abstract!Next
  <2> QED
    BY <2>3, <2>4
<1>8. CASE Ends(t)
  <2>1. /\ UNCHANGED <<unit, begun>> /\ ~conn'[t].pending
        /\ \/ UNCHANGED durable
           \/ ~conn[t].failed /\ conn[t].pending /\ durable' = durable \cup {unit[t]}
    BY <1>8 DEF Ends, Usable
  <2>2. PhaseOf(conn'[t]) = "blocked" \/ PhaseOf(conn'[t]) = "idle"
    BY <2>1 DEF PhaseOf
  <2>3. CASE UNCHANGED durable
    <3>1. Abstract!Block(t) \/ Abstract!Release(t)
      BY <1>2, <2>1, <2>2, <2>3 DEF Abstract!Block, Abstract!Release, PhaseOf
    <3> QED
      BY <3>1 DEF Abstract!Next
  <2>4. CASE ~conn[t].failed /\ conn[t].pending /\ durable' = durable \cup {unit[t]}
    <3>1. phase[t] = "open"
      BY <2>4 DEF PhaseOf
    <3>2. Abstract!Doubt(t) \/ Abstract!Commit(t)
      BY <1>2, <2>1, <2>2, <2>4, <3>1 DEF Abstract!Doubt, Abstract!Commit, PhaseOf
    <3> QED
      BY <3>2 DEF Abstract!Next
  <2> QED
    BY <2>1, <2>3, <2>4
<1> QED
  BY <1>6, <1>7, <1>8 DEF Steps

(* The connection of each thread is a unit of work as the Database of      *)
(* Connections.tla promises it (runtime.py): one unit at a time, committed *)
(* as a whole, and nothing but a release once it is rollback-only.         *)
THEOREM WritesAreUnitsOfWork == Spec => ImplementsUnitOfWork
<1>1. Init => Abstract!Init
  BY DEF Init, Abstract!Init
<1>2. Shape /\ [Next]_vars => [Abstract!Next]_(Abstract!abstractVars)
  <2> SUFFICES ASSUME Shape, [Next]_vars
               PROVE  [Abstract!Next]_(Abstract!abstractVars)
    OBVIOUS
  <2>1. CASE UNCHANGED vars
    BY <2>1 DEF Abstract!abstractVars, vars, program, history
  <2>2. CASE \E t \in Threads : Steps(t)
    BY <2>2, StepKinds, UnitOfWorkStep
  <2> QED
    BY <2>1, <2>2, StepKinds
<1> QED
  BY <1>1, <1>2, WritesShape, PTL DEF Spec, Abstract!Spec, ImplementsUnitOfWork

-----------------------------------------------------------------------------
(* The trigger stack names the writes in progress. *)

LEMMA RankIs ==
  ASSUME NEW I, IsFiniteSet(I), I \subseteq Nat, NEW i \in I
  PROVE  Rank(I, i) \in 1..Cardinality(I) /\ Cardinality(I) \in Nat
<1> DEFINE B == {j \in I : j <= i}
<1>1. i \in B /\ B \in SUBSET I
  OBVIOUS
<1>2. /\ IsFiniteSet(B) /\ Cardinality(B) <= Cardinality(I)
      /\ Cardinality(I) \in Nat /\ Cardinality(B) \in Nat
  <2> HIDE DEF B
  <2> QED
    BY <1>1, FS_Subset, FS_CardinalityType
<1>3. Cardinality(B) # 0
  <2> HIDE DEF B
  <2> QED
    BY <1>1, <1>2, FS_EmptySet
<1> QED
  BY <1>2, <1>3 DEF Rank

LEMMA ListPush ==
  ASSUME NEW I, IsFiniteSet(I), I \subseteq Nat, NEW m \in Nat, \A i \in I : i < m,
         NEW S, NEW r \in Seq(S), NEW x \in S, NEW d, NEW e, Lists(I, d, r),
         \A i \in I : e[i] = d[i], e[m] = x
  PROVE  Lists(I \cup {m}, e, Append(r, x))
<1> DEFINE J == I \cup {m}
<1>1. Cardinality(I) \in Nat /\ Cardinality(J) = Cardinality(I) + 1 /\ IsFiniteSet(J)
  <2>1. m \notin I
    OBVIOUS
  <2> QED
    BY <2>1, FS_AddElement, FS_CardinalityType
<1>2. /\ Len(Append(r, x)) = Len(r) + 1 /\ Append(r, x)[Len(r) + 1] = x
      /\ \A i \in 1..Len(r) : Append(r, x)[i] = r[i]
  BY PushIs
<1>3. Len(r) = Cardinality(I) /\ \A i \in I : r[Rank(I, i)] = d[i]
  BY DEF Lists
<1>4. ASSUME NEW i \in I
      PROVE  Append(r, x)[Rank(J, i)] = e[i]
  <2>1. {j \in J : j <= i} = {j \in I : j <= i}
    OBVIOUS
  <2>2. Rank(J, i) = Rank(I, i)
    BY <2>1 DEF Rank
  <2>3. Rank(I, i) \in 1..Len(r)
    BY <1>3, RankIs
  <2> QED
    BY <1>2, <1>3, <2>2, <2>3
<1>5. Append(r, x)[Rank(J, m)] = e[m]
  <2>1. {j \in J : j <= m} = J
    <3>1. \A j \in J : (j \in I \/ j = m) /\ j \in Nat
      OBVIOUS
    <3>2. \A j \in J : j <= m
      BY <3>1
    <3> HIDE DEF J
    <3> QED
      BY <3>2
  <2>2. Rank(J, m) = Len(r) + 1
    BY <1>1, <1>3, <2>1 DEF Rank
  <2> QED
    BY <1>2, <2>2
<1>6. \A i \in J : i \in I \/ i = m
  OBVIOUS
<1> HIDE DEF J
<1>7. Lists(J, e, Append(r, x))
  BY <1>1, <1>2, <1>3, <1>4, <1>5, <1>6 DEF Lists
<1> QED
  BY <1>7 DEF J

LEMMA ListPop ==
  ASSUME NEW I, IsFiniteSet(I), I \subseteq Nat, NEW m \in I, \A i \in I : i <= m,
         NEW S, NEW r \in Seq(S), NEW d, NEW e, Lists(I, d, r), \A i \in I \ {m} : e[i] = d[i]
  PROVE  Lists(I \ {m}, e, SubSeq(r, 1, Len(r) - 1))
<1> DEFINE J == I \ {m}
<1>1. Cardinality(I) \in Nat /\ Cardinality(J) = Cardinality(I) - 1 /\ IsFiniteSet(J) /\ J \subseteq Nat
  BY FS_RemoveElement, FS_CardinalityType
<1>2. Len(r) = Cardinality(I) /\ \A i \in I : r[Rank(I, i)] = d[i]
  BY DEF Lists
<1>3. r # << >>
  <2>1. Rank(I, m) \in 1..Cardinality(I) /\ Cardinality(I) \in Nat
    BY RankIs
  <2>2. Cardinality(I) # 0
    BY <2>1
  <2> QED
    BY <1>2, <2>2, EmptySeq
<1>4. /\ Len(SubSeq(r, 1, Len(r) - 1)) = Len(r) - 1
      /\ \A i \in 1..(Len(r) - 1) : SubSeq(r, 1, Len(r) - 1)[i] = r[i]
  BY <1>3, PopIs
<1>5. ASSUME NEW i \in J
      PROVE  SubSeq(r, 1, Len(r) - 1)[Rank(J, i)] = e[i]
  <2>1. {j \in J : j <= i} = {j \in I : j <= i}
    OBVIOUS
  <2>2. Rank(J, i) = Rank(I, i)
    BY <2>1 DEF Rank
  <2>3. Rank(J, i) \in 1..Cardinality(J)
    <3> HIDE DEF J
    <3> QED
      BY <1>1, RankIs
  <2> QED
    BY <1>1, <1>2, <1>4, <2>2, <2>3
<1> HIDE DEF J
<1>6. Lists(J, e, SubSeq(r, 1, Len(r) - 1))
  BY <1>1, <1>2, <1>4, <1>5 DEF Lists
<1> QED
  BY <1>6 DEF J

LEMMA ItemsAre ==
  ASSUME Shape, NEW t \in Threads
  PROVE  IsFiniteSet(Items(t)) /\ Items(t) \subseteq 1..Len(stack[t]) /\ Items(t) \subseteq Nat
         /\ Len(stack[t]) \in Nat
<1>1. Len(stack[t]) \in Nat /\ DOMAIN stack[t] = 1..Len(stack[t])
  BY ShapeIs
<1>2. Items(t) \in SUBSET (1..Len(stack[t]))
  BY <1>1 DEF Items
<1>3. IsFiniteSet(1..Len(stack[t]))
  BY <1>1, FS_Interval
<1> QED
  BY <1>1, <1>2, <1>3, FS_Subset

LEMMA MirrorLists ==
  TriggersMirrorWrites <=> \A t \in Threads : Lists(Items(t), Ids(t), triggers[t])
<1>1. \A t \in Threads : \A i \in Items(t) : Ids(t)[i] = stack[t][i].id
  BY DEF Items, Ids
<1> QED
  BY <1>1 DEF TriggersMirrorWrites, Lists, Rank

(* The same items, with the same numbers. *)
LEMMA ListsStay ==
  ASSUME NEW I, NEW d, NEW e, NEW r, Lists(I, d, r), \A i \in I : e[i] = d[i]
  PROVE  Lists(I, e, r)
  BY DEF Lists

LEMMA MirrorStep ==
  ASSUME Shape, TriggersMirrorWrites, NEW t \in Threads, Steps(t), NEW u \in Threads
  PROVE  Lists(Items(u), Ids(u), triggers[u])'
<1> DEFINE n == Len(stack[t])
           I == {i \in DOMAIN stack'[u] : HasItem(stack'[u][i])}
           e == [i \in DOMAIN stack'[u] |-> stack'[u][i].id]
           d == Ids(u)
           r == triggers[u]
<1>1. Lists(Items(u), d, r)
  BY MirrorLists
<1>2. /\ IsFiniteSet(Items(u)) /\ Items(u) \subseteq Nat /\ Items(u) \subseteq 1..Len(stack[u])
      /\ DOMAIN stack[u] = 1..Len(stack[u]) /\ Len(stack[u]) \in Nat
      /\ r \in Seq(1..Len(within)) /\ Len(within) \in Nat
  BY ItemsAre, ShapeIs DEF Shape, TypeOK
<1>3. SUFFICES Lists(I, e, triggers'[u])
  BY DEF Items, Ids
<1>4. \A i \in DOMAIN stack[u] : d[i] = stack[u][i].id
  BY DEF Ids
<1>5. \A i \in DOMAIN stack'[u] : e[i] = stack'[u][i].id
  OBVIOUS
<1>6. \A i : i \in Items(u) <=> i \in DOMAIN stack[u] /\ HasItem(stack[u][i])
  BY DEF Items
<1>7. \A i : i \in I <=> i \in DOMAIN stack'[u] /\ HasItem(stack'[u][i])
  OBVIOUS
<1>8. \A f, g : Follows(f, g) => g.id = f.id /\ (HasItem(g) <=> HasItem(f))
  BY DEF Follows, HasItem
<1> HIDE DEF I, e, d, r
<1>9. ASSUME DOMAIN stack'[u] = DOMAIN stack[u], triggers'[u] = r,
             \A i \in DOMAIN stack[u] : /\ stack'[u][i].id = stack[u][i].id
                                        /\ HasItem(stack'[u][i]) <=> HasItem(stack[u][i])
      PROVE  Lists(I, e, triggers'[u])
  <2>1. I = Items(u) /\ \A i \in Items(u) : e[i] = d[i]
    BY <1>4, <1>5, <1>6, <1>7, <1>9
  <2> QED
    BY <1>1, <1>9, <2>1, ListsStay
<1>10. CASE u # t
  <2>1. stack'[u] = stack[u] /\ triggers'[u] = triggers[u]
    BY <1>10 DEF Steps, Quietly, Enters, Leaves, Reads, Executes, Ends, OthersRest
  <2> QED
    BY <1>9, <2>1 DEF r
<1>11. CASE u = t /\ (Quietly(t) \/ Executes(t) \/ Ends(t))
  <2>1. StackFollows(t) /\ triggers' = triggers
    BY <1>11 DEF Quietly, Executes, Ends
  <2> QED
    BY <1>8, <1>9, <1>11, <2>1 DEF StackFollows, r
<1>12. CASE u = t /\ Enters(t)
  <2> DEFINE g == stack'[t][n + 1]
  <2>1. /\ DOMAIN stack'[t] = 1..(n + 1)
        /\ \A i \in 1..n : Follows(stack[t][i], stack'[t][i])
        /\ g.id = Len(within) + 1
        /\ triggers'[t] = IF HasItem(g) THEN Append(triggers[t], g.id) ELSE triggers[t]
    BY <1>12 DEF Enters
  <2>2. DOMAIN stack'[t] = DOMAIN stack[t] \cup {n + 1} /\ n + 1 \in Nat
    BY <1>2, <1>12, <2>1
  <2>3. \A i \in Items(u) : e[i] = d[i] /\ i < n + 1
    <3> SUFFICES ASSUME NEW i \in Items(u)  PROVE e[i] = d[i] /\ i < n + 1
      OBVIOUS
    <3>1. i \in 1..n /\ i \in DOMAIN stack[u] /\ i \in DOMAIN stack'[u]
      BY <1>2, <1>12, <2>2
    <3>2. stack'[u][i].id = stack[u][i].id
      BY <1>8, <1>12, <2>1, <3>1
    <3>3. i < n + 1
      BY <1>2, <1>12, <3>1
    <3> QED
      BY <1>4, <1>5, <3>1, <3>2, <3>3
  <2>3a. \A i \in 1..n : HasItem(stack'[u][i]) <=> HasItem(stack[u][i])
    BY <1>8, <1>12, <2>1
  <2>3b. /\ n + 1 \notin Items(u) /\ \A i \in Items(u) : i \in 1..n
         /\ \A i \in 1..n : i \in I <=> i \in Items(u)
         /\ \A i \in I : i \in 1..n \/ i = n + 1
    <3>1. DOMAIN stack[u] = 1..n /\ DOMAIN stack'[u] = 1..(n + 1) /\ n \in Nat
      BY <1>2, <1>12, <2>1
    <3>2. \A i \in 1..n : i \in 1..(n + 1)
      BY <3>1
    <3>3. n + 1 \notin 1..n /\ \A i \in 1..(n + 1) : i \in 1..n \/ i = n + 1
      BY <3>1
    <3> HIDE DEF n
    <3> QED
      BY <1>6, <1>7, <2>3a, <3>1, <3>2, <3>3
  <2>4. CASE HasItem(g)
    <3>1. I = Items(u) \cup {n + 1}
      <4>1. n + 1 \in I
        BY <1>7, <1>12, <2>2, <2>4
      <4> HIDE DEF n
      <4> QED
        BY <2>3b, <4>1
    <3>2. e[n + 1] = g.id /\ g.id \in 1..(Len(within) + 1)
      BY <1>2, <1>5, <1>12, <2>1, <2>2
    <3>3. r \in Seq(1..(Len(within) + 1))
      <4>1. 1..Len(within) \subseteq 1..(Len(within) + 1)
        BY <1>2
      <4> QED
        BY <1>2, <4>1, SeqMonotonic
    <3>4. Lists(Items(u) \cup {n + 1}, e, Append(r, g.id))
      <4> HIDE DEF g
      <4> QED
        BY <1>1, <1>2, <2>2, <2>3, <3>2, <3>3, ListPush
    <3> QED
      BY <1>12, <2>1, <2>4, <3>1, <3>4 DEF r
  <2>5. CASE ~HasItem(g)
    <3>1. I = Items(u)
      <4>1. n + 1 \notin I
        BY <1>7, <1>12, <2>2, <2>5
      <4> HIDE DEF n
      <4> QED
        BY <2>3b, <4>1
    <3> QED
      BY <1>1, <1>12, <2>1, <2>3, <2>5, <3>1, ListsStay DEF r
  <2> QED
    BY <2>4, <2>5
<1>13. CASE u = t /\ Leaves(t)
  <2> DEFINE f == stack[t][n]
  <2>1. /\ DOMAIN stack'[t] = 1..(n - 1) /\ stack[t] # << >>
        /\ \A i \in 1..(n - 1) : stack'[t][i] = stack[t][i]
        /\ triggers'[t] = Left(t, f)
    BY <1>13 DEF Leaves
  <2>2. n \in DOMAIN stack[t] /\ n \in Nat
    BY <1>2, <1>13, <2>1, PopIs DEF Shape, TypeOK
  <2>3. DOMAIN stack'[t] = DOMAIN stack[t] \ {n}
    BY <1>2, <1>13, <2>1, <2>2
  <2>4. I = Items(u) \ {n} /\ \A i \in Items(u) \ {n} : e[i] = d[i]
    <3>1. \A i \in DOMAIN stack'[u] : stack'[u][i] = stack[u][i]
      BY <1>13, <2>1
    <3>2. DOMAIN stack'[u] = DOMAIN stack[u] \ {n}
      BY <1>13, <2>3
    <3> HIDE DEF n
    <3> QED
      BY <1>4, <1>5, <1>6, <1>7, <3>1, <3>2
  <2>5. CASE HasItem(f)
    <3>1. n \in Items(u) /\ \A i \in Items(u) : i <= n
      BY <1>2, <1>6, <1>13, <2>2, <2>5
    <3>2. Lists(Items(u) \ {n}, e, SubSeq(r, 1, Len(r) - 1))
      BY <1>1, <1>2, <2>4, <3>1, ListPop
    <3> QED
      BY <1>13, <2>1, <2>4, <2>5, <3>2 DEF Left, r
  <2>6. CASE ~HasItem(f)
    <3>1. n \notin Items(u)
      BY <1>6, <1>13, <2>6
    <3>2. I = Items(u) /\ \A i \in Items(u) : e[i] = d[i]
      BY <2>4, <3>1
    <3> QED
      BY <1>1, <1>13, <2>1, <2>6, <3>2, ListsStay DEF Left, r
  <2> QED
    BY <2>5, <2>6
<1>14. CASE u = t /\ Reads(t)
  <2> DEFINE f == stack[t][n]
             g == stack'[t][n]
  <2>1. CASE stack' = stack /\ triggers' = triggers
    BY <1>9, <2>1 DEF r
  <2>2. CASE ~(stack' = stack /\ triggers' = triggers)
    <3>1. /\ DOMAIN stack'[t] = DOMAIN stack[t] /\ f.phase = "read"
          /\ \A i \in 1..(n - 1) : stack'[t][i] = stack[t][i]
          /\ \E k \in Keys : g = ReadFrame(f, k, View(t, k), UnitOf(t)) /\ View(t, k) # Absent
          /\ triggers'[t] = IF f.op = "delete" THEN Append(triggers[t], f.id) ELSE triggers[t]
          /\ stack[t] # << >>
      BY <1>14, <2>2 DEF Reads, Running, OnTop, Top
    <3>2. n \in DOMAIN stack[t] /\ n \in Nat /\ \A i \in DOMAIN stack[t] : i \in 1..(n - 1) \/ i = n
      BY <1>2, <1>14, <3>1, PopIs DEF Shape, TypeOK
    <3>3. f \in Frames /\ f.id \in 1..Len(within) /\ FrameOK(t, f)
      BY <3>2, ShapeIs
    <3>4. g.id = f.id /\ g.op = f.op /\ g.phase = "before"
      <4>1. PICK k \in Keys : g = ReadFrame(f, k, View(t, k), UnitOf(t)) /\ View(t, k) # Absent
        BY <3>1
      <4>2. View(t, k) \in Rows /\ UnitOf(t) \in Nat
        BY <4>1, UnitOfIs DEF View, Shape, TypeOK
      <4> HIDE DEF f, g
      <4> QED
        BY <3>3, <4>1, <4>2, FrameRead
    <3>5. f.op # "batch"
      BY <3>1, <3>3 DEF FrameOK
    <3>6. \A i \in DOMAIN stack[t] : e[i] = d[i] /\ (i # n => (HasItem(stack'[t][i]) <=> HasItem(stack[t][i])))
      BY <1>4, <1>5, <1>14, <3>1, <3>2, <3>4
    <3>7. CASE f.op = "delete"
      <4>1. ~HasItem(f) /\ HasItem(g)
        BY <3>1, <3>4, <3>5, <3>7 DEF HasItem
      <4>2. n \notin Items(u) /\ I = Items(u) \cup {n}
        BY <1>6, <1>7, <1>14, <3>1, <3>2, <3>6, <4>1
      <4>3. \A i \in Items(u) : i < n
        <5>1. \A i \in Items(u) : i \in 1..n /\ i # n
          BY <1>2, <1>14, <4>2
        <5> QED
          BY <3>2, <5>1
      <4>4. e[n] = f.id
        BY <1>5, <1>14, <3>1, <3>2, <3>4
      <4>5. \A i \in Items(u) : e[i] = d[i]
        BY <1>6, <1>14, <3>6
      <4>6. Lists(Items(u) \cup {n}, e, Append(r, f.id))
        <5> HIDE DEF f
        <5> QED
          BY <1>1, <1>2, <3>2, <3>3, <4>3, <4>4, <4>5, ListPush
      <4> QED
        BY <1>14, <3>1, <3>7, <4>2, <4>6 DEF r
    <3>8. CASE f.op # "delete"
      <4>1. HasItem(f) /\ HasItem(g)
        BY <3>4, <3>5, <3>8 DEF HasItem
      <4>2. \A i \in DOMAIN stack[u] : /\ stack'[u][i].id = stack[u][i].id
                                       /\ HasItem(stack'[u][i]) <=> HasItem(stack[u][i])
        BY <1>14, <3>1, <3>2, <3>4, <4>1
      <4> QED
        BY <1>9, <1>14, <3>1, <3>8, <4>2 DEF r
    <3> QED
      BY <3>7, <3>8
  <2> QED
    BY <2>1, <2>2
<1> QED
  BY <1>10, <1>11, <1>12, <1>13, <1>14 DEF Steps

(* TriggersMirrorWrites, in terms of what a sequence lists.                *)
Mirrored == \A t \in Threads : Lists(Items(t), Ids(t), triggers[t])

(* The trigger stack names the application writes in progress, in their    *)
(* order, on every way out of a write (triggers.py:53).                    *)
THEOREM TriggersFollowWrites == Spec => []TriggersMirrorWrites
<1>1. Init => Mirrored
  <2> SUFFICES ASSUME Init, NEW t \in Threads  PROVE Lists(Items(t), Ids(t), triggers[t])
    BY DEF Mirrored
  <2>1. triggers[t] = << >> /\ stack[t] = << >> /\ DOMAIN << >> = {}
    BY DEF Init
  <2>2. Items(t) = {} /\ Len(triggers[t]) = 0
    BY <2>1, EmptySeq DEF Items
  <2> QED
    BY <2>2, FS_EmptySet DEF Lists
<1>2. Shape /\ Mirrored /\ [Next]_vars => Mirrored'
  <2> SUFFICES ASSUME Shape, Mirrored, [Next]_vars
               PROVE  Mirrored'
    OBVIOUS
  <2>1. CASE UNCHANGED vars
    <3>1. stack' = stack /\ triggers' = triggers
      BY <2>1 DEF vars, program
    <3>2. ASSUME NEW u \in Threads  PROVE Lists(Items(u), Ids(u), triggers[u])'
      <4>1. Items(u)' = Items(u) /\ Ids(u)' = Ids(u) /\ triggers'[u] = triggers[u]
        BY <3>1 DEF Items, Ids
      <4>2. Lists(Items(u), Ids(u), triggers[u])
        BY DEF Mirrored
      <4>3. \A I, d, r : I = Items(u) /\ d = Ids(u) /\ r = triggers[u] => Lists(I, d, r)
        BY <4>2
      <4> QED
        BY <4>1, <4>3 DEF Lists, Rank
    <3> QED
      BY <3>2 DEF Mirrored
  <2>2. CASE \E t \in Threads : Steps(t)
    <3>1. TriggersMirrorWrites
      BY MirrorLists DEF Mirrored
    <3>2. \A u \in Threads : Lists(Items(u), Ids(u), triggers[u])'
      BY <2>2, <3>1, MirrorStep
    <3> QED
      BY <3>2 DEF Mirrored
  <2> QED
    BY <2>1, <2>2, StepKinds
<1>3. Mirrored => TriggersMirrorWrites
  BY MirrorLists DEF Mirrored
<1> QED
  BY <1>1, <1>2, <1>3, WritesShape, PTL DEF Spec
=============================================================================
