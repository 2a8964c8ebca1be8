------------------------ MODULE DeferredQueueProofs ------------------------
(***************************************************************************)
(* A drain serves what was queued, in order, once and all of it, and the   *)
(* queue implements the unordered one, for all blocks and callbacks.       *)
(***************************************************************************)
EXTENDS DeferredQueue, SequenceTheorems, WellFoundedInduction, TLAPS

AllKeys == Blocks \X Callbacks
EntryRecord == [callback : Callbacks, collects : SUBSET Nat]

QueueTypeOK ==
  /\ blocks \in [Blocks -> Seq(EntryRecord)]
  /\ block \in Blocks \cup {0}
  /\ running \in AllKeys \cup {Nobody}
  /\ mode \in {"idle", "draining"}
  /\ made \in Seq([entry : AllKeys, during : AllKeys \cup {Nobody}])
  /\ ran \in Seq([entry : AllKeys, collects : SUBSET Nat])
  /\ begun \in Nat
  /\ asked \in [Blocks -> Seq(Callbacks)]

(* A callback runs in a drain, for the block that is drained.              *)
RunsInTheDrain ==
  /\ running # Nobody => mode = "draining" /\ running[1] = block /\ Ran(running)
  /\ mode = "idle" => block = 0 /\ running = Nobody /\ asked = Empty
  /\ begun <= Len(ran)

(* One entry for a callback: the keys of a dictionary. *)
OneEach(entries) ==
  \A i, j \in DOMAIN entries : entries[i].callback = entries[j].callback => i = j
OneEntryEach == \A b \in Blocks : OneEach(blocks[b])

QueueShape == QueueTypeOK /\ RunsInTheDrain /\ OneEntryEach

-----------------------------------------------------------------------------
(* What goes when an entry is taken out of a sequence, from any place: the *)
(* others keep their order.                                                *)
Up(p, i) == IF i < p THEN i ELSE i + 1
Removal(s, p, t) ==
  /\ Len(s) \in Nat /\ p \in 1..Len(s) /\ DOMAIN s = 1..Len(s)
  /\ Len(t) = Len(s) - 1 /\ DOMAIN t = 1..(Len(s) - 1)
  /\ \A i \in 1..(Len(s) - 1) : t[i] = s[Up(p, i)]

(* RemoveAt takes one element out. *)
LEMMA RemoveAtRemoves ==
  ASSUME NEW S, NEW s \in Seq(S), NEW p \in 1..Len(s)
  PROVE  RemoveAt(s, p) \in Seq(S) /\ Removal(s, p, RemoveAt(s, p))
<1> DEFINE l == SubSeq(s, 1, p - 1)
           r == SubSeq(s, p + 1, Len(s))
<1>0. Len(s) \in Nat /\ p \in Int /\ \A i \in 1..Len(s) : s[i] \in S
  BY LenProperties, ElementOfSeq
<1>1. l \in Seq(S) /\ Len(l) = p - 1 /\ \A i \in 1..(p - 1) : l[i] = s[i]
  <2> DEFINE k == p - 1
  <2>0. k \in Int /\ 1 \in Int /\ \A i \in 1..k : s[i] \in S
    BY <1>0
  <2>1. /\ l \in Seq(S)
        /\ Len(l) = IF 1 <= k THEN k - 1 + 1 ELSE 0
        /\ \A i \in 1..(k - 1 + 1) : l[i] = s[1 + i - 1]
    BY <2>0, SubSeqProperties
  <2>2. k >= 0 /\ k - 1 + 1 = k /\ \A i \in 1..k : 1 + i - 1 = i
    BY <1>0
  <2> QED
    BY <2>0, <2>1, <2>2
<1>2. r \in Seq(S) /\ Len(r) = Len(s) - p /\ \A i \in 1..(Len(s) - p) : r[i] = s[p + i]
  <2> DEFINE k == p + 1
             n == Len(s)
  <2>0. k \in Int /\ n \in Int /\ \A i \in k..n : s[i] \in S
    BY <1>0
  <2>1. /\ r \in Seq(S)
        /\ Len(r) = IF k <= n THEN n - k + 1 ELSE 0
        /\ \A i \in 1..(n - k + 1) : r[i] = s[k + i - 1]
    BY <2>0, SubSeqProperties
  <2>2. n - k + 1 = n - p /\ \A i \in 1..(n - p) : k + i - 1 = p + i
    BY <1>0
  <2>3. Len(r) = n - p
    BY <1>0, <2>1
  <2> QED
    BY <2>1, <2>2, <2>3
<1>3. RemoveAt(s, p) = l \o r
  BY DEF RemoveAt
<1> HIDE DEF l, r
<1>4. /\ l \o r \in Seq(S)
      /\ Len(l \o r) = Len(l) + Len(r)
      /\ \A i \in 1..(Len(l) + Len(r)) : (l \o r)[i] = IF i <= Len(l) THEN l[i] ELSE r[i - Len(l)]
  BY <1>1, <1>2, ConcatProperties
<1>5. ASSUME NEW i \in 1..(Len(s) - 1)
      PROVE  (l \o r)[i] = IF i < p THEN s[i] ELSE s[i + 1]
  <2>1. CASE i < p
    BY <2>1, <1>0, <1>1, <1>2, <1>4
  <2>2. CASE ~(i < p)
    <3>1. (l \o r)[i] = r[i - (p - 1)]
      BY <2>2, <1>0, <1>1, <1>2, <1>4
    <3>2. i - (p - 1) \in 1..(Len(s) - p) /\ p + (i - (p - 1)) = i + 1
      BY <2>2, <1>0
    <3> QED
      BY <3>1, <3>2, <2>2, <1>2
  <2> QED
    BY <2>1, <2>2
<1>6. DOMAIN s = 1..Len(s) /\ DOMAIN (l \o r) = 1..Len(l \o r)
  BY <1>4, LenProperties
<1>7. Len(l \o r) = Len(s) - 1
  BY <1>0, <1>1, <1>2, <1>4
<1> QED
  BY <1>0, <1>3, <1>4, <1>5, <1>6, <1>7 DEF Removal, Up

(* Tail takes the first element out. *)
LEMMA TailRemoves ==
  ASSUME NEW S, NEW s \in Seq(S), s # << >>
  PROVE  /\ Tail(s) \in Seq(S) /\ Removal(s, 1, Tail(s))
         /\ Head(s) = s[1] /\ s[1] \in S
<1>1. Len(s) \in Nat \ {0} /\ DOMAIN s = 1..Len(s)
  BY EmptySeq, LenProperties
<1>2. /\ Tail(s) \in Seq(S) /\ Len(Tail(s)) = Len(s) - 1
      /\ \A i \in 1..Len(Tail(s)) : Tail(s)[i] = s[i + 1]
  BY HeadTailProperties
<1>3. DOMAIN Tail(s) = 1..Len(Tail(s))
  BY <1>2, LenProperties
<1>4. Head(s) = s[1] /\ s[1] \in S
  BY <1>1, ElementOfSeq
<1> QED
  BY <1>1, <1>2, <1>3, <1>4 DEF Removal, Up

(* Every other element is still there, once, and in the same order. *)
LEMMA RemovalKeeps ==
  ASSUME NEW s, NEW p, NEW t, Removal(s, p, t)
  PROVE  /\ \A i \in DOMAIN t : Up(p, i) \in DOMAIN s \ {p} /\ t[i] = s[Up(p, i)]
         /\ \A j \in DOMAIN s \ {p} : \E i \in DOMAIN t : Up(p, i) = j
         /\ \A i, j \in DOMAIN t : Up(p, i) < Up(p, j) <=> i < j
<1>1. \A i \in DOMAIN t : Up(p, i) \in DOMAIN s \ {p} /\ t[i] = s[Up(p, i)]
  BY DEF Removal, Up
<1>2. ASSUME NEW j \in DOMAIN s \ {p}  PROVE \E i \in DOMAIN t : Up(p, i) = j
  <2>1. CASE j < p
    <3>1. j \in DOMAIN t /\ Up(p, j) = j
      BY <2>1 DEF Removal, Up
    <3> QED
      BY <3>1
  <2>2. CASE j > p
    <3>1. j - 1 \in DOMAIN t /\ Up(p, j - 1) = j
      BY <2>2 DEF Removal, Up
    <3> QED
      BY <3>1
  <2> QED
    BY <2>1, <2>2 DEF Removal
<1>3. \A i, j \in DOMAIN t : Up(p, i) < Up(p, j) <=> i < j
  BY DEF Removal, Up
<1> QED
  BY <1>1, <1>2, <1>3

(* A set of names has a first one.  (sorted(blocks)[0])                    *)
LEMMA LessThanIsWellFounded == IsWellFoundedOn({ss \in Nat \X Nat : ss[1] < ss[2]}, Nat)
  BY NatLessThanWellFounded, Zenon DEF OpToRel

(* First finds it.  (sorted(blocks)[0])                                    *)
LEMMA FirstIsLeast ==
  ASSUME NEW names \in SUBSET Nat, names # {}
  PROVE  First(names) \in names /\ \A d \in names : First(names) <= d
<1> DEFINE R == {ss \in Nat \X Nat : ss[1] < ss[2]}
<1> HIDE DEF R
<1>1. \E b \in names : \A d \in names : ~(<<d, b>> \in R)
  BY LessThanIsWellFounded, WFMin DEF R
<1>2. PICK b \in names : \A d \in names : ~(<<d, b>> \in R)
  BY <1>1
<1>3. \A d \in names : d \in Nat /\ b \in Nat /\ ~(d < b)
  BY <1>2 DEF R
<1>4. \A d \in names : b <= d
  BY <1>3
<1> QED
  BY <1>4 DEF First

-----------------------------------------------------------------------------
(* What a registration does to the entries of a block: those that are      *)
(* there keep their places, the one it names collects it, and an entry     *)
(* that was not there is the last.                                         *)
Grown(s, c, n, t) ==
  /\ \A k \in DOMAIN s :
       /\ k \in DOMAIN t /\ t[k].callback = s[k].callback
       /\ t[k].collects = IF s[k].callback = c THEN s[k].collects \cup {n} ELSE s[k].collects
  /\ \A k \in DOMAIN t \ DOMAIN s :
       /\ t[k].callback = c /\ t[k].collects = {n}
       /\ \A j \in DOMAIN s : j < k /\ s[j].callback # c
  /\ \E k \in DOMAIN t : t[k].callback = c /\ n \in t[k].collects

(* _defer does this, and leaves one entry for each callback.               *)
LEMMA QueuedGrows ==
  ASSUME NEW s \in Seq(EntryRecord), OneEach(s), NEW c \in Callbacks, NEW n \in Nat
  PROVE  /\ Queued(s, c, n) \in Seq(EntryRecord) /\ OneEach(Queued(s, c, n))
         /\ Grown(s, c, n, Queued(s, c, n))
<1> DEFINE t == Queued(s, c, n)
           new == [callback |-> c, collects |-> {n}]
<1>1. /\ Len(s) \in Nat /\ DOMAIN s = 1..Len(s)
      /\ \A k \in DOMAIN s : s[k] \in EntryRecord
  BY LenProperties, ElementOfSeq
<1>2. CASE Place(s, c) # {}
  <2> DEFINE e(k) == IF k \in Place(s, c) THEN [s[k] EXCEPT !.collects = @ \cup {n}] ELSE s[k]
  <2>1. t = [k \in 1..Len(s) |-> e(k)]
    BY <1>1, <1>2 DEF Queued
  <2>2. \A k \in 1..Len(s) : /\ e(k) \in EntryRecord /\ e(k).callback = s[k].callback
                             /\ e(k).collects = IF s[k].callback = c THEN s[k].collects \cup {n}
                                                ELSE s[k].collects
    BY <1>1 DEF EntryRecord, Place
  <2> HIDE DEF e
  <2>3. t \in Seq(EntryRecord) /\ DOMAIN t = DOMAIN s
        /\ \A k \in DOMAIN s : t[k] = e(k)
    <3>1. t \in [1..Len(s) -> EntryRecord]
      BY <2>1, <2>2
    <3>2. t \in Seq(EntryRecord)
      BY <3>1, <1>1, SeqDef
    <3> QED
      BY <3>2, <2>1, <1>1
  <2>4. PICK k \in DOMAIN s : s[k].callback = c
    BY <1>2 DEF Place
  <2> HIDE DEF t
  <2>5. OneEach(t)
    BY <2>2, <2>3, <1>1 DEF OneEach
  <2>6. Grown(s, c, n, t)
    BY <2>2, <2>3, <2>4, <1>1 DEF Grown
  <2> QED
    BY <2>3, <2>5, <2>6 DEF t
<1>3. CASE Place(s, c) = {}
  <2>1. \A k \in DOMAIN s : s[k].callback # c
    BY <1>3 DEF Place
  <2>2. t = Append(s, new)
    BY <1>3 DEF Queued
  <2>3. new \in EntryRecord
    BY DEF EntryRecord
  <2> HIDE DEF t, new
  <2>4. /\ t \in Seq(EntryRecord) /\ DOMAIN t = 1..(Len(s) + 1)
        /\ \A k \in 1..Len(s) : t[k] = s[k]
        /\ t[Len(s) + 1] = new
    BY <2>2, <2>3, <1>1
  <2>5. new.callback = c /\ new.collects = {n}
    BY DEF new
  <2>6. \A k \in DOMAIN t \ DOMAIN s : k = Len(s) + 1
    BY <2>4, <1>1
  <2>7. OneEach(t)
    BY <2>1, <2>4, <2>5, <2>6, <1>1 DEF OneEach
  <2>8. Grown(s, c, n, t)
    BY <2>1, <2>4, <2>5, <2>6, <1>1 DEF Grown
  <2> QED
    BY <2>4, <2>7, <2>8 DEF t
<1> QED
  BY <1>2, <1>3

(* What a callback that returns does to the entries of its block: its own  *)
(* entry goes, from wherever it is, if there is one it may not make.       *)
LEMMA KeptRemoves ==
  ASSUME NEW s \in Seq(EntryRecord), NEW c
  PROVE  /\ Kept(s, c) \in Seq(EntryRecord)
         /\ \/ /\ Kept(s, c) = s
               /\ c \in Recursive \/ \A k \in DOMAIN s : s[k].callback # c
            \/ /\ c \notin Recursive
               /\ \E p \in DOMAIN s : s[p].callback = c /\ Removal(s, p, Kept(s, c))
<1>1. CASE c \in Recursive \/ Place(s, c) = {}
  BY <1>1 DEF Kept, Place
<1>2. CASE c \notin Recursive /\ Place(s, c) # {}
  <2> DEFINE p == CHOOSE k \in Place(s, c) : TRUE
  <2>1. p \in DOMAIN s /\ s[p].callback = c
    BY <1>2 DEF Place
  <2>2. Kept(s, c) = RemoveAt(s, p)
    BY <1>2 DEF Kept
  <2> HIDE DEF p
  <2>3. p \in 1..Len(s)
    BY <2>1, LenProperties
  <2>4. RemoveAt(s, p) \in Seq(EntryRecord) /\ Removal(s, p, RemoveAt(s, p))
    BY <2>3, RemoveAtRemoves
  <2> QED
    BY <1>2, <2>1, <2>2, <2>4
<1> QED
  BY <1>1, <1>2

(* Taking an entry out leaves one for each of the other callbacks.         *)
LEMMA RemovalOneEach ==
  ASSUME NEW s, NEW p, NEW t, Removal(s, p, t), OneEach(s)
  PROVE  /\ OneEach(t)
         /\ \A i \in DOMAIN t : t[i].callback # s[p].callback
<1>1. /\ \A i \in DOMAIN t : Up(p, i) \in DOMAIN s \ {p} /\ t[i] = s[Up(p, i)]
      /\ \A i, j \in DOMAIN t : Up(p, i) = Up(p, j) => i = j
  BY DEF Removal, Up
<1>2. p \in DOMAIN s
  BY DEF Removal
<1> QED
  BY <1>1, <1>2 DEF OneEach

-----------------------------------------------------------------------------
(* What the operations do to the queue.                                    *)

(* A registration grows one block and is noted as the latest.  (_defer)    *)
LEMMA DeferEffect ==
  ASSUME QueueShape, NEW b \in Blocks, NEW c \in Callbacks, Defer(b, c)
  PROVE  /\ Len(made) \in Nat /\ DOMAIN made = 1..Len(made)
         /\ blocks' \in [Blocks -> Seq(EntryRecord)] /\ OneEach(blocks'[b])
         /\ Grown(blocks[b], c, Len(made) + 1, blocks'[b])
         /\ \A d \in Blocks \ {b} : blocks'[d] = blocks[d]
         /\ made' \in Seq([entry : AllKeys, during : AllKeys \cup {Nobody}])
         /\ DOMAIN made' = 1..(Len(made) + 1)
         /\ \A n \in DOMAIN made : made'[n] = made[n]
         /\ made'[Len(made) + 1] = [entry |-> <<b, c>>, during |-> running]
<1> USE DEF QueueShape
<1>1. Len(made) \in Nat /\ DOMAIN made = 1..Len(made)
  BY LenProperties DEF QueueTypeOK
<1> DEFINE m == [entry |-> <<b, c>>, during |-> running]
<1>2. m \in [entry : AllKeys, during : AllKeys \cup {Nobody}]
  BY DEF QueueTypeOK, AllKeys
<1>3. made' = Append(made, m)
  BY DEF Defer, Entry
<1> HIDE DEF m
<1>4. /\ made' \in Seq([entry : AllKeys, during : AllKeys \cup {Nobody}])
      /\ DOMAIN made' = 1..(Len(made) + 1)
      /\ \A n \in DOMAIN made : made'[n] = made[n]
      /\ made'[Len(made) + 1] = m
  BY <1>1, <1>2, <1>3 DEF QueueTypeOK
<1>5. blocks[b] \in Seq(EntryRecord) /\ OneEach(blocks[b])
  BY DEF QueueTypeOK, OneEntryEach
<1> DEFINE n == Len(made) + 1
           t == Queued(blocks[b], c, n)
<1>6. t \in Seq(EntryRecord) /\ OneEach(t) /\ Grown(blocks[b], c, n, t)
  <2>1. n \in Nat
    BY <1>1
  <2> HIDE DEF n
  <2> QED
    BY <2>1, <1>5, QueuedGrows
<1>7. blocks' = [blocks EXCEPT ![b] = t]
  BY DEF Defer
<1> HIDE DEF t
<1>8. blocks' \in [Blocks -> Seq(EntryRecord)] /\ blocks'[b] = t
      /\ \A d \in Blocks \ {b} : blocks'[d] = blocks[d]
  BY <1>6, <1>7 DEF QueueTypeOK
<1> QED
  BY <1>1, <1>4, <1>6, <1>8 DEF m

(* The first entry of a block is taken out and runs; the block is the one  *)
(* that is being drained, or the first that holds any.  (_drain_deferred)  *)
LEMMA BeginEffect ==
  ASSUME QueueShape, CallbackBegin
  PROVE  \E b \in Blocks :
           /\ block # 0 => b = block
           /\ block = 0 => \A d \in Blocks : d < b => blocks[d] = << >>
           /\ block' = b /\ running' = <<b, blocks[b][1].callback>> /\ running' \in AllKeys
           /\ blocks' \in [Blocks -> Seq(EntryRecord)]
           /\ Removal(blocks[b], 1, blocks'[b])
           /\ \A d \in Blocks \ {b} : blocks'[d] = blocks[d]
           /\ ran' \in Seq([entry : AllKeys, collects : SUBSET Nat])
           /\ Len(ran) \in Nat /\ DOMAIN ran = 1..Len(ran) /\ DOMAIN ran' = 1..(Len(ran) + 1)
           /\ \A k \in DOMAIN ran : ran'[k] = ran[k]
           /\ ran'[Len(ran) + 1] = [entry |-> running', collects |-> blocks[b][1].collects]
<1> USE DEF QueueShape
<1> DEFINE b == NextBlock
           e == blocks[b][1]
           r == [entry |-> <<b, e.callback>>, collects |-> e.collects]
<1>1. Filled \in SUBSET Nat /\ Filled # {} /\ Filled \subseteq Blocks
  BY DeferredAssumption DEF CallbackBegin, Filled
<1>2. First(Filled) \in Filled /\ \A d \in Filled : First(Filled) <= d
  BY <1>1, FirstIsLeast
<1>3. b \in Blocks /\ blocks[b] # << >> /\ (block # 0 => b = block)
  BY <1>1, <1>2 DEF CallbackBegin, NextBlock, QueueTypeOK
<1>4. block = 0 => \A d \in Blocks : d < b => blocks[d] = << >>
  <2> SUFFICES ASSUME block = 0, NEW d \in Blocks, d < b, blocks[d] # << >>  PROVE FALSE
    OBVIOUS
  <2>1. b = First(Filled) /\ d \in Filled /\ b \in Nat /\ d \in Nat
    BY <1>3, DeferredAssumption DEF NextBlock, Filled
  <2> QED
    BY <2>1, <1>2
<1>5. CallbackBegin =>
        /\ block' = b /\ blocks' = [blocks EXCEPT ![b] = Tail(@)]
        /\ running' = <<b, Head(blocks[b]).callback>>
        /\ ran' = Append(ran, [entry |-> <<b, Head(blocks[b]).callback>>,
                               collects |-> Head(blocks[b]).collects])
  BY DEF CallbackBegin, Entry
<1> HIDE DEF b
<1>6. /\ Tail(blocks[b]) \in Seq(EntryRecord) /\ Removal(blocks[b], 1, Tail(blocks[b]))
      /\ Head(blocks[b]) = e /\ e \in EntryRecord
  BY <1>3, TailRemoves DEF QueueTypeOK
<1>7. /\ blocks' \in [Blocks -> Seq(EntryRecord)] /\ blocks'[b] = Tail(blocks[b])
      /\ \A d \in Blocks \ {b} : blocks'[d] = blocks[d]
  BY <1>3, <1>5, <1>6 DEF QueueTypeOK
<1>8. running' = <<b, e.callback>> /\ running' \in AllKeys
  BY <1>3, <1>5, <1>6 DEF AllKeys, EntryRecord
<1>9. r \in [entry : AllKeys, collects : SUBSET Nat] /\ ran' = Append(ran, r)
  BY <1>3, <1>5, <1>6 DEF AllKeys, EntryRecord
<1> HIDE DEF r
<1>10. Len(ran) \in Nat /\ DOMAIN ran = 1..Len(ran)
  BY LenProperties DEF QueueTypeOK
<1>11. /\ ran' \in Seq([entry : AllKeys, collects : SUBSET Nat])
       /\ DOMAIN ran' = 1..(Len(ran) + 1)
       /\ \A k \in DOMAIN ran : ran'[k] = ran[k]
       /\ ran'[Len(ran) + 1] = r
  BY <1>9, <1>10 DEF QueueTypeOK
<1>12. r = [entry |-> running', collects |-> e.collects]
  BY <1>8 DEF r
<1> QED
  BY <1>3, <1>4, <1>5, <1>6, <1>7, <1>8, <1>10, <1>11, <1>12

(* At most the entry of the callback that returns is taken out.            *)
(* (_drain_deferred)                                                       *)
LEMMA ReturnEffect ==
  ASSUME QueueShape, CallbackReturns
  PROVE  /\ block \in Blocks /\ running \in AllKeys /\ running[1] = block /\ mode = "draining"
         /\ blocks' \in [Blocks -> Seq(EntryRecord)]
         /\ \A d \in Blocks \ {block} : blocks'[d] = blocks[d]
         /\ \/ /\ blocks'[block] = blocks[block]
               /\ \/ running[2] \in Recursive
                  \/ \A k \in DOMAIN blocks[block] : blocks[block][k].callback # running[2]
            \/ /\ running[2] \notin Recursive
               /\ \E p \in DOMAIN blocks[block] :
                    /\ blocks[block][p].callback = running[2]
                    /\ Removal(blocks[block], p, blocks'[block])
<1> USE DEF QueueShape
<1>1. block \in Blocks /\ running \in AllKeys /\ running[1] = block /\ mode = "draining"
  BY DEF CallbackReturns, QueueTypeOK, RunsInTheDrain, AllKeys
<1>2. blocks[block] \in Seq(EntryRecord)
  BY <1>1 DEF QueueTypeOK
<1> DEFINE t == Kept(blocks[block], running[2])
<1>3. blocks' = [blocks EXCEPT ![block] = t]
  BY DEF CallbackReturns
<1>4. /\ t \in Seq(EntryRecord)
      /\ \/ /\ t = blocks[block]
            /\ \/ running[2] \in Recursive
               \/ \A k \in DOMAIN blocks[block] : blocks[block][k].callback # running[2]
         \/ /\ running[2] \notin Recursive
            /\ \E p \in DOMAIN blocks[block] :
                 blocks[block][p].callback = running[2] /\ Removal(blocks[block], p, t)
  BY <1>2, KeptRemoves
<1> HIDE DEF t
<1>5. /\ blocks' \in [Blocks -> Seq(EntryRecord)] /\ blocks'[block] = t
      /\ \A d \in Blocks \ {block} : blocks'[d] = blocks[d]
  BY <1>1, <1>3, <1>4 DEF QueueTypeOK
<1> QED
  BY <1>1, <1>4, <1>5

(* Nothing is queued in an empty queue, and nothing was asked.             *)
LEMMA EmptyIs ==
  /\ Empty \in [Blocks -> Seq(EntryRecord)] /\ Empty \in [Blocks -> Seq(Callbacks)]
  /\ \A b \in Blocks : Empty[b] = << >> /\ DOMAIN Empty[b] = {} /\ OneEach(Empty[b])
<1>1. /\ << >> \in Seq(EntryRecord) /\ << >> \in Seq(Callbacks)
  OBVIOUS
<1>2. DOMAIN << >> = {}
  OBVIOUS
<1> QED
  BY <1>1, <1>2 DEF Empty, OneEach

(* What is listed is what is queued, in its order.                         *)
LEMMA ListedIs ==
  ASSUME QueueTypeOK
  PROVE  /\ Listed \in [Blocks -> Seq(Callbacks)]
         /\ \A b \in Blocks : /\ DOMAIN Listed[b] = DOMAIN blocks[b]
                              /\ \A k \in DOMAIN blocks[b] : Listed[b][k] = blocks[b][k].callback
<1>1. ASSUME NEW b \in Blocks
      PROVE  [k \in DOMAIN blocks[b] |-> blocks[b][k].callback] \in Seq(Callbacks)
  <2>1. /\ Len(blocks[b]) \in Nat /\ DOMAIN blocks[b] = 1..Len(blocks[b])
        /\ \A k \in DOMAIN blocks[b] : blocks[b][k] \in EntryRecord
    BY LenProperties, ElementOfSeq DEF QueueTypeOK
  <2>2. [k \in DOMAIN blocks[b] |-> blocks[b][k].callback] \in [1..Len(blocks[b]) -> Callbacks]
    BY <2>1 DEF EntryRecord
  <2> QED
    BY <2>1, <2>2, SeqDef
<1> QED
  BY <1>1 DEF Listed

-----------------------------------------------------------------------------
(* The shape of the queue is kept: one callback runs at a time, inside a   *)
(* drain, for the block that is drained, and has one entry at most.        *)
LEMMA InitShape == QueueInit => QueueShape
<1> SUFFICES ASSUME QueueInit  PROVE QueueShape
  OBVIOUS
<1> USE DEF QueueInit
<1>1. QueueTypeOK
  BY EmptyIs DEF QueueTypeOK
<1>2. RunsInTheDrain /\ OneEntryEach
  BY EmptyIs DEF RunsInTheDrain, OneEntryEach
<1> QED
  BY <1>1, <1>2 DEF QueueShape

(* _defer *)
LEMMA DeferShape ==
  ASSUME QueueShape, NEW b \in Blocks, NEW c \in Callbacks, Defer(b, c)
  PROVE  QueueShape'
<1> USE DEF QueueShape
<1>1. QueueTypeOK'
  BY DeferEffect DEF QueueTypeOK, Defer
<1>2. RunsInTheDrain'
  BY DEF RunsInTheDrain, Ran, Defer
<1>3. OneEntryEach'
  <2> SUFFICES ASSUME NEW d \in Blocks  PROVE OneEach(blocks'[d])
    BY DEF OneEntryEach
  <2> QED
    BY DeferEffect DEF OneEntryEach
<1> QED
  BY <1>1, <1>2, <1>3

(* entries.pop(next(iter(entries))) *)
LEMMA BeginShape ==
  ASSUME QueueShape, CallbackBegin
  PROVE  QueueShape'
<1> USE DEF QueueShape
<1>1. PICK b \in Blocks :
        /\ block' = b /\ running' = <<b, blocks[b][1].callback>> /\ running' \in AllKeys
        /\ blocks' \in [Blocks -> Seq(EntryRecord)]
        /\ Removal(blocks[b], 1, blocks'[b])
        /\ \A d \in Blocks \ {b} : blocks'[d] = blocks[d]
        /\ ran' \in Seq([entry : AllKeys, collects : SUBSET Nat])
        /\ Len(ran) \in Nat /\ DOMAIN ran' = 1..(Len(ran) + 1)
        /\ ran'[Len(ran) + 1] = [entry |-> running', collects |-> blocks[b][1].collects]
  BY BeginEffect
<1>2. QueueTypeOK'
  BY <1>1 DEF QueueTypeOK, CallbackBegin
<1>3. RunsInTheDrain'
  <2>1. Len(ran) + 1 \in DOMAIN ran' /\ ran'[Len(ran) + 1].entry = running'
    BY <1>1
  <2>2. begun' = begun /\ begun < Len(ran) + 1 /\ Len(ran') = Len(ran) + 1
    <3>1. DOMAIN ran' = 1..Len(ran') /\ Len(ran') \in Nat
      BY <1>1, LenProperties
    <3> QED
      BY <1>1, <3>1 DEF CallbackBegin, RunsInTheDrain, QueueTypeOK
  <2> QED
    <3>1. Ran(running)'
      BY <1>1, <2>1, <2>2 DEF Ran
    <3>2. mode' = "draining" /\ begun' <= Len(ran') /\ running'[1] = block'
      BY <1>1, <2>2 DEF CallbackBegin, QueueTypeOK
    <3> QED
      BY <3>1, <3>2 DEF RunsInTheDrain
<1>4. OneEntryEach'
  <2> SUFFICES ASSUME NEW d \in Blocks  PROVE OneEach(blocks'[d])
    BY DEF OneEntryEach
  <2> QED
    BY <1>1, RemovalOneEach DEF OneEntryEach
<1> QED
  BY <1>2, <1>3, <1>4

(* entries.pop(key, None) *)
LEMMA ReturnShape ==
  ASSUME QueueShape, CallbackReturns
  PROVE  QueueShape'
<1> USE DEF QueueShape
<1>1. QueueTypeOK'
  BY ReturnEffect DEF QueueTypeOK, CallbackReturns
<1>2. RunsInTheDrain'
  BY ReturnEffect DEF RunsInTheDrain, CallbackReturns
<1>3. OneEntryEach'
  <2> SUFFICES ASSUME NEW d \in Blocks  PROVE OneEach(blocks'[d])
    BY DEF OneEntryEach
  <2>1. OneEach(blocks[d])
    BY DEF OneEntryEach
  <2> QED
    BY <2>1, ReturnEffect, RemovalOneEach
<1> QED
  BY <1>1, <1>2, <1>3

(* What is over has no callback running, and what is forgotten is empty.   *)
LEMMA ForgetsShape ==
  ASSUME QueueShape, NoDrain, Forgets
  PROVE  QueueShape'
<1>1. QueueTypeOK'
  BY EmptyIs DEF NoDrain, Forgets, QueueShape, QueueTypeOK
<1>2. RunsInTheDrain' /\ OneEntryEach'
  BY EmptyIs DEF NoDrain, Forgets, RunsInTheDrain, OneEntryEach
<1> QED
  BY <1>1, <1>2 DEF QueueShape

(* A callback raises. *)
LEMMA RaisesShape ==
  ASSUME QueueShape, CallbackRaises
  PROVE  QueueShape'
<1>1. QueueTypeOK'
  BY EmptyIs DEF CallbackRaises, NoDrain, QueueShape, QueueTypeOK
<1>2. Len(ran) \in Nat
  BY LenProperties DEF QueueShape, QueueTypeOK
<1>3. RunsInTheDrain' /\ OneEntryEach'
  BY <1>2 DEF CallbackRaises, NoDrain, QueueShape, RunsInTheDrain, OneEntryEach
<1> QED
  BY <1>1, <1>3 DEF QueueShape

(* Every step keeps the shape.                                             *)
LEMMA NextShape == QueueShape /\ [QueueNext]_queueVars => QueueShape'
<1> SUFFICES ASSUME QueueShape, [QueueNext]_queueVars  PROVE QueueShape'
  OBVIOUS
<1>1. CASE UNCHANGED queueVars
  BY <1>1 DEF queueVars, QueueShape, QueueTypeOK, RunsInTheDrain, Ran, OneEntryEach
<1>2. CASE DrainBegin
  <2>1. Len(ran) \in Nat
    BY LenProperties DEF QueueShape, QueueTypeOK
  <2> QED
    BY <1>2, <2>1, ListedIs DEF DrainBegin, QueueShape, QueueTypeOK, RunsInTheDrain, OneEntryEach
<1>3. CASE BlockEnds
  BY <1>3 DEF BlockEnds, QueueShape, QueueTypeOK, RunsInTheDrain, Ran, OneEntryEach
<1>4. CASE DrainEnds \/ ExecutionFails \/ Clear
  BY <1>4, ForgetsShape DEF DrainEnds, ExecutionFails, Clear
<1>5. CASE CallbackRaises
  BY <1>5, RaisesShape
<1> QED
  BY <1>1, <1>2, <1>3, <1>4, <1>5, DeferShape, BeginShape, ReturnShape DEF QueueNext

(* Every reachable queue has this shape.  (_defer, _drain_deferred)        *)
THEOREM QueueShapeHolds == QueueSpec => []QueueShape
  BY InitShape, NextShape, PTL DEF QueueSpec

-----------------------------------------------------------------------------
(* What is waiting, as a set of keys. *)
LEMMA WaitingIs ==
  ASSUME NEW q, NEW e
  PROVE  e \in Waiting(q) <=>
           \E b \in Blocks : \E k \in DOMAIN q[b] : e = <<b, q[b][k].callback>>
  BY DEF Waiting, Entry

(* Forgetting blocks and order, the queue starts empty ...                 *)
LEMMA InitImplements == QueueInit => Set!Init
<1> SUFFICES ASSUME QueueInit  PROVE Set!Init
  OBVIOUS
<1>1. Waiting(Empty) = {}
  BY WaitingIs, EmptyIs
<1> QED
  BY <1>1 DEF QueueInit, Set!Init

(* ... a registration adds its key, which may be there ...                 *)
LEMMA DeferImplements ==
  ASSUME QueueShape, NEW b \in Blocks, NEW c \in Callbacks, Defer(b, c)
  PROVE  Set!Register(<<b, c>>)
<1>1. \A d \in Blocks \ {b} : blocks'[d] = blocks[d]
  BY DeferEffect
<1>2. /\ \A k \in DOMAIN blocks[b] : k \in DOMAIN blocks'[b]
                                     /\ blocks'[b][k].callback = blocks[b][k].callback
      /\ \A k \in DOMAIN blocks'[b] \ DOMAIN blocks[b] : blocks'[b][k].callback = c
      /\ \E k \in DOMAIN blocks'[b] : blocks'[b][k].callback = c
  <2>1. Grown(blocks[b], c, Len(made) + 1, blocks'[b])
    BY DeferEffect
  <2> QED
    BY <2>1 DEF Grown
<1>3. ASSUME NEW e
      PROVE  e \in Waiting(blocks') <=> e \in Waiting(blocks) \cup {<<b, c>>}
  <2>1. ASSUME e \in Waiting(blocks')  PROVE e \in Waiting(blocks) \cup {<<b, c>>}
    BY <2>1, <1>1, <1>2, WaitingIs
  <2>2. ASSUME e \in Waiting(blocks)  PROVE e \in Waiting(blocks')
    BY <2>2, <1>1, <1>2, WaitingIs
  <2>3. <<b, c>> \in Waiting(blocks')
    BY <1>2, WaitingIs
  <2> QED
    BY <2>1, <2>2, <2>3
<1>4. Waiting(blocks') = Waiting(blocks) \cup {<<b, c>>}
  BY <1>3
<1> QED
  BY <1>4 DEF Set!Register, Defer, QueueShape, RunsInTheDrain

(* ... taking out an entry takes out its key, for there is only one ...    *)
LEMMA RemovalWaiting ==
  ASSUME OneEntryEach, NEW b \in Blocks, NEW p, Removal(blocks[b], p, blocks'[b]),
         \A d \in Blocks \ {b} : blocks'[d] = blocks[d]
  PROVE  /\ Waiting(blocks') = Waiting(blocks) \ {<<b, blocks[b][p].callback>>}
         /\ <<b, blocks[b][p].callback>> \in Waiting(blocks)
<1> DEFINE key == <<b, blocks[b][p].callback>>
<1>1. /\ \A i \in DOMAIN blocks'[b] : Up(p, i) \in DOMAIN blocks[b] /\ blocks'[b][i] = blocks[b][Up(p, i)]
      /\ \A j \in DOMAIN blocks[b] \ {p} : \E i \in DOMAIN blocks'[b] : Up(p, i) = j
      /\ \A i \in DOMAIN blocks'[b] : blocks'[b][i].callback # blocks[b][p].callback
      /\ p \in DOMAIN blocks[b]
  <2>1. OneEach(blocks[b]) /\ p \in DOMAIN blocks[b]
    BY DEF OneEntryEach, Removal
  <2> QED
    BY <2>1, RemovalKeeps, RemovalOneEach
<1>2. ASSUME NEW e
      PROVE  e \in Waiting(blocks') <=> e \in Waiting(blocks) \ {key}
  <2>1. ASSUME e \in Waiting(blocks')  PROVE e \in Waiting(blocks) /\ e # key
    BY <2>1, <1>1, WaitingIs
  <2>2. ASSUME e \in Waiting(blocks), e # key  PROVE e \in Waiting(blocks')
    <3>1. PICK d \in Blocks : \E k \in DOMAIN blocks[d] : e = <<d, blocks[d][k].callback>>
      BY <2>2, WaitingIs
    <3>2. CASE d # b
      BY <3>1, <3>2, WaitingIs
    <3>3. CASE d = b
      <4>1. PICK k \in DOMAIN blocks[b] \ {p} : e = <<b, blocks[b][k].callback>>
        BY <3>1, <3>3, <2>2
      <4>2. PICK i \in DOMAIN blocks'[b] : blocks'[b][i] = blocks[b][k]
        BY <4>1, <1>1
      <4> QED
        BY <4>1, <4>2, WaitingIs
    <3> QED
      BY <3>2, <3>3
  <2> QED
    BY <2>1, <2>2
<1>3. key \in Waiting(blocks)
  BY <1>1, WaitingIs
<1> QED
  BY <1>2, <1>3

(* ... so a callback that begins is a run of its key ...                   *)
LEMMA BeginImplements ==
  ASSUME QueueShape, CallbackBegin
  PROVE  running' \in AllKeys /\ Set!Run(running')
<1>1. PICK b \in Blocks :
        /\ running' = <<b, blocks[b][1].callback>> /\ running' \in AllKeys
        /\ Removal(blocks[b], 1, blocks'[b])
        /\ \A d \in Blocks \ {b} : blocks'[d] = blocks[d]
  BY BeginEffect
<1>2. Waiting(blocks') = Waiting(blocks) \ {running'} /\ running' \in Waiting(blocks)
  BY <1>1, RemovalWaiting DEF QueueShape
<1> QED
  BY <1>1, <1>2 DEF Set!Run, CallbackBegin

(* ... and one that returns takes its own key with it, if it may not stay. *)
LEMMA ReturnImplements ==
  ASSUME QueueShape, CallbackReturns
  PROVE  Set!Return
<1>1. /\ block \in Blocks /\ running \in AllKeys /\ running = <<block, running[2]>>
      /\ \A d \in Blocks \ {block} : blocks'[d] = blocks[d]
      /\ blocks \in [Blocks -> Seq(EntryRecord)] /\ blocks' \in [Blocks -> Seq(EntryRecord)]
  BY ReturnEffect DEF AllKeys, QueueShape, QueueTypeOK
<1>2. running \in Blocks \X Recursive <=> running[2] \in Recursive
  BY <1>1
<1>3. Waiting(blocks') = IF running \in Blocks \X Recursive THEN Waiting(blocks)
                         ELSE Waiting(blocks) \ {running}
  <2>1. CASE blocks'[block] = blocks[block]
    <3>1. blocks' = blocks
      BY <2>1, <1>1
    <3>2. \/ running[2] \in Recursive
          \/ \A k \in DOMAIN blocks[block] : blocks[block][k].callback # running[2]
      <4>1. ASSUME NEW p, Removal(blocks[block], p, blocks'[block])  PROVE FALSE
        BY <2>1, <4>1 DEF Removal
      <4> QED
        BY <4>1, ReturnEffect
    <3>3. running[2] \in Recursive \/ running \notin Waiting(blocks)
      BY <3>2, <1>1, WaitingIs
    <3> QED
      BY <3>1, <3>3, <1>2
  <2>2. CASE blocks'[block] # blocks[block]
    <3>1. PICK p \in DOMAIN blocks[block] :
            /\ running[2] \notin Recursive /\ blocks[block][p].callback = running[2]
            /\ Removal(blocks[block], p, blocks'[block])
      BY <2>2, ReturnEffect
    <3>2. Waiting(blocks') = Waiting(blocks) \ {<<block, blocks[block][p].callback>>}
      BY <3>1, <1>1, RemovalWaiting DEF QueueShape
    <3> QED
      BY <3>1, <3>2, <1>1, <1>2
  <2> QED
    BY <2>1, <2>2
<1> QED
  BY <1>3 DEF Set!Return, CallbackReturns

(* Every step of the queue is one of the set, or none that shows there.    *)
LEMMA NextImplements == QueueShape /\ [QueueNext]_queueVars => [Set!Next]_(Set!vars)
<1> SUFFICES ASSUME QueueShape, [QueueNext]_queueVars  PROVE [Set!Next]_(Set!vars)
  OBVIOUS
<1>1. CASE UNCHANGED queueVars \/ BlockEnds
  BY <1>1 DEF queueVars, BlockEnds, Set!vars
<1>2. CASE DrainBegin
  BY <1>2 DEF DrainBegin, Set!Next, Set!Start
<1>3. CASE DrainEnds
  <2>1. Waiting(blocks) = {}
    <3>1. \A b \in Blocks : blocks[b] = << >>
      BY <1>3 DEF DrainEnds, Filled
    <3> QED
      BY <3>1, WaitingIs, EmptySeq
  <2>2. Waiting(Empty) = {}
    BY WaitingIs, EmptyIs
  <2> QED
    BY <1>3, <2>1, <2>2 DEF DrainEnds, NoDrain, Forgets, Set!Next, Set!Drained
<1>4. CASE CallbackRaises \/ ExecutionFails \/ Clear
  <2>1. Waiting(Empty) = {}
    BY WaitingIs, EmptyIs
  <2>2. running # Nobody => mode = "draining"
    BY DEF QueueShape, RunsInTheDrain
  <2>3. CASE CallbackRaises
    BY <2>2, <2>3 DEF CallbackRaises, NoDrain, Set!Next, Set!Raise
  <2>4. CASE ExecutionFails
    BY <2>1, <2>2, <2>4 DEF ExecutionFails, NoDrain, Forgets, Set!Next, Set!Raise
  <2>5. CASE Clear
    BY <2>1, <2>5 DEF Clear, NoDrain, Forgets, QueueShape, RunsInTheDrain, Set!Next, Set!Clear
  <2> QED
    BY <1>4, <2>3, <2>4, <2>5
<1>5. ASSUME NEW b \in Blocks, NEW c \in Callbacks, Defer(b, c)  PROVE Set!Next
  BY <1>5, DeferImplements DEF Set!Next
<1>6. CASE CallbackBegin
  BY <1>6, BeginImplements DEF Set!Next, AllKeys
<1>7. CASE CallbackReturns
  BY <1>7, ReturnImplements DEF Set!Next
<1> QED
  BY <1>1, <1>2, <1>3, <1>4, <1>5, <1>6, <1>7 DEF QueueNext

(* The queue of blocks and entries implements the set of keys in which     *)
(* Connections keeps its deferred callbacks.  (_defer, _drain_deferred)    *)
THEOREM QueueImplementsSet == QueueSpec => ImplementsSet
<1>1. QueueInit => Set!Init
  BY InitImplements
<1>2. QueueShape /\ [QueueNext]_queueVars => [Set!Next]_(Set!vars)
  BY NextImplements
<1> QED
  BY <1>1, <1>2, QueueShapeHolds, PTL DEF QueueSpec, ImplementsSet, Set!Spec

-----------------------------------------------------------------------------
(* An entry collects registrations of its own key only, ...                *)
EntriesCollectTheirOwn ==
  \A b \in Blocks : \A k \in DOMAIN blocks[b] : \A n \in blocks[b][k].collects :
    n \in DOMAIN made /\ made[n].entry = <<b, blocks[b][k].callback>>

(* ... what has been served is neither served nor queued again, ...        *)
ServedIsOver ==
  \A i \in DOMAIN ran : \A n \in ran[i].collects :
    /\ n \in DOMAIN made /\ ~Waits(n)
    /\ \A j \in DOMAIN ran : n \in ran[j].collects => i = j

(* ... and what its own callback has queued is known to be its own.        *)
QueuedByItself ==
  running # Nobody =>
    \A k \in DOMAIN blocks[block] : blocks[block][k].callback = running[2] =>
      \A n \in blocks[block][k].collects : made[n].during = running

NothingIsForgotten == \A n \in DOMAIN made : Served(n) \/ Waits(n) \/ ForItself(n)

ServedIInv ==
  EntriesCollectTheirOwn /\ ServedIsOver /\ QueuedByItself /\ NothingIsForgotten

-----------------------------------------------------------------------------
(* A new registration waits in its entry.  (_defer)                        *)
LEMMA DeferServed ==
  ASSUME QueueShape, ServedIInv, NEW b \in Blocks, NEW c \in Callbacks, Defer(b, c)
  PROVE  ServedIInv'
<1> DEFINE N == Len(made) + 1
<1>1. /\ Len(made) \in Nat /\ DOMAIN made = 1..Len(made) /\ DOMAIN made' = 1..N
      /\ \A n \in DOMAIN made : made'[n] = made[n]
      /\ made'[N].entry = <<b, c>> /\ made'[N].during = running
      /\ \A d \in Blocks \ {b} : blocks'[d] = blocks[d]
      /\ UNCHANGED <<block, running, ran>>
  <2>1. UNCHANGED <<block, running, ran>>
    BY DEF Defer
  <2>2. /\ Len(made) \in Nat /\ DOMAIN made = 1..Len(made) /\ DOMAIN made' = 1..(Len(made) + 1)
        /\ \A n \in DOMAIN made : made'[n] = made[n]
        /\ made'[Len(made) + 1] = [entry |-> <<b, c>>, during |-> running]
        /\ \A d \in Blocks \ {b} : blocks'[d] = blocks[d]
    BY DeferEffect
  <2> QED
    BY <2>1, <2>2
<1>2. Grown(blocks[b], c, N, blocks'[b])
  BY DeferEffect
<1>3. /\ N \notin DOMAIN made /\ N \in DOMAIN made'
      /\ \A n \in DOMAIN made' : n \in DOMAIN made \/ n = N
      /\ \A n \in DOMAIN made : n \in DOMAIN made'
  BY <1>1
<1> HIDE DEF N
<1>4. \A k \in DOMAIN blocks'[b] : \A n \in blocks'[b][k].collects :
        \/ n = N /\ blocks'[b][k].callback = c
        \/ k \in DOMAIN blocks[b] /\ n \in blocks[b][k].collects
             /\ blocks[b][k].callback = blocks'[b][k].callback
  <2> SUFFICES ASSUME NEW k \in DOMAIN blocks'[b], NEW n \in blocks'[b][k].collects
               PROVE  \/ n = N /\ blocks'[b][k].callback = c
                      \/ k \in DOMAIN blocks[b] /\ n \in blocks[b][k].collects
                           /\ blocks[b][k].callback = blocks'[b][k].callback
    OBVIOUS
  <2>1. CASE k \in DOMAIN blocks[b]
    <3>1. /\ blocks'[b][k].callback = blocks[b][k].callback
          /\ blocks'[b][k].collects = IF blocks[b][k].callback = c THEN blocks[b][k].collects \cup {N}
                                      ELSE blocks[b][k].collects
      BY <2>1, <1>2 DEF Grown
    <3> QED
      BY <3>1, <2>1
  <2>2. CASE k \notin DOMAIN blocks[b]
    BY <2>2, <1>2 DEF Grown
  <2> QED
    BY <2>1, <2>2
<1>5. /\ \A k \in DOMAIN blocks[b] : k \in DOMAIN blocks'[b] /\ blocks[b][k].collects \subseteq blocks'[b][k].collects
      /\ \E k \in DOMAIN blocks'[b] : N \in blocks'[b][k].collects
  BY <1>2 DEF Grown
<1>6. EntriesCollectTheirOwn'
  <2> SUFFICES ASSUME NEW d \in Blocks, NEW k \in DOMAIN blocks'[d], NEW n \in blocks'[d][k].collects
               PROVE  n \in DOMAIN made' /\ made'[n].entry = <<d, blocks'[d][k].callback>>
    BY DEF EntriesCollectTheirOwn
  <2>1. CASE d # b
    BY <2>1, <1>1, <1>3 DEF ServedIInv, EntriesCollectTheirOwn
  <2>2. CASE d = b
    BY <2>2, <1>1, <1>3, <1>4 DEF ServedIInv, EntriesCollectTheirOwn
  <2> QED
    BY <2>1, <2>2
<1>7. \A n \in DOMAIN made : Waits(n) <=> Waits(n)'
  <2> SUFFICES ASSUME NEW n \in DOMAIN made  PROVE Waits(n) <=> Waits(n)'
    OBVIOUS
  <2>1. n # N
    BY <1>3
  <2>2. ASSUME Waits(n)  PROVE Waits(n)'
    BY <2>2, <1>1, <1>5 DEF Waits
  <2>3. ASSUME Waits(n)'  PROVE Waits(n)
    BY <2>1, <2>3, <1>1, <1>4 DEF Waits
  <2> QED
    BY <2>2, <2>3
<1>8. ServedIsOver'
  BY <1>1, <1>3, <1>7 DEF ServedIInv, ServedIsOver
<1>9. QueuedByItself'
  <2> SUFFICES ASSUME running # Nobody, NEW k \in DOMAIN blocks'[block],
                      blocks'[block][k].callback = running[2], NEW n \in blocks'[block][k].collects
               PROVE  made'[n].during = running
    BY <1>1 DEF QueuedByItself
  <2>0. block \in Blocks
    BY DEF QueueShape, QueueTypeOK, RunsInTheDrain, AllKeys
  <2>1. CASE block # b
    <3>1. n \in DOMAIN made /\ made[n].during = running
      BY <2>0, <2>1, <1>1 DEF ServedIInv, EntriesCollectTheirOwn, QueuedByItself
    <3> QED
      BY <3>1, <1>1
  <2>2. CASE block = b
    <3>1. CASE n = N
      BY <3>1, <1>1
    <3>2. CASE n # N
      <4>1. n \in DOMAIN made /\ made[n].during = running
        BY <2>2, <3>2, <1>4 DEF ServedIInv, EntriesCollectTheirOwn, QueuedByItself
      <4> QED
        BY <4>1, <1>1
    <3> QED
      BY <3>1, <3>2
  <2> QED
    BY <2>1, <2>2
<1>10. NothingIsForgotten'
  <2> SUFFICES ASSUME NEW n \in DOMAIN made'  PROVE (Served(n) \/ Waits(n) \/ ForItself(n))'
    BY DEF NothingIsForgotten
  <2>1. CASE n = N
    BY <2>1, <1>5 DEF Waits
  <2>2. CASE n \in DOMAIN made
    BY <2>2, <1>1, <1>7 DEF ServedIInv, NothingIsForgotten, Served, ForItself
  <2> QED
    BY <2>1, <2>2, <1>3
<1> QED
  BY <1>6, <1>8, <1>9, <1>10 DEF ServedIInv

(* When an entry is taken out, what waits in the others still waits, and   *)
(* what it has collected waits no longer.                                  *)
LEMMA RemovalServed ==
  ASSUME QueueShape, ServedIInv, NEW b \in Blocks, NEW p, Removal(blocks[b], p, blocks'[b]),
         \A d \in Blocks \ {b} : blocks'[d] = blocks[d], UNCHANGED made
  PROVE  /\ EntriesCollectTheirOwn'
         /\ \A n : Waits(n)' <=> Waits(n) /\ n \notin blocks[b][p].collects
         /\ \A n \in blocks[b][p].collects :
              n \in DOMAIN made /\ Waits(n) /\ made[n].entry = <<b, blocks[b][p].callback>>
<1>1. OneEach(blocks[b]) /\ p \in DOMAIN blocks[b]
  BY DEF QueueShape, OneEntryEach, Removal
<1>2. /\ \A i \in DOMAIN blocks'[b] : Up(p, i) \in DOMAIN blocks[b] \ {p} /\ blocks'[b][i] = blocks[b][Up(p, i)]
      /\ \A j \in DOMAIN blocks[b] \ {p} : \E i \in DOMAIN blocks'[b] : Up(p, i) = j
      /\ \A i \in DOMAIN blocks'[b] : blocks'[b][i].callback # blocks[b][p].callback
  BY <1>1, RemovalKeeps, RemovalOneEach
<1>3. \A n \in blocks[b][p].collects :
        n \in DOMAIN made /\ Waits(n) /\ made[n].entry = <<b, blocks[b][p].callback>>
  BY <1>1 DEF ServedIInv, EntriesCollectTheirOwn, Waits
<1>4. EntriesCollectTheirOwn'
  <2> SUFFICES ASSUME NEW d \in Blocks, NEW k \in DOMAIN blocks'[d], NEW n \in blocks'[d][k].collects
               PROVE  n \in DOMAIN made /\ made[n].entry = <<d, blocks'[d][k].callback>>
    BY DEF EntriesCollectTheirOwn
  <2>1. CASE d # b
    BY <2>1 DEF ServedIInv, EntriesCollectTheirOwn
  <2>2. CASE d = b
    BY <2>2, <1>2 DEF ServedIInv, EntriesCollectTheirOwn
  <2> QED
    BY <2>1, <2>2
<1>5. ASSUME NEW n, Waits(n)'  PROVE Waits(n) /\ n \notin blocks[b][p].collects
  <2>1. PICK d \in Blocks : \E k \in DOMAIN blocks'[d] : n \in blocks'[d][k].collects
    BY <1>5 DEF Waits
  <2>2. CASE d # b
    <3>1. PICK k \in DOMAIN blocks[d] : n \in blocks[d][k].collects
      BY <2>1, <2>2
    <3>2. made[n].entry = <<d, blocks[d][k].callback>>
      BY <3>1 DEF ServedIInv, EntriesCollectTheirOwn
    <3> QED
      BY <3>1, <3>2, <2>2, <1>3 DEF Waits
  <2>3. CASE d = b
    <3>1. PICK k \in DOMAIN blocks'[b] : n \in blocks'[b][k].collects
      BY <2>1, <2>3
    <3>2. /\ Up(p, k) \in DOMAIN blocks[b] /\ n \in blocks[b][Up(p, k)].collects
          /\ blocks[b][Up(p, k)].callback # blocks[b][p].callback
      BY <3>1, <1>2
    <3>3. made[n].entry = <<b, blocks[b][Up(p, k)].callback>>
      BY <3>2 DEF ServedIInv, EntriesCollectTheirOwn
    <3> QED
      BY <3>2, <3>3, <1>3 DEF Waits
  <2> QED
    BY <2>2, <2>3
<1>6. ASSUME NEW n, Waits(n), n \notin blocks[b][p].collects  PROVE Waits(n)'
  <2>1. PICK d \in Blocks : \E k \in DOMAIN blocks[d] : n \in blocks[d][k].collects
    BY <1>6 DEF Waits
  <2>2. CASE d # b
    BY <2>1, <2>2 DEF Waits
  <2>3. CASE d = b
    <3>1. PICK k \in DOMAIN blocks[b] \ {p} : n \in blocks[b][k].collects
      BY <2>1, <2>3, <1>6
    <3>2. PICK i \in DOMAIN blocks'[b] : blocks'[b][i] = blocks[b][k]
      BY <3>1, <1>2
    <3> QED
      BY <3>1, <3>2 DEF Waits
  <2> QED
    BY <2>2, <2>3
<1> QED
  BY <1>3, <1>4, <1>5, <1>6

(* The run of an entry serves what it has collected.  (_drain_deferred)    *)
LEMMA BeginServed ==
  ASSUME QueueShape, ServedIInv, CallbackBegin
  PROVE  ServedIInv'
<1>1. PICK b \in Blocks :
        /\ block' = b /\ running' = <<b, blocks[b][1].callback>>
        /\ Removal(blocks[b], 1, blocks'[b])
        /\ \A d \in Blocks \ {b} : blocks'[d] = blocks[d]
        /\ Len(ran) \in Nat /\ DOMAIN ran = 1..Len(ran) /\ DOMAIN ran' = 1..(Len(ran) + 1)
        /\ \A k \in DOMAIN ran : ran'[k] = ran[k]
        /\ ran'[Len(ran) + 1] = [entry |-> running', collects |-> blocks[b][1].collects]
  BY BeginEffect
<1> DEFINE K == Len(ran) + 1
           C == blocks[b][1].collects
<1>2. /\ K \in DOMAIN ran' /\ K \notin DOMAIN ran /\ ran'[K].collects = C
      /\ \A k \in DOMAIN ran' : k \in DOMAIN ran \/ k = K
      /\ \A k \in DOMAIN ran : k \in DOMAIN ran' /\ ran'[k] = ran[k]
  BY <1>1
<1>3. UNCHANGED made
  BY DEF CallbackBegin
<1>4. /\ EntriesCollectTheirOwn'
      /\ \A n : Waits(n)' <=> Waits(n) /\ n \notin C
      /\ \A n \in C : n \in DOMAIN made /\ Waits(n)
  BY <1>1, <1>3, RemovalServed
<1>5. \A i \in DOMAIN blocks'[b] : blocks'[b][i].callback # blocks[b][1].callback
  <2>1. OneEach(blocks[b])
    BY DEF QueueShape, OneEntryEach
  <2> QED
    BY <2>1, <1>1, RemovalOneEach
<1> HIDE DEF K, C
<1>6. ServedIsOver'
  <2> SUFFICES ASSUME NEW i \in DOMAIN ran', NEW n \in ran'[i].collects
               PROVE  /\ n \in DOMAIN made /\ ~Waits(n)'
                      /\ \A j \in DOMAIN ran' : n \in ran'[j].collects => i = j
    BY <1>3 DEF ServedIsOver
  <2>1. CASE i = K
    BY <2>1, <1>2, <1>4 DEF ServedIInv, ServedIsOver
  <2>2. CASE i \in DOMAIN ran
    BY <2>2, <1>2, <1>4 DEF ServedIInv, ServedIsOver
  <2> QED
    BY <2>1, <2>2, <1>2
<1>7. QueuedByItself'
  BY <1>1, <1>5 DEF QueuedByItself
<1>8. NothingIsForgotten'
  <2> SUFFICES ASSUME NEW n \in DOMAIN made  PROVE (Served(n) \/ Waits(n) \/ ForItself(n))'
    BY <1>3 DEF NothingIsForgotten
  <2>1. CASE Served(n)
    BY <2>1, <1>2 DEF Served
  <2>2. CASE Waits(n) /\ n \notin C
    BY <2>2, <1>4
  <2>3. CASE n \in C
    BY <2>3, <1>2 DEF Served
  <2>4. CASE ForItself(n)
    BY <2>4, <1>3 DEF ForItself
  <2> QED
    BY <2>1, <2>2, <2>3, <2>4 DEF ServedIInv, NothingIsForgotten
<1> QED
  BY <1>4, <1>6, <1>7, <1>8 DEF ServedIInv

(* What is dropped when a callback returns was queued by itself, and may   *)
(* not be.  (_drain_deferred)                                              *)
LEMMA ReturnServed ==
  ASSUME QueueShape, ServedIInv, CallbackReturns
  PROVE  ServedIInv'
<1>1. /\ block \in Blocks /\ running \in AllKeys /\ running[1] = block
      /\ \A d \in Blocks \ {block} : blocks'[d] = blocks[d]
      /\ blocks \in [Blocks -> Seq(EntryRecord)] /\ blocks' \in [Blocks -> Seq(EntryRecord)]
  BY ReturnEffect DEF QueueShape, QueueTypeOK
<1>2. running # Nobody /\ running' = Nobody /\ UNCHANGED <<made, ran>>
  BY DEF CallbackReturns
<1>3. QueuedByItself'
  BY <1>2 DEF QueuedByItself
<1>4. CASE blocks'[block] = blocks[block]
  <2>1. blocks' = blocks
    BY <1>1, <1>4
  <2> QED
    BY <2>1, <1>2, <1>3 DEF ServedIInv, EntriesCollectTheirOwn, ServedIsOver, Waits, Served,
                            NothingIsForgotten, ForItself
<1>5. CASE blocks'[block] # blocks[block]
  <2>1. PICK p \in DOMAIN blocks[block] :
          /\ running[2] \notin Recursive /\ blocks[block][p].callback = running[2]
          /\ Removal(blocks[block], p, blocks'[block])
    BY <1>5, ReturnEffect
  <2> DEFINE C == blocks[block][p].collects
  <2>2. /\ EntriesCollectTheirOwn'
        /\ \A n : Waits(n)' <=> Waits(n) /\ n \notin C
        /\ \A n \in C : n \in DOMAIN made /\ made[n].entry = <<block, blocks[block][p].callback>>
    BY <1>1, <1>2, <2>1, RemovalServed
  <2>3. running = <<block, running[2]>>
    BY <1>1 DEF AllKeys
  <2>4. \A n \in C : ForItself(n)
    BY <2>1, <2>2, <2>3, <1>2 DEF ServedIInv, QueuedByItself, ForItself
  <2> HIDE DEF C
  <2>5. ServedIsOver'
    BY <1>2, <2>2 DEF ServedIInv, ServedIsOver
  <2>6. NothingIsForgotten'
    <3> SUFFICES ASSUME NEW n \in DOMAIN made  PROVE (Served(n) \/ Waits(n) \/ ForItself(n))'
      BY <1>2 DEF NothingIsForgotten
    <3>1. ForItself(n) => ForItself(n)'
      BY <1>2 DEF ForItself
    <3>2. Served(n) => Served(n)'
      BY <1>2 DEF Served
    <3> QED
      BY <3>1, <3>2, <2>2, <2>4 DEF ServedIInv, NothingIsForgotten
  <2> QED
    BY <2>2, <2>5, <2>6, <1>3 DEF ServedIInv
<1> QED
  BY <1>4, <1>5

(* An empty queue in which nothing was registered has served all.          *)
LEMMA EmptyServed ==
  ASSUME blocks' = Empty, made' = << >>, ran' = << >>, running' = Nobody
  PROVE  ServedIInv'
<1>1. DOMAIN << >> = {}
  OBVIOUS
<1> QED
  BY <1>1, EmptyIs DEF ServedIInv, EntriesCollectTheirOwn, ServedIsOver, QueuedByItself, NothingIsForgotten

(* Every step keeps account of the registrations.                          *)
LEMMA NextServed == QueueShape /\ ServedIInv /\ [QueueNext]_queueVars => ServedIInv'
<1> SUFFICES ASSUME QueueShape, ServedIInv, [QueueNext]_queueVars  PROVE ServedIInv'
  OBVIOUS
<1>1. CASE UNCHANGED queueVars \/ DrainBegin \/ BlockEnds
  <2>1. UNCHANGED <<blocks, made, running, ran>>
    BY <1>1 DEF queueVars, DrainBegin, BlockEnds, QueueShape, RunsInTheDrain
  <2>2. running # Nobody => UNCHANGED block
    BY <1>1 DEF queueVars, DrainBegin, BlockEnds
  <2> QED
    BY <2>1, <2>2 DEF ServedIInv, EntriesCollectTheirOwn, ServedIsOver, Waits, Served, ForItself,
                      QueuedByItself, NothingIsForgotten
<1>2. CASE DrainEnds \/ ExecutionFails \/ Clear
  <2>1. NoDrain /\ Forgets
    BY <1>2 DEF DrainEnds, ExecutionFails, Clear
  <2> QED
    BY <2>1, EmptyServed DEF NoDrain, Forgets
<1>3. CASE CallbackRaises
  <2>1. UNCHANGED <<blocks, made, ran>> /\ running' = Nobody
    BY <1>3 DEF CallbackRaises, NoDrain
  <2> QED
    BY <2>1 DEF ServedIInv, EntriesCollectTheirOwn, ServedIsOver, Waits, Served, ForItself,
                QueuedByItself, NothingIsForgotten
<1> QED
  BY <1>1, <1>2, <1>3, DeferServed, BeginServed, ReturnServed DEF QueueNext

-----------------------------------------------------------------------------
(* The order of what the drain began with. *)
Pending(b, c) == \E m \in DOMAIN blocks[b] : blocks[b][m].callback = c

(* What was asked has run or is still queued, ...                          *)
AskedIsRunOrPending ==
  \A b \in Blocks : \A k \in DOMAIN asked[b] :
    Ran(<<b, asked[b][k]>>) \/ Pending(b, asked[b][k])

(* ... what has not run is before all that was asked after it, ...         *)
AskedKeepsPlaces ==
  \A b \in Blocks : \A k, l \in DOMAIN asked[b] : \A m, n \in DOMAIN blocks[b] :
    (/\ k < l /\ ~Ran(<<b, asked[b][k]>>)
     /\ blocks[b][m].callback = asked[b][k] /\ blocks[b][n].callback = asked[b][l]) => m < n

(* ... and a block is drained when those before it have been.              *)
BlockByBlock ==
  block # 0 => \A b \in Blocks : b < block => \A k \in DOMAIN asked[b] : Ran(<<b, asked[b][k]>>)

OrderIInv ==
  AskedIsRunOrPending /\ AskedKeepsPlaces /\ BlockByBlock /\ AskedInOrder

(* A registration changes no place: a new entry is the last of its block,  *)
(* and if it was asked for it has run, like all that was asked before it.  *)
LEMMA DeferOrder ==
  ASSUME QueueShape, OrderIInv, NEW b \in Blocks, NEW c \in Callbacks, Defer(b, c)
  PROVE  OrderIInv'
<1>1. UNCHANGED <<block, ran, asked>> /\ \A d \in Blocks \ {b} : blocks'[d] = blocks[d]
  BY DeferEffect DEF Defer
<1>2. Grown(blocks[b], c, Len(made) + 1, blocks'[b])
  BY DeferEffect
<1>3. \A e : Ran(e)' <=> Ran(e)
  BY <1>1 DEF Ran, Defer
<1>4. /\ \A m \in DOMAIN blocks[b] : m \in DOMAIN blocks'[b] /\ blocks'[b][m].callback = blocks[b][m].callback
      /\ \A m \in DOMAIN blocks'[b] \ DOMAIN blocks[b] :
           /\ blocks'[b][m].callback = c
           /\ \A j \in DOMAIN blocks[b] : j < m /\ blocks[b][j].callback # c
  BY <1>2 DEF Grown
<1>5. AskedIsRunOrPending'
  <2> SUFFICES ASSUME NEW d \in Blocks, NEW k \in DOMAIN asked[d], ~Ran(<<d, asked[d][k]>>)
               PROVE  Pending(d, asked[d][k])'
    BY <1>1, <1>3 DEF AskedIsRunOrPending
  <2>1. Pending(d, asked[d][k])
    BY DEF OrderIInv, AskedIsRunOrPending
  <2> QED
    BY <2>1, <1>1, <1>4 DEF Pending
<1>6. AskedKeepsPlaces'
  <2> SUFFICES ASSUME NEW d \in Blocks, NEW k \in DOMAIN asked[d], NEW l \in DOMAIN asked[d],
                      NEW m \in DOMAIN blocks'[d], NEW n \in DOMAIN blocks'[d],
                      k < l, ~Ran(<<d, asked[d][k]>>),
                      blocks'[d][m].callback = asked[d][k], blocks'[d][n].callback = asked[d][l]
               PROVE  m < n
    BY <1>1, <1>3 DEF AskedKeepsPlaces
  <2>1. PICK j \in DOMAIN blocks[d] : blocks[d][j].callback = asked[d][k]
    BY DEF OrderIInv, AskedIsRunOrPending, Pending
  <2>2. CASE d # b
    BY <2>2, <1>1 DEF OrderIInv, AskedKeepsPlaces
  <2>3. CASE d = b
    <3>1. m \in DOMAIN blocks[b] /\ blocks[b][m].callback = asked[b][k]
      BY <2>1, <2>3, <1>4
    <3>2. CASE n \in DOMAIN blocks[b]
      BY <2>3, <3>1, <3>2, <1>4 DEF OrderIInv, AskedKeepsPlaces
    <3>3. CASE n \notin DOMAIN blocks[b]
      BY <2>3, <3>1, <3>3, <1>4
    <3> QED
      BY <3>2, <3>3
  <2> QED
    BY <2>2, <2>3
<1>7. BlockByBlock' /\ AskedInOrder'
  BY <1>1, <1>3 DEF OrderIInv, BlockByBlock, AskedInOrder, Entry
<1> QED
  BY <1>5, <1>6, <1>7 DEF OrderIInv

(* The drain begins with everything queued, in its places.                 *)
LEMMA DrainBeginOrder ==
  ASSUME QueueShape, DrainBegin
  PROVE  OrderIInv'
<1>1. block' = 0 /\ blocks' = blocks /\ asked' = Listed /\ ran' = ran /\ begun' = Len(ran)
  BY DEF DrainBegin, QueueShape, RunsInTheDrain
<1>2. \A b \in Blocks : /\ DOMAIN asked'[b] = DOMAIN blocks[b]
                        /\ \A k \in DOMAIN blocks[b] : asked'[b][k] = blocks[b][k].callback
  BY <1>1, ListedIs DEF QueueShape
<1>3. \A e : ~Ran(e)'
  <2>1. Len(ran) \in Nat /\ DOMAIN ran = 1..Len(ran)
    BY LenProperties DEF QueueShape, QueueTypeOK
  <2> QED
    BY <2>1, <1>1 DEF Ran
<1>4. AskedIsRunOrPending'
  BY <1>1, <1>2 DEF AskedIsRunOrPending, Pending
<1>5. AskedKeepsPlaces'
  BY <1>1, <1>2 DEF AskedKeepsPlaces, QueueShape, OneEntryEach, OneEach
<1>6. BlockByBlock' /\ AskedInOrder'
  BY <1>1, <1>3 DEF BlockByBlock, AskedInOrder, Entry
<1> QED
  BY <1>4, <1>5, <1>6 DEF OrderIInv

(* Taking an entry out that has run moves the others up together.          *)
LEMMA RemovalOrder ==
  ASSUME QueueShape, AskedIsRunOrPending, AskedKeepsPlaces,
         NEW b \in Blocks, NEW p, Removal(blocks[b], p, blocks'[b]),
         \A d \in Blocks \ {b} : blocks'[d] = blocks[d], UNCHANGED asked,
         \A e : Ran(e) \/ e = <<b, blocks[b][p].callback>> => Ran(e)'
  PROVE  AskedIsRunOrPending' /\ AskedKeepsPlaces'
<1>1. /\ \A i \in DOMAIN blocks'[b] : Up(p, i) \in DOMAIN blocks[b] \ {p} /\ blocks'[b][i] = blocks[b][Up(p, i)]
      /\ \A j \in DOMAIN blocks[b] \ {p} : \E i \in DOMAIN blocks'[b] : Up(p, i) = j
      /\ \A i, j \in DOMAIN blocks'[b] : Up(p, i) < Up(p, j) <=> i < j
  BY RemovalKeeps
<1>2. AskedIsRunOrPending'
  <2> SUFFICES ASSUME NEW d \in Blocks, NEW k \in DOMAIN asked[d], ~Ran(<<d, asked[d][k]>>)'
               PROVE  Pending(d, asked[d][k])'
    BY DEF AskedIsRunOrPending
  <2>1. PICK j \in DOMAIN blocks[d] : blocks[d][j].callback = asked[d][k]
    BY DEF AskedIsRunOrPending, Pending
  <2>2. CASE d # b
    BY <2>1, <2>2 DEF Pending
  <2>3. CASE d = b
    <3>1. j # p
      <4>1. <<d, asked[d][k]>> # <<b, blocks[b][p].callback>>
        OBVIOUS
      <4> QED
        BY <4>1, <2>1, <2>3
    <3>2. PICK i \in DOMAIN blocks'[b] : Up(p, i) = j
      BY <2>1, <2>3, <3>1, <1>1
    <3> QED
      BY <2>1, <2>3, <3>2, <1>1 DEF Pending
  <2> QED
    BY <2>2, <2>3
<1>3. AskedKeepsPlaces'
  <2> SUFFICES ASSUME NEW d \in Blocks, NEW k \in DOMAIN asked[d], NEW l \in DOMAIN asked[d],
                      NEW m \in DOMAIN blocks'[d], NEW n \in DOMAIN blocks'[d],
                      k < l, ~Ran(<<d, asked[d][k]>>),
                      blocks'[d][m].callback = asked[d][k], blocks'[d][n].callback = asked[d][l]
               PROVE  m < n
    BY DEF AskedKeepsPlaces
  <2>1. CASE d # b
    BY <2>1 DEF AskedKeepsPlaces
  <2>2. CASE d = b
    <3>1. Up(p, m) < Up(p, n)
      BY <2>2, <1>1 DEF AskedKeepsPlaces
    <3> QED
      BY <3>1, <2>2, <1>1
  <2> QED
    BY <2>1, <2>2
<1> QED
  BY <1>2, <1>3

(* The entry that runs is the first of what was asked and has not run.     *)
LEMMA BeginOrder ==
  ASSUME QueueShape, OrderIInv, CallbackBegin
  PROVE  OrderIInv'
<1>1. PICK b \in Blocks :
        /\ block # 0 => b = block
        /\ block = 0 => \A d \in Blocks : d < b => blocks[d] = << >>
        /\ block' = b /\ running' = <<b, blocks[b][1].callback>>
        /\ Removal(blocks[b], 1, blocks'[b])
        /\ \A d \in Blocks \ {b} : blocks'[d] = blocks[d]
        /\ Len(ran) \in Nat /\ DOMAIN ran = 1..Len(ran) /\ DOMAIN ran' = 1..(Len(ran) + 1)
        /\ \A k \in DOMAIN ran : ran'[k] = ran[k]
        /\ ran'[Len(ran) + 1] = [entry |-> running', collects |-> blocks[b][1].collects]
  BY BeginEffect
<1> DEFINE c == blocks[b][1].callback
<1>2. UNCHANGED asked
  BY DEF CallbackBegin
<1>3. \A e : Ran(e)' <=> Ran(e) \/ e = <<b, c>>
  <2>1. ran'[Len(ran) + 1].entry = <<b, c>>
    BY <1>1
  <2>2. \A k \in DOMAIN ran' : k \in DOMAIN ran \/ k = Len(ran) + 1
    BY <1>1
  <2>3. Len(ran) + 1 \in DOMAIN ran' /\ \A k \in DOMAIN ran : k \in DOMAIN ran'
    BY <1>1
  <2>4. begun' = begun /\ begun < Len(ran) + 1
    BY <1>1 DEF CallbackBegin, QueueShape, RunsInTheDrain, QueueTypeOK
  <2> QED
    BY <2>1, <2>2, <2>3, <2>4, <1>1 DEF Ran
<1>4. AskedIsRunOrPending' /\ AskedKeepsPlaces'
  <2>1. \A e : Ran(e) \/ e = <<b, blocks[b][1].callback>> => Ran(e)'
    BY <1>3
  <2> QED
    BY <1>1, <1>2, <2>1, RemovalOrder DEF OrderIInv
<1>5. \A d \in Blocks : d < b => \A k \in DOMAIN asked[d] : Ran(<<d, asked[d][k]>>)
  <2> SUFFICES ASSUME NEW d \in Blocks, d < b, NEW k \in DOMAIN asked[d]
               PROVE  Ran(<<d, asked[d][k]>>)
    OBVIOUS
  <2>1. CASE block # 0
    BY <2>1, <1>1 DEF OrderIInv, BlockByBlock
  <2>2. CASE block = 0
    <3>1. blocks[d] = << >>
      BY <2>2, <1>1
    <3>2. DOMAIN << >> = {}
      OBVIOUS
    <3>3. ~Pending(d, asked[d][k])
      BY <3>1, <3>2 DEF Pending
    <3> QED
      BY <3>3 DEF OrderIInv, AskedIsRunOrPending
  <2> QED
    BY <2>1, <2>2
<1>6. BlockByBlock'
  BY <1>1, <1>2, <1>3, <1>5 DEF BlockByBlock
<1>7. ASSUME NEW k \in DOMAIN asked[b], NEW l \in DOMAIN asked[b], k < l, asked[b][l] = c
      PROVE  Ran(<<b, asked[b][k]>>)
  <2> SUFFICES ASSUME ~Ran(<<b, asked[b][k]>>)  PROVE FALSE
    OBVIOUS
  <2>1. PICK m \in DOMAIN blocks[b] : blocks[b][m].callback = asked[b][k]
    BY DEF OrderIInv, AskedIsRunOrPending, Pending
  <2>2. 1 \in DOMAIN blocks[b] /\ m \in 1..Len(blocks[b]) /\ Len(blocks[b]) \in Nat
    BY <1>1 DEF Removal
  <2>3. m < 1
    BY <1>7, <2>1, <2>2 DEF OrderIInv, AskedKeepsPlaces
  <2> QED
    BY <2>2, <2>3
<1> HIDE DEF c
<1>8. AskedInOrder'
  <2> SUFFICES ASSUME NEW a \in Blocks, NEW d \in Blocks, NEW k \in DOMAIN asked[a], NEW l \in DOMAIN asked[d],
                      Before(a, k, d, l), Ran(<<d, asked[d][l]>>)'
               PROVE  Ran(<<a, asked[a][k]>>)
    BY <1>2, <1>3 DEF AskedInOrder, Entry
  <2>1. CASE Ran(<<d, asked[d][l]>>)
    BY <2>1 DEF OrderIInv, AskedInOrder, Entry
  <2>2. CASE <<d, asked[d][l]>> = <<b, c>>
    BY <2>2, <1>5, <1>7 DEF Before
  <2> QED
    BY <2>1, <2>2, <1>2, <1>3
<1> QED
  BY <1>4, <1>6, <1>8 DEF OrderIInv

(* A callback that returns has run: its entry may go.                      *)
LEMMA ReturnOrder ==
  ASSUME QueueShape, OrderIInv, CallbackReturns
  PROVE  OrderIInv'
<1>1. /\ block \in Blocks /\ running \in AllKeys /\ running[1] = block
      /\ \A d \in Blocks \ {block} : blocks'[d] = blocks[d]
      /\ blocks \in [Blocks -> Seq(EntryRecord)] /\ blocks' \in [Blocks -> Seq(EntryRecord)]
  BY ReturnEffect DEF QueueShape, QueueTypeOK
<1>2. running # Nobody /\ UNCHANGED <<asked, ran, block>>
  BY DEF CallbackReturns
<1>3. running = <<block, running[2]>> /\ Ran(running)
  BY <1>1, <1>2 DEF AllKeys, QueueShape, RunsInTheDrain
<1>4. \A e : Ran(e)' <=> Ran(e)
  BY <1>2 DEF Ran, CallbackReturns
<1>5. BlockByBlock' /\ AskedInOrder'
  BY <1>2, <1>4 DEF OrderIInv, BlockByBlock, AskedInOrder, Entry
<1>6. CASE blocks'[block] = blocks[block]
  <2>1. blocks' = blocks
    BY <1>1, <1>6
  <2> QED
    BY <2>1, <1>2, <1>4, <1>5 DEF OrderIInv, AskedIsRunOrPending, AskedKeepsPlaces, Pending
<1>7. CASE blocks'[block] # blocks[block]
  <2>1. PICK p \in DOMAIN blocks[block] :
          /\ blocks[block][p].callback = running[2]
          /\ Removal(blocks[block], p, blocks'[block])
    BY <1>7, ReturnEffect
  <2>2. \A e : Ran(e) \/ e = <<block, blocks[block][p].callback>> => Ran(e)'
    BY <2>1, <1>3, <1>4
  <2>3. AskedIsRunOrPending' /\ AskedKeepsPlaces'
    BY <1>1, <1>2, <1>4, <2>1, <2>2, RemovalOrder DEF OrderIInv
  <2> QED
    BY <2>3, <1>5 DEF OrderIInv
<1> QED
  BY <1>6, <1>7

(* Nothing is out of order when nothing was asked.                         *)
LEMMA EmptyOrder ==
  ASSUME asked' = Empty, block' = 0
  PROVE  OrderIInv'
<1>1. \A b \in Blocks : DOMAIN asked'[b] = {}
  BY EmptyIs
<1> QED
  BY <1>1 DEF OrderIInv, AskedIsRunOrPending, AskedKeepsPlaces, BlockByBlock, AskedInOrder

(* Every step keeps the order.                                             *)
LEMMA NextOrder == QueueShape /\ OrderIInv /\ [QueueNext]_queueVars => OrderIInv'
<1> SUFFICES ASSUME QueueShape, OrderIInv, [QueueNext]_queueVars  PROVE OrderIInv'
  OBVIOUS
<1>1. CASE UNCHANGED queueVars \/ BlockEnds
  <2>1. UNCHANGED <<blocks, ran, begun, asked>> /\ (block' = block \/ block' = 0)
    BY <1>1 DEF queueVars, BlockEnds
  <2>2. /\ \A e : Ran(e)' <=> Ran(e)
        /\ \A b, c : Pending(b, c)' <=> Pending(b, c)
    BY <2>1 DEF Ran, Pending
  <2>3. AskedIsRunOrPending' /\ AskedKeepsPlaces' /\ BlockByBlock'
    BY <2>1, <2>2 DEF OrderIInv, AskedIsRunOrPending, AskedKeepsPlaces, BlockByBlock
  <2>4. AskedInOrder'
    BY <2>1, <2>2 DEF OrderIInv, AskedInOrder, Entry
  <2> QED
    BY <2>3, <2>4 DEF OrderIInv
<1>2. CASE DrainEnds \/ CallbackRaises \/ ExecutionFails \/ Clear
  BY <1>2, EmptyOrder DEF DrainEnds, CallbackRaises, ExecutionFails, Clear, NoDrain
<1> QED
  BY <1>1, <1>2, DeferOrder, DrainBeginOrder, BeginOrder, ReturnOrder DEF QueueNext

-----------------------------------------------------------------------------
(* The accounts and the order are right before anything is queued.         *)
LEMMA InitServesTheQueue == QueueInit => ServedIInv /\ OrderIInv
<1> SUFFICES ASSUME QueueInit  PROVE ServedIInv /\ OrderIInv
  OBVIOUS
<1>1. DOMAIN << >> = {}
  OBVIOUS
<1>2. ServedIInv
  BY <1>1, EmptyIs DEF QueueInit, ServedIInv, EntriesCollectTheirOwn, ServedIsOver, QueuedByItself,
                       NothingIsForgotten
<1>3. OrderIInv
  BY EmptyIs DEF QueueInit, OrderIInv, AskedIsRunOrPending, AskedKeepsPlaces, BlockByBlock, AskedInOrder
<1> QED
  BY <1>2, <1>3

(* What is accounted for is what ServesTheQueue says.                      *)
LEMMA IInvServesTheQueue == QueueShape /\ ServedIInv /\ OrderIInv => ServesTheQueue
<1> SUFFICES ASSUME QueueShape, ServedIInv, OrderIInv  PROVE ServesTheQueue
  OBVIOUS
<1>1. \A i, j \in DOMAIN ran : ran[i].collects \cap ran[j].collects # {} => i = j
  BY DEF ServedIInv, ServedIsOver
<1>2. \A n : ~(Served(n) /\ Waits(n))
  BY DEF ServedIInv, ServedIsOver, Served
<1> QED
  BY <1>1, <1>2 DEF ServesTheQueue, OrderIInv, ServedOnce, ServedIInv, NothingIsForgotten

(* A drain runs what was queued in the order of blocks and registrations,  *)
(* and every registration is served once, and waits until it is, but those *)
(* a callback made for itself and may not make, also when callbacks raise  *)
(* and it takes several drains.  (_defer, _drain_deferred)                 *)
THEOREM QueueServes == QueueSpec => []ServesTheQueue
<1>1. QueueInit => QueueShape /\ ServedIInv /\ OrderIInv
  BY InitShape, InitServesTheQueue
<1>2. QueueShape /\ ServedIInv /\ OrderIInv /\ [QueueNext]_queueVars
        => (QueueShape /\ ServedIInv /\ OrderIInv)'
  BY NextShape, NextServed, NextOrder
<1> QED
  BY <1>1, <1>2, IInvServesTheQueue, PTL DEF QueueSpec
=============================================================================
