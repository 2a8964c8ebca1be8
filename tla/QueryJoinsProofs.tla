-------------------------- MODULE QueryJoinsProofs --------------------------
(***************************************************************************)
(* Every column reference of a compiled statement names the row its path   *)
(* leads to, for every model and request: however joins are shared,        *)
(* formulas are entered from joined tables and subqueries reach out.       *)
(***************************************************************************)
EXTENDS QueryJoins, SequenceTheorems, TLAPS

Walks == [kind : {"walk"}, place : Places, path : Paths, column : STRING]
Todos == Seq(References \cup Walks)
Keyed == Tables \X STRING
Frames == [place : Places, owner : Places \cup {Null}, todo : Todos, key : Keyed \cup {Null},
           scope : Seq(Nat)]
JoinRecords == [alias : Aliases, table : Tables, source : Aliases, name : STRING]
SelectRecords == [table : Tables, outer : Places \cup {Null}, joins : Seq(JoinRecords)]
Leaves == [scope : Seq(Nat), alias : Aliases, row : Nat \X Paths]

JoinsTypeOK ==
  /\ selects \in Seq(SelectRecords) /\ stack \in Seq(Frames)
  /\ formulas \subseteq Keyed /\ leaves \subseteq Leaves
  /\ outcome \in {"compiling", "refused", "cyclic", "overflow", "done"}
  /\ outcome = "compiling" => stack # << >>

(* The joins of a select are numbered as they are added. *)
AliasesCount ==
  \A c \in DOMAIN selects : \A k \in DOMAIN selects[c].joins :
    selects[c].joins[k].alias = <<c - 1, k>>

(* A place's alias stands, in its select, for the row that the place has.  *)
Stands(c, row, alias) ==
  /\ c \in DOMAIN selects /\ row[1] = c
  /\ Declares(BaseAlias(c), selects[c].joins, alias)
  /\ Leads(BaseAlias(c), selects[c].joins, row[2], alias)

(* A scope lists selects, each inside the one before it. *)
Nests(scope) ==
  \A k \in DOMAIN scope :
    scope[k] \in DOMAIN selects /\ \A j \in DOMAIN scope : j < k => scope[j] < scope[k]
Within(c, scope) == \E k \in DOMAIN scope : scope[k] = c

(* A place may be written about where its select is in scope. *)
Sound(p, scope) == Stands(p.ctx, p.row, p.alias) /\ Within(p.ctx, scope)

(* An expression is about places in scope: its own, its owner's or, of a   *)
(* subquery, the row it is in; only its first item is a path under way.    *)
FrameHolds(f) ==
  /\ Nests(f.scope) /\ Sound(f.place, f.scope)
  /\ f.owner # Null => Sound(f.owner, f.scope)
  /\ (f.owner = Null /\ selects[f.place.ctx].outer # Null) =>
       Sound(selects[f.place.ctx].outer, f.scope)
  /\ \A i \in DOMAIN f.todo :
       f.todo[i].kind = "walk" => i = 1 /\ Sound(f.todo[i].place, f.scope)

LeafHolds(leaf) ==
  Nests(leaf.scope) /\ Stands(leaf.row[1], leaf.row, leaf.alias) /\ Within(leaf.row[1], leaf.scope)

FramesHold == \A i \in DOMAIN stack : FrameHolds(stack[i])
LeavesHold == \A leaf \in leaves : LeafHolds(leaf)

JoinsIInv == JoinsTypeOK /\ AliasesCount /\ FramesHold /\ LeavesHold
-----------------------------------------------------------------------------
(* What is led to stays led to when joins are added.                       *)
LEMMA LeadsStays ==
  ASSUME NEW base, NEW joins, NEW more, NEW path \in Paths, NEW alias,
         DOMAIN joins \subseteq DOMAIN more, \A k \in DOMAIN joins : more[k] = joins[k],
         Leads(base, joins, path, alias)
  PROVE  Leads(base, more, path, alias)
<1>1. CASE path = << >>
  BY <1>1 DEF Leads
<1>2. CASE path # << >>
  <2>1. PICK via \in [DOMAIN path -> DOMAIN joins] :
          /\ joins[via[Len(path)]].alias = alias
          /\ \A i \in DOMAIN path :
               /\ joins[via[i]].name = path[i]
               /\ joins[via[i]].source = IF i = 1 THEN base ELSE joins[via[i - 1]].alias
    BY <1>2 DEF Leads
  <2>2. /\ Len(path) \in Nat \ {0} /\ DOMAIN path = 1..Len(path)
    BY <1>2, EmptySeq, LenProperties DEF Paths
  <2>3. \A i \in DOMAIN path : via[i] \in DOMAIN joins
    OBVIOUS
  <2>4. \A i \in DOMAIN path : i # 1 => i - 1 \in DOMAIN path
    BY <2>2
  <2>5. via \in [DOMAIN path -> DOMAIN more]
    OBVIOUS
  <2>6. more[via[Len(path)]].alias = alias
    BY <2>1, <2>2, <2>3
  <2>7. \A i \in DOMAIN path :
          /\ more[via[i]].name = path[i]
          /\ more[via[i]].source = IF i = 1 THEN base ELSE more[via[i - 1]].alias
    BY <2>1, <2>3, <2>4
  <2> QED
    BY <1>2, <2>5, <2>6, <2>7 DEF Leads
<1> QED
  BY <1>1, <1>2

(* A join from where a path leads leads one relation further.              *)
LEMMA LeadsOn ==
  ASSUME NEW base, NEW joins, NEW path \in Paths, NEW alias, NEW name \in STRING,
         NEW j \in DOMAIN joins, joins[j].source = alias, joins[j].name = name,
         Leads(base, joins, path, alias)
  PROVE  Leads(base, joins, Append(path, name), joins[j].alias)
<1> DEFINE longer == Append(path, name)
           n == Len(path)
<1>1. /\ n \in Nat /\ DOMAIN path = 1..n /\ longer \in Paths /\ longer # << >>
      /\ Len(longer) = n + 1 /\ DOMAIN longer = 1..(n + 1)
      /\ \A i \in 1..n : longer[i] = path[i]
      /\ longer[n + 1] = name
  BY LenProperties, AppendProperties DEF Paths
<1> HIDE DEF longer, n
<1>2. SUFFICES \E via \in [DOMAIN longer -> DOMAIN joins] :
         /\ joins[via[Len(longer)]].alias = joins[j].alias
         /\ \A i \in DOMAIN longer :
              /\ joins[via[i]].name = longer[i]
              /\ joins[via[i]].source = IF i = 1 THEN base ELSE joins[via[i - 1]].alias
  BY <1>1 DEF Leads, longer
<1>3. CASE path = << >>
  <2>1. n = 0 /\ alias = base
    BY <1>3, EmptySeq DEF Leads, n
  <2>2. WITNESS [i \in DOMAIN longer |-> j] \in [DOMAIN longer -> DOMAIN joins]
  <2> QED
    BY <1>1, <2>1
<1>4. CASE path # << >>
  <2>1. PICK via \in [DOMAIN path -> DOMAIN joins] :
          /\ joins[via[Len(path)]].alias = alias
          /\ \A i \in DOMAIN path :
               /\ joins[via[i]].name = path[i]
               /\ joins[via[i]].source = IF i = 1 THEN base ELSE joins[via[i - 1]].alias
    BY <1>4 DEF Leads
  <2>2. n > 0
    BY <1>1, <1>4, EmptySeq DEF n, Paths
  <2>3. joins[via[n]].alias = alias
    BY <2>1 DEF n
  <2> DEFINE on == [i \in DOMAIN longer |-> IF i = n + 1 THEN j ELSE via[i]]
  <2>4. on \in [DOMAIN longer -> DOMAIN joins] /\ on[n + 1] = j /\ \A i \in 1..n : on[i] = via[i]
    BY <1>1
  <2> HIDE DEF on
  <2>5. \A i \in 1..n :
          /\ joins[on[i]].name = longer[i]
          /\ joins[on[i]].source = IF i = 1 THEN base ELSE joins[on[i - 1]].alias
    <3> TAKE i \in 1..n
    <3>1. i # 1 => i - 1 \in 1..n
      BY <1>1
    <3> QED
      BY <1>1, <2>1, <2>4, <3>1
  <2>6. /\ joins[on[n + 1]].name = longer[n + 1]
        /\ joins[on[n + 1]].source = joins[on[n]].alias /\ n + 1 # 1 /\ (n + 1) - 1 = n
    BY <1>1, <2>2, <2>3, <2>4
  <2>7. \A i \in DOMAIN longer :
          /\ joins[on[i]].name = longer[i]
          /\ joins[on[i]].source = IF i = 1 THEN base ELSE joins[on[i - 1]].alias
    <3> TAKE i \in DOMAIN longer
    <3>1. CASE i \in 1..n
      BY <2>5, <3>1
    <3>2. CASE i = n + 1
      BY <2>6, <3>2
    <3> QED
      BY <1>1, <3>1, <3>2
  <2>8. joins[on[Len(longer)]].alias = joins[j].alias
    BY <1>1, <2>4
  <2> QED
    BY <2>4, <2>7, <2>8
<1> QED
  BY <1>3, <1>4

-----------------------------------------------------------------------------
(* Nothing is taken from a select. *)
Grows ==
  \A c \in DOMAIN selects :
    /\ c \in DOMAIN selects' /\ selects'[c].outer = selects[c].outer
    /\ DOMAIN selects[c].joins \subseteq DOMAIN selects'[c].joins
    /\ \A k \in DOMAIN selects[c].joins : selects'[c].joins[k] = selects[c].joins[k]

LEMMA StandsStays ==
  ASSUME Grows, NEW c, NEW row \in Nat \X Paths, NEW alias, Stands(c, row, alias)
  PROVE  Stands(c, row, alias)'
<1>1. /\ c \in DOMAIN selects /\ c \in DOMAIN selects' /\ row[1] = c
      /\ DOMAIN selects[c].joins \subseteq DOMAIN selects'[c].joins
      /\ \A k \in DOMAIN selects[c].joins : selects'[c].joins[k] = selects[c].joins[k]
      /\ Declares(BaseAlias(c), selects[c].joins, alias)
      /\ Leads(BaseAlias(c), selects[c].joins, row[2], alias)
  BY DEF Grows, Stands
<1>2. Declares(BaseAlias(c), selects'[c].joins, alias)
  BY <1>1 DEF Declares
<1>3. Leads(BaseAlias(c), selects'[c].joins, row[2], alias)
  <2>1. row[2] \in Paths
    OBVIOUS
  <2> QED
    BY <1>1, <2>1, LeadsStays
<1> QED
  BY <1>1, <1>2, <1>3 DEF Stands

LEMMA NestsStays ==
  ASSUME Grows, NEW scope, Nests(scope)
  PROVE  Nests(scope)'
BY DEF Grows, Nests

LEMMA SoundStays ==
  ASSUME Grows, NEW p \in Places, NEW scope, Sound(p, scope)
  PROVE  Sound(p, scope)'
<1>1. p.row \in Nat \X Paths /\ Stands(p.ctx, p.row, p.alias) /\ Within(p.ctx, scope)
  BY DEF Places, Sound
<1>2. Stands(p.ctx, p.row, p.alias)'
  BY <1>1, StandsStays
<1> QED
  BY <1>1, <1>2 DEF Sound, Within

LEMMA FrameStays ==
  ASSUME Grows, JoinsTypeOK, NEW f \in Frames, FrameHolds(f)
  PROVE  FrameHolds(f)'
<1>1. /\ f.place \in Places /\ f.owner \in Places \cup {Null} /\ f.todo \in Todos
      /\ Nests(f.scope) /\ Sound(f.place, f.scope)
  BY DEF Frames, FrameHolds
<1>2. Nests(f.scope)' /\ Sound(f.place, f.scope)'
  BY <1>1, NestsStays, SoundStays
<1>3. f.owner # Null => Sound(f.owner, f.scope)'
  BY <1>1, SoundStays DEF FrameHolds
<1>4. /\ f.place.ctx \in DOMAIN selects
      /\ selects'[f.place.ctx].outer = selects[f.place.ctx].outer
  BY <1>1 DEF Sound, Stands, Grows
<1>5. selects[f.place.ctx].outer \in Places \cup {Null}
  <2>1. selects[f.place.ctx] \in SelectRecords
    BY <1>4, ElementOfSeq, LenProperties DEF JoinsTypeOK
  <2> QED
    BY <2>1 DEF SelectRecords
<1>6. ASSUME f.owner = Null, selects'[f.place.ctx].outer # Null
      PROVE  Sound(selects[f.place.ctx].outer, f.scope)'
  <2>1. PICK outer \in Places : outer = selects[f.place.ctx].outer
    BY <1>4, <1>5, <1>6
  <2>2. Sound(outer, f.scope)
    BY <1>4, <1>6, <2>1 DEF FrameHolds
  <2>3. Sound(outer, f.scope)' /\ outer = selects'[f.place.ctx].outer
    BY <1>4, <2>1, <2>2, SoundStays
  <2> QED
    BY <2>3 DEF Sound, Stands
<1>7. ASSUME NEW i \in DOMAIN f.todo, f.todo[i].kind = "walk"
      PROVE  i = 1 /\ Sound(f.todo[i].place, f.scope)'
  <2>1. i = 1 /\ Sound(f.todo[i].place, f.scope)
    BY <1>7 DEF FrameHolds
  <2>2. f.todo[i] \in References \cup Walks
    BY <1>1, <1>7, ElementOfSeq, LenProperties DEF Todos
  <2>3. \A ref \in References : ref.kind # "walk"
    BY QueryJoinsAssumption
  <2>4. f.todo[i].place \in Places
    BY <1>7, <2>2, <2>3 DEF Walks
  <2> QED
    BY <2>1, <2>4, SoundStays
<1> QED
  BY <1>2, <1>3, <1>6, <1>7 DEF FrameHolds

LEMMA LeafStays ==
  ASSUME Grows, NEW leaf \in Leaves, LeafHolds(leaf)
  PROVE  LeafHolds(leaf)'
<1>1. leaf.row \in Nat \X Paths
  BY DEF Leaves
<1> QED
  BY <1>1, NestsStays, StandsStays DEF LeafHolds, Within

-----------------------------------------------------------------------------
LEMMA InnermostIs ==
  ASSUME JoinsIInv, outcome = "compiling"
  PROVE  /\ Len(stack) \in Nat \ {0} /\ DOMAIN stack = 1..Len(stack)
         /\ Innermost \in Frames /\ FrameHolds(Innermost)
<1>1. stack \in Seq(Frames) /\ stack # << >>
  BY DEF JoinsIInv, JoinsTypeOK
<1>2. Len(stack) \in Nat \ {0} /\ DOMAIN stack = 1..Len(stack)
  BY <1>1, EmptySeq, LenProperties
<1>3. Innermost \in Frames
  BY <1>1, <1>2, ElementOfSeq DEF Innermost
<1> QED
  BY <1>2, <1>3 DEF JoinsIInv, FramesHold, Innermost

(* What comes first in an expression is a reference or a path under way.   *)
LEMMA ItemIs ==
  ASSUME JoinsIInv, outcome = "compiling", Innermost.todo # << >>
  PROVE  /\ Item \in References \cup Walks
         /\ Tail(Innermost.todo) \in Todos
         /\ \A i \in DOMAIN Tail(Innermost.todo) : Tail(Innermost.todo)[i].kind # "walk"
         /\ Item.kind = "walk" => Item \in Walks /\ Sound(Item.place, Innermost.scope)
<1> DEFINE todo == Innermost.todo
<1>1. todo \in Todos /\ todo # << >> /\ FrameHolds(Innermost)
  BY InnermostIs DEF Frames
<1>2. /\ Len(todo) \in Nat \ {0} /\ DOMAIN todo = 1..Len(todo)
      /\ Tail(todo) \in Todos /\ Len(Tail(todo)) = Len(todo) - 1
      /\ \A i \in 1..Len(Tail(todo)) : Tail(todo)[i] = todo[i + 1]
  BY <1>1, EmptySeq, LenProperties, HeadTailProperties DEF Todos
<1>3. DOMAIN Tail(todo) = 1..Len(Tail(todo))
  BY <1>2, LenProperties DEF Todos
<1>4. todo[1] \in References \cup Walks
  BY <1>1, <1>2, ElementOfSeq DEF Todos
<1>5. \A ref \in References : ref.kind # "walk"
  BY QueryJoinsAssumption
<1>6. \A i \in DOMAIN todo : todo[i].kind = "walk" => i = 1 /\ Sound(todo[i].place, Innermost.scope)
  BY <1>1 DEF FrameHolds
<1> HIDE DEF todo
<1>7. \A i \in DOMAIN Tail(todo) : Tail(todo)[i].kind # "walk"
  <2> TAKE i \in DOMAIN Tail(todo)
  <2>1. i + 1 \in DOMAIN todo /\ i + 1 # 1 /\ Tail(todo)[i] = todo[i + 1]
    BY <1>2, <1>3
  <2> QED
    BY <1>6, <2>1
<1>8. 1 \in DOMAIN todo
  BY <1>2
<1> QED
  BY <1>2, <1>4, <1>5, <1>6, <1>7, <1>8 DEF todo, Item

(* The innermost frame with other items is a frame that holds, if they are *)
(* about places in scope.                                                  *)
LEMMA WorkHolds ==
  ASSUME JoinsIInv, Grows, outcome = "compiling", NEW todo \in Todos, NEW f,
         f = Frame(Innermost.place, Innermost.owner, todo, Innermost.key, Innermost.scope),
         \A i \in DOMAIN todo : todo[i].kind = "walk" => i = 1 /\ Sound(todo[i].place, f.scope)'
  PROVE  f \in Frames /\ FrameHolds(f)'
<1>1. PICK g \in Frames : g = Innermost /\ FrameHolds(g)
  BY InnermostIs
<1>2. FrameHolds(g)'
  BY <1>1, FrameStays DEF JoinsIInv
<1>3. /\ f \in Frames
      /\ f.place = g.place /\ f.owner = g.owner /\ f.scope = g.scope /\ f.todo = todo
  BY <1>1 DEF Frame, Frames
<1> QED
  BY <1>2, <1>3 DEF FrameHolds

LEMMA TopStep ==
  ASSUME JoinsIInv, Grows, outcome = "compiling", NEW f \in Frames, FrameHolds(f)',
         NEW s, s = [stack EXCEPT ![Len(stack)] = f]
  PROVE  /\ s \in Seq(Frames) /\ Len(s) = Len(stack) /\ s # << >>
         /\ \A i \in DOMAIN s : FrameHolds(s[i])'
<1>1. stack \in Seq(Frames) /\ Len(stack) \in 1..Len(stack) /\ DOMAIN stack = 1..Len(stack)
  BY InnermostIs DEF JoinsIInv, JoinsTypeOK
<1>2. /\ s \in Seq(Frames) /\ Len(s) = Len(stack)
      /\ \A i \in 1..Len(stack) : s[i] = IF i = Len(stack) THEN f ELSE stack[i]
  BY <1>1, ExceptSeq
<1>3. DOMAIN s = 1..Len(stack) /\ s # << >>
  BY <1>1, <1>2, LenProperties, EmptySeq
<1>4. ASSUME NEW i \in 1..Len(stack)
      PROVE  FrameHolds(s[i])'
  <2>1. PICK g \in Frames : g = stack[i] /\ FrameHolds(g)
    BY <1>1, ElementOfSeq DEF JoinsIInv, FramesHold
  <2>2. FrameHolds(g)'
    BY <2>1, FrameStays DEF JoinsIInv
  <2> QED
    BY <1>2, <2>1, <2>2
<1> QED
  BY <1>2, <1>3, <1>4

LEMMA StackHolds ==
  ASSUME NEW s, stack' = s, \A i \in DOMAIN s : FrameHolds(s[i])'
  PROVE  FramesHold'
BY DEF FramesHold, FrameHolds

LEMMA LeavesStay ==
  ASSUME JoinsIInv, Grows, leaves' = leaves
  PROVE  LeavesHold'
BY LeafStays DEF JoinsIInv, JoinsTypeOK, LeavesHold

LEMMA RestHolds ==
  ASSUME JoinsIInv, Grows, outcome = "compiling", Innermost.todo # << >>, NEW s, s = Rest
  PROVE  /\ s \in Seq(Frames) /\ Len(s) = Len(stack) /\ s # << >>
         /\ \A i \in DOMAIN s : FrameHolds(s[i])'
<1>1. PICK todo \in Todos : todo = Tail(Innermost.todo) /\ \A i \in DOMAIN todo : todo[i].kind # "walk"
  BY ItemIs
<1>2. PICK f : f = Frame(Innermost.place, Innermost.owner, todo, Innermost.key, Innermost.scope)
  OBVIOUS
<1>3. f \in Frames /\ FrameHolds(f)'
  BY <1>1, <1>2, WorkHolds
<1>4. s = [stack EXCEPT ![Len(stack)] = f]
  BY <1>1, <1>2 DEF Rest, WithTodo
<1> QED
  BY <1>3, <1>4, TopStep

(* A path goes on from a place in scope. *)
LEMMA GoOnHolds ==
  ASSUME JoinsIInv, Grows, outcome = "compiling", Innermost.todo # << >>,
         NEW place \in Places, NEW path \in Paths, Item.column \in STRING,
         NEW scope, scope = Innermost.scope, Sound(place, scope)',
         stack' = GoOn(place, path)
  PROVE  stack' \in Seq(Frames) /\ stack' # << >> /\ FramesHold'
<1>1. PICK tail \in Todos :
        tail = Tail(Innermost.todo) /\ \A i \in DOMAIN tail : tail[i].kind # "walk"
  BY ItemIs
<1>2. PICK walk \in Walks :
        walk = Walk(place, path, Item.column) /\ walk.place = place
  <2>1. PICK column \in STRING : column = Item.column
    OBVIOUS
  <2>2. Walk(place, path, column) \in Walks /\ Walk(place, path, column).place = place
    BY DEF Walks, Walk
  <2> QED
    BY <2>1, <2>2
<1>3. PICK todo : todo = <<walk>> \o tail
  OBVIOUS
<1>4. /\ todo \in Todos /\ todo[1] = walk
      /\ \A i \in DOMAIN todo : i # 1 => i - 1 \in DOMAIN tail /\ todo[i] = tail[i - 1]
  <2>1. <<walk>> \in Todos /\ Len(<<walk>>) = 1 /\ <<walk>>[1] = walk
    BY DEF Todos
  <2>2. tail \in Todos /\ Len(tail) \in Nat /\ DOMAIN tail = 1..Len(tail)
    BY LenProperties DEF Todos
  <2>3. /\ todo \in Todos /\ Len(todo) = 1 + Len(tail)
        /\ \A i \in 1..(1 + Len(tail)) : todo[i] = IF i <= 1 THEN <<walk>>[i] ELSE tail[i - 1]
    BY <1>3, <2>1, <2>2, ConcatProperties DEF Todos
  <2>4. DOMAIN todo = 1..(1 + Len(tail))
    BY <2>3, LenProperties DEF Todos
  <2> QED
    BY <2>1, <2>2, <2>3, <2>4
<1>5. PICK f : f = Frame(Innermost.place, Innermost.owner, todo, Innermost.key, Innermost.scope)
  OBVIOUS
<1>6. f.scope = scope
  BY <1>5 DEF Frame
<1>7. \A i \in DOMAIN todo : todo[i].kind = "walk" => i = 1 /\ Sound(todo[i].place, f.scope)'
  <2> SUFFICES ASSUME NEW i \in DOMAIN todo, todo[i].kind = "walk"
               PROVE  i = 1 /\ Sound(todo[i].place, f.scope)'
    OBVIOUS
  <2>1. i = 1 /\ todo[i].place = place
    BY <1>1, <1>2, <1>4
  <2> QED
    BY <1>6, <2>1
<1>8. f \in Frames /\ FrameHolds(f)'
  BY <1>4, <1>5, <1>7, WorkHolds
<1>9. PICK s : s = [stack EXCEPT ![Len(stack)] = f]
  OBVIOUS
<1>10. stack' = s
  BY <1>1, <1>2, <1>3, <1>5, <1>9 DEF GoOn, WithTodo
<1>11. s \in Seq(Frames) /\ s # << >> /\ \A i \in DOMAIN s : FrameHolds(s[i])'
  BY <1>8, <1>9, TopStep
<1> QED
  BY <1>10, <1>11, StackHolds

-----------------------------------------------------------------------------
LEMMA ReferenceIs ==
  ASSUME JoinsIInv, NEW kind \in {"ref", "this"}, Working(kind)
  PROVE  Item.path \in Paths /\ Item.column \in STRING
<1>1. Item \in References \cup Walks /\ Item.kind \in {"ref", "this"}
  BY ItemIs DEF Working
<1>2. Item \in References
  BY <1>1 DEF Walks
<1> QED
  BY <1>1, <1>2, QueryJoinsAssumption

LEMMA WalkIs ==
  ASSUME JoinsIInv, Working("walk")
  PROVE  Item \in Walks /\ Sound(Item.place, Innermost.scope)
BY ItemIs DEF Working

LEMMA SubqueryIs ==
  ASSUME JoinsIInv, Working("sub")
  PROVE  Item.table \in Tables /\ Item.refs \in Expressions
<1>1. Item \in References \cup Walks /\ Item.kind = "sub"
  BY ItemIs DEF Working
<1>2. Item \in References
  BY <1>1 DEF Walks
<1> QED
  BY <1>1, <1>2, QueryJoinsAssumption

LEMMA ReferStep ==
  ASSUME JoinsIInv, Refer
  PROVE  JoinsIInv'
<1>1. /\ outcome = "compiling" /\ Innermost.todo # << >> /\ Grows
      /\ stack' = GoOn(Innermost.place, Item.path)
      /\ UNCHANGED <<selects, formulas, leaves, outcome>>
  BY DEF Refer, Working, Grows
<1>2. Item.path \in Paths /\ Item.column \in STRING
  BY ReferenceIs DEF Refer
<1>3. PICK place \in Places, scope \in Seq(Nat) :
        place = Innermost.place /\ scope = Innermost.scope /\ Sound(place, scope)
  <2>1. Innermost \in Frames /\ Sound(Innermost.place, Innermost.scope)
    BY <1>1, InnermostIs DEF FrameHolds
  <2>2. Innermost.place \in Places /\ Innermost.scope \in Seq(Nat)
    BY <2>1 DEF Frames
  <2> QED
    BY <2>1, <2>2
<1>4. Sound(place, scope)'
  BY <1>1, <1>3, SoundStays
<1>5. PICK path \in Paths : path = Item.path
  BY <1>2
<1>6. stack' \in Seq(Frames) /\ stack' # << >> /\ FramesHold'
  BY <1>1, <1>2, <1>3, <1>4, <1>5, GoOnHolds
<1>7. LeavesHold' /\ AliasesCount'
  BY <1>1, LeavesStay DEF JoinsIInv, AliasesCount
<1> QED
  BY <1>1, <1>6, <1>7 DEF JoinsIInv, JoinsTypeOK

(* The owner of an expression is in scope there. *)
LEMMA OwnerIs ==
  ASSUME JoinsIInv, outcome = "compiling", Owner # Null
  PROVE  Owner \in Places /\ Sound(Owner, Innermost.scope)
<1>1. Innermost \in Frames /\ FrameHolds(Innermost)
  BY InnermostIs
<1>2. CASE Innermost.owner # Null
  BY <1>1, <1>2 DEF Owner, FrameHolds, Frames
<1>3. CASE Innermost.owner = Null
  <2>1. Owner = selects[Innermost.place.ctx].outer /\ Innermost.place.ctx \in DOMAIN selects
    BY <1>1, <1>3 DEF Owner, FrameHolds, Sound, Stands
  <2>2. selects[Innermost.place.ctx] \in SelectRecords
    BY <2>1, ElementOfSeq, LenProperties DEF JoinsIInv, JoinsTypeOK
  <2>3. Owner \in Places
    BY <2>1, <2>2 DEF SelectRecords
  <2> QED
    BY <1>1, <1>3, <2>1, <2>3 DEF FrameHolds
<1> QED
  BY <1>2, <1>3

LEMMA ThisStep ==
  ASSUME JoinsIInv, This
  PROVE  JoinsIInv'
<1>1. /\ outcome = "compiling" /\ Innermost.todo # << >> /\ Grows
      /\ UNCHANGED <<selects, formulas, leaves>>
  BY DEF This, Working, Grows
<1>2. LeavesHold' /\ AliasesCount'
  BY <1>1, LeavesStay DEF JoinsIInv, AliasesCount
<1>3. CASE Owner = Null
  <2>1. outcome' = "refused" /\ stack' = stack
    BY <1>3 DEF This
  <2>2. FramesHold'
    BY <1>1, <2>1 DEF JoinsIInv, FramesHold, FrameHolds, Nests, Sound, Stands
  <2> QED
    BY <1>1, <1>2, <2>1, <2>2 DEF JoinsIInv, JoinsTypeOK
<1>4. CASE Owner # Null
  <2>1. stack' = GoOn(Owner, Item.path) /\ outcome' = outcome
    BY <1>4 DEF This
  <2>2. Item.path \in Paths /\ Item.column \in STRING
    BY ReferenceIs DEF This
  <2>3. PICK place \in Places, scope \in Seq(Nat) :
          place = Owner /\ scope = Innermost.scope /\ Sound(place, scope)
    <3>1. Innermost.scope \in Seq(Nat)
      BY <1>1, InnermostIs DEF Frames
    <3> QED
      BY <1>1, <1>4, <3>1, OwnerIs
  <2>4. Sound(place, scope)'
    BY <1>1, <2>3, SoundStays
  <2>5. PICK path \in Paths : path = Item.path
    BY <2>2
  <2>6. stack' \in Seq(Frames) /\ stack' # << >> /\ FramesHold'
    BY <1>1, <2>1, <2>2, <2>3, <2>4, <2>5, GoOnHolds
  <2> QED
    BY <1>1, <1>2, <2>1, <2>6 DEF JoinsIInv, JoinsTypeOK
<1> QED
  BY <1>3, <1>4

LEMMA ReachStep ==
  ASSUME JoinsIInv, Reach
  PROVE  JoinsIInv'
<1>1. /\ outcome = "compiling" /\ Innermost.todo # << >> /\ Grows
      /\ UNCHANGED <<selects, formulas, outcome>> /\ stack' = Rest
  BY DEF Reach, Working, Grows
<1>2. PICK s : s = Rest
  OBVIOUS
<1>3. s \in Seq(Frames) /\ s # << >> /\ \A i \in DOMAIN s : FrameHolds(s[i])'
  BY <1>1, <1>2, RestHolds
<1>4. FramesHold'
  BY <1>1, <1>2, <1>3, StackHolds
<1>5. PICK leaf : /\ leaf = [scope |-> Innermost.scope, alias |-> Item.place.alias, row |-> Item.place.row]
                  /\ leaves' = leaves \cup {leaf}
  BY DEF Reach
<1>6. Innermost \in Frames /\ FrameHolds(Innermost) /\ Item \in Walks /\ Sound(Item.place, Innermost.scope)
  BY <1>1, InnermostIs, WalkIs DEF Reach
<1>7. leaf \in Leaves
  BY <1>5, <1>6 DEF Leaves, Frames, Walks, Places
<1>8. LeafHolds(leaf)
  <2>1. Nests(leaf.scope) /\ leaf.row = Item.place.row /\ leaf.alias = Item.place.alias
    BY <1>5, <1>6 DEF FrameHolds
  <2>2. Stands(Item.place.ctx, Item.place.row, Item.place.alias) /\ Within(Item.place.ctx, leaf.scope)
    BY <1>5, <1>6 DEF Sound
  <2>3. Item.place.row[1] = Item.place.ctx
    BY <2>2 DEF Stands
  <2> QED
    BY <2>1, <2>2, <2>3 DEF LeafHolds
<1>9. LeavesHold'
  <2>1. \A other \in leaves : LeafHolds(other)'
    BY <1>1, LeafStays DEF JoinsIInv, JoinsTypeOK, LeavesHold
  <2>2. LeafHolds(leaf)'
    BY <1>1, <1>7, <1>8, LeafStays
  <2> QED
    BY <1>5, <2>1, <2>2 DEF LeavesHold
<1>10. AliasesCount'
  BY <1>1 DEF JoinsIInv, AliasesCount
<1> QED
  BY <1>1, <1>2, <1>3, <1>4, <1>5, <1>7, <1>9, <1>10 DEF JoinsIInv, JoinsTypeOK

-----------------------------------------------------------------------------
LEMMA ExpressionIs ==
  ASSUME NEW todo \in Expressions
  PROVE  todo \in Todos /\ \A i \in DOMAIN todo : todo[i].kind # "walk"
<1>1. todo \in Todos
  BY SeqMonotonic DEF Expressions, Todos
<1>2. \A i \in DOMAIN todo : todo[i] \in References
  BY ElementOfSeq, LenProperties DEF Expressions
<1>3. \A ref \in References : ref.kind # "walk"
  BY QueryJoinsAssumption
<1> QED
  BY <1>1, <1>2, <1>3

(* A frame is put on top of what is left to do. *)
LEMMA PushHolds ==
  ASSUME JoinsIInv, Grows, outcome = "compiling", Innermost.todo # << >>,
         NEW g \in Frames, FrameHolds(g)', stack' = Append(Rest, g)
  PROVE  stack' \in Seq(Frames) /\ stack' # << >> /\ FramesHold'
<1>1. PICK rest : rest = Rest
  OBVIOUS
<1>2. rest \in Seq(Frames) /\ \A i \in DOMAIN rest : FrameHolds(rest[i])'
  BY <1>1, RestHolds
<1>3. PICK s : s = Append(rest, g)
  OBVIOUS
<1>4. /\ s \in Seq(Frames) /\ s # << >> /\ Len(s) = Len(rest) + 1
      /\ \A i \in 1..Len(rest) : s[i] = rest[i]
      /\ s[Len(rest) + 1] = g
  BY <1>2, <1>3, AppendProperties
<1>5. Len(rest) \in Nat /\ DOMAIN rest = 1..Len(rest) /\ DOMAIN s = 1..(Len(rest) + 1)
  BY <1>2, <1>4, LenProperties
<1>6. ASSUME NEW i \in DOMAIN s
      PROVE  FrameHolds(s[i])'
  <2>1. CASE i \in DOMAIN rest
    BY <1>2, <1>4, <1>5, <2>1
  <2>2. CASE i = Len(rest) + 1
    BY <1>4, <2>2
  <2> QED
    BY <1>5, <2>1, <2>2
<1>7. stack' = s
  BY <1>1, <1>3
<1> QED
  BY <1>4, <1>6, <1>7, StackHolds

LEMMA EnterStep ==
  ASSUME JoinsIInv, Enter
  PROVE  JoinsIInv'
<1>1. /\ outcome = "compiling" /\ Innermost.todo # << >> /\ Grows
      /\ UNCHANGED <<selects, leaves>>
  BY DEF Enter, Working, Grows
<1>2. LeavesHold' /\ AliasesCount'
  BY <1>1, LeavesStay DEF JoinsIInv, AliasesCount
<1>3. Item \in Walks /\ Sound(Item.place, Innermost.scope)
  BY WalkIs DEF Enter
<1>4. PICK p \in Places, column \in STRING, scope \in Seq(Nat) :
        /\ p = Item.place /\ column = Item.column /\ scope = Innermost.scope
        /\ Nests(scope) /\ Sound(p, scope)
  BY <1>1, <1>3, InnermostIs DEF Walks, Frames, FrameHolds
<1> DEFINE key == <<p.table, column>>
<1>5. column \in DOMAIN Definitions[p.table]
  BY <1>4 DEF Enter
<1>6. CASE UnderWay(key) \/ Len(stack) >= MaxDepth
  <2>1. /\ stack' = stack /\ formulas' = formulas
        /\ outcome' = IF UnderWay(key) THEN "cyclic" ELSE "overflow"
    BY <1>4, <1>6 DEF Enter
  <2>2. FramesHold'
    BY <1>1, <2>1 DEF JoinsIInv, FramesHold, FrameHolds, Nests, Sound, Stands
  <2>3. outcome' \in {"cyclic", "overflow"}
    BY <2>1
  <2>4. JoinsTypeOK'
    BY <1>1, <2>1, <2>3 DEF JoinsIInv, JoinsTypeOK
  <2> QED
    BY <1>2, <2>2, <2>4 DEF JoinsIInv
<1>7. CASE ~(UnderWay(key) \/ Len(stack) >= MaxDepth)
  <2>1. /\ formulas' = formulas \cup {key} /\ outcome' = outcome
        /\ stack' = Append(Rest, Frame(p, p, Definitions[p.table][column], key, scope))
    BY <1>4, <1>7 DEF Enter
  <2>2. p.table \in Tables /\ key \in Keyed
    BY DEF Places, Keyed
  <2>3. PICK todo \in Expressions : todo = Definitions[p.table][column]
    BY <1>5, <2>2, QueryJoinsAssumption
  <2>4. PICK g : g = Frame(p, p, todo, key, scope)
    OBVIOUS
  <2>5. /\ g \in Frames /\ g.place = p /\ g.owner = p /\ g.scope = scope /\ g.todo = todo
    <3>1. todo \in Todos
      BY ExpressionIs
    <3> QED
      BY <2>2, <2>4, <3>1 DEF Frame, Frames
  <2>6. Nests(scope)' /\ Sound(p, scope)' /\ p # Null
    BY <1>1, <1>4, NestsStays, SoundStays, QueryJoinsAssumption
  <2>7. FrameHolds(g)'
    BY <2>5, <2>6, ExpressionIs DEF FrameHolds
  <2>8. stack' \in Seq(Frames) /\ stack' # << >> /\ FramesHold'
    BY <1>1, <2>1, <2>3, <2>4, <2>5, <2>7, PushHolds
  <2>9. JoinsTypeOK'
    BY <1>1, <2>1, <2>2, <2>8 DEF JoinsIInv, JoinsTypeOK
  <2> QED
    BY <1>2, <2>8, <2>9 DEF JoinsIInv
<1> QED
  BY <1>6, <1>7

LEMMA NestStep ==
  ASSUME JoinsIInv, Nest
  PROVE  JoinsIInv'
<1>1. /\ outcome = "compiling" /\ Innermost.todo # << >>
      /\ UNCHANGED <<formulas, leaves, outcome>>
  BY DEF Nest, Working
<1>2. PICK c, table, outer, refs, scope :
        /\ c = Len(selects) + 1 /\ table = Item.table /\ outer = Innermost.place
        /\ refs = Item.refs /\ scope = Innermost.scope
  OBVIOUS
<1>3. /\ selects' = Append(selects, Select(table, outer, << >>))
      /\ stack' = Append(Rest, Frame(BasePlace(c, table), Null, refs, Null, Append(scope, c)))
  BY <1>2 DEF Nest
<1>4. table \in Tables /\ refs \in Expressions
  BY <1>2, SubqueryIs DEF Nest
<1>5. outer \in Places /\ scope \in Seq(Nat) /\ Nests(scope) /\ Sound(outer, scope)
  BY <1>1, <1>2, InnermostIs DEF Frames, FrameHolds
<1>6. PICK select \in SelectRecords :
        select = Select(table, outer, << >>) /\ select.outer = outer /\ select.joins = << >>
  <2>1. << >> \in Seq(JoinRecords)
    BY EmptySeq
  <2>2. Select(table, outer, << >>) \in SelectRecords
    BY <1>4, <1>5, <2>1 DEF Select, SelectRecords
  <2> QED
    BY <2>2 DEF Select
<1>7. /\ selects \in Seq(SelectRecords) /\ Len(selects) \in Nat /\ DOMAIN selects = 1..Len(selects)
  BY LenProperties DEF JoinsIInv, JoinsTypeOK
<1>8. /\ selects' \in Seq(SelectRecords) /\ Len(selects') = c
      /\ \A k \in 1..Len(selects) : selects'[k] = selects[k]
      /\ selects'[c] = select
  BY <1>2, <1>3, <1>6, <1>7, AppendProperties
<1>9. c \in Nat \ {0} /\ DOMAIN selects' = 1..c /\ c \notin DOMAIN selects
  BY <1>2, <1>7, <1>8, LenProperties
<1>10. Grows
  BY <1>2, <1>7, <1>8, <1>9 DEF Grows
<1>11. AliasesCount'
  <2>1. DOMAIN select.joins = {}
    BY <1>6
  <2>2. \A k \in DOMAIN selects' : k = c \/ (k \in DOMAIN selects /\ selects'[k] = selects[k])
    BY <1>2, <1>7, <1>8, <1>9
  <2> QED
    BY <1>8, <2>1, <2>2 DEF JoinsIInv, AliasesCount
<1>12. LeavesHold'
  BY <1>1, <1>10, LeavesStay
<1> DEFINE inner == Append(scope, c)
           place == BasePlace(c, table)
<1>13. /\ inner \in Seq(Nat) /\ Len(scope) \in Nat /\ DOMAIN scope = 1..Len(scope)
       /\ DOMAIN inner = 1..(Len(scope) + 1)
       /\ \A k \in 1..Len(scope) : inner[k] = scope[k]
       /\ inner[Len(scope) + 1] = c
  <2>1. Len(scope) \in Nat /\ DOMAIN scope = 1..Len(scope)
    BY <1>5, LenProperties
  <2>2. /\ inner \in Seq(Nat) /\ Len(inner) = Len(scope) + 1
        /\ \A k \in 1..Len(scope) : inner[k] = scope[k]
        /\ inner[Len(scope) + 1] = c
    BY <1>5, <1>9, AppendProperties
  <2> QED
    BY <2>1, <2>2, LenProperties
<1>14. /\ place \in Places /\ place.ctx = c /\ place.alias = BaseAlias(c) /\ place.row = <<c, << >>>>
  <2>1. BaseAlias(c) \in Aliases
    BY <1>9 DEF Aliases, BaseAlias
  <2>2. << >> \in Paths
    BY EmptySeq DEF Paths
  <2>3. PICK row \in Nat \X Paths : row = <<c, << >>>>
    BY <1>9, <2>2
  <2>4. PICK alias \in Aliases : alias = BaseAlias(c)
    BY <2>1
  <2>5. place = PlaceAt(c, table, alias, row)
    BY <2>3, <2>4 DEF BasePlace
  <2>6. /\ PlaceAt(c, table, alias, row) \in Places
        /\ PlaceAt(c, table, alias, row).ctx = c /\ PlaceAt(c, table, alias, row).alias = alias
        /\ PlaceAt(c, table, alias, row).row = row
    BY <1>4, <1>9 DEF PlaceAt, Places
  <2> QED
    BY <2>3, <2>4, <2>5, <2>6
<1>15. Nests(inner)'
  <2>1. Nests(scope)'
    BY <1>5, <1>10, NestsStays
  <2>2. \A k \in DOMAIN scope : scope[k] < c
    BY <1>2, <1>5, <1>7 DEF Nests
  <2> HIDE DEF inner
  <2>3. \A k \in 1..Len(scope) :
          inner[k] \in DOMAIN selects' /\ \A j \in DOMAIN inner : j < k => inner[j] < inner[k]
    BY <1>13, <2>1 DEF Nests
  <2>4. inner[Len(scope) + 1] \in DOMAIN selects' /\ \A j \in 1..Len(scope) : inner[j] < inner[Len(scope) + 1]
    <3>1. c \in DOMAIN selects' /\ inner[Len(scope) + 1] = c
      BY <1>9, <1>13
    <3>2. \A j \in 1..Len(scope) : inner[j] < c
      BY <1>13, <2>2
    <3> QED
      BY <3>1, <3>2
  <2>5. \A k \in DOMAIN inner :
          inner[k] \in DOMAIN selects' /\ \A j \in DOMAIN inner : j < k => inner[j] < inner[k]
    <3> TAKE k \in DOMAIN inner
    <3>1. CASE k \in 1..Len(scope)
      BY <2>3, <3>1
    <3>2. CASE k = Len(scope) + 1
      BY <1>13, <2>4, <3>2
    <3> QED
      BY <1>13, <3>1, <3>2
  <2> QED
    BY <2>5 DEF Nests
<1>16. Within(c, inner)
  BY <1>13 DEF Within
<1>17. Sound(place, inner)'
  <2>1. Declares(BaseAlias(c), selects'[c].joins, BaseAlias(c))
    BY DEF Declares
  <2>2. Leads(BaseAlias(c), selects'[c].joins, << >>, BaseAlias(c))
    BY DEF Leads
  <2>3. c \in DOMAIN selects' /\ place.row[1] = c /\ place.row[2] = << >>
    BY <1>9, <1>14
  <2> HIDE DEF place
  <2> QED
    BY <1>14, <1>16, <2>1, <2>2, <2>3 DEF Sound, Stands, Within
<1>18. Sound(outer, inner)'
  <2>1. Sound(outer, scope)'
    BY <1>5, <1>10, SoundStays
  <2>2. Within(outer.ctx, inner)
    BY <1>13, <2>1 DEF Sound, Within
  <2> QED
    BY <2>1, <2>2 DEF Sound, Within
<1>19. PICK g : g = Frame(place, Null, refs, Null, inner)
  OBVIOUS
<1>20. /\ g \in Frames /\ g.place = place /\ g.owner = Null /\ g.scope = inner /\ g.todo = refs
  <2>1. refs \in Todos
    BY <1>4, ExpressionIs
  <2> HIDE DEF place, inner
  <2> QED
    BY <1>13, <1>14, <1>19, <2>1 DEF Frame, Frames
<1>21. FrameHolds(g)'
  <2> HIDE DEF place, inner
  <2>1. \A i \in DOMAIN g.todo : g.todo[i].kind # "walk"
    BY <1>4, <1>20, ExpressionIs
  <2>2. selects'[g.place.ctx].outer = outer
    BY <1>6, <1>8, <1>14, <1>20
  <2>3. Sound(selects[g.place.ctx].outer, g.scope)'
    BY <1>18, <1>20, <2>2 DEF Sound, Stands
  <2> QED
    BY <1>15, <1>17, <1>20, <2>1, <2>3 DEF FrameHolds
<1>22. stack' \in Seq(Frames) /\ stack' # << >> /\ FramesHold'
  BY <1>1, <1>3, <1>10, <1>19, <1>20, <1>21, PushHolds
<1>23. JoinsTypeOK'
  BY <1>1, <1>8, <1>22 DEF JoinsIInv, JoinsTypeOK
<1> QED
  BY <1>11, <1>12, <1>22, <1>23 DEF JoinsIInv

LEMMA ReturnStep ==
  ASSUME JoinsIInv, Return
  PROVE  JoinsIInv'
<1>1. /\ outcome = "compiling" /\ Grows /\ stack' = Front(stack)
      /\ formulas' = formulas \ {Innermost.key} /\ UNCHANGED <<selects, leaves>>
      /\ outcome' = IF Len(stack) = 1 THEN "done" ELSE outcome
  BY DEF Return, Grows, Left
<1>2. stack \in Seq(Frames) /\ Len(stack) \in Nat \ {0} /\ DOMAIN stack = 1..Len(stack)
  BY <1>1, InnermostIs DEF JoinsIInv, JoinsTypeOK
<1>3. PICK s : s = Front(stack)
  OBVIOUS
<1>4. /\ s \in Seq(Frames) /\ Len(s) = Len(stack) - 1 /\ DOMAIN s = 1..(Len(stack) - 1)
      /\ \A i \in 1..(Len(stack) - 1) : s[i] = stack[i]
  <2>1. s = SubSeq(stack, 1, Len(stack) - 1)
    BY <1>3 DEF Front
  <2>2. \A i \in 1..(Len(stack) - 1) : stack[i] \in Frames
    BY <1>2, ElementOfSeq
  <2> QED
    BY <1>2, <2>1, <2>2, SubSeqProperties, LenProperties
<1>5. ASSUME NEW i \in DOMAIN s
      PROVE  FrameHolds(s[i])'
  <2>1. PICK f \in Frames : f = stack[i] /\ FrameHolds(f)
    BY <1>2, <1>4, ElementOfSeq DEF JoinsIInv, FramesHold
  <2>2. FrameHolds(f)'
    BY <1>1, <2>1, FrameStays DEF JoinsIInv
  <2> QED
    BY <1>4, <2>1, <2>2
<1>6. FramesHold'
  BY <1>1, <1>3, <1>5, StackHolds
<1>7. LeavesHold' /\ AliasesCount'
  BY <1>1, LeavesStay DEF JoinsIInv, AliasesCount
<1>8. outcome' = "compiling" => stack' # << >>
  BY <1>1, <1>2, <1>3, <1>4, EmptySeq
<1>9. JoinsTypeOK'
  BY <1>1, <1>3, <1>4, <1>8 DEF JoinsIInv, JoinsTypeOK
<1> QED
  BY <1>6, <1>7, <1>9 DEF JoinsIInv

LEMMA FollowStep ==
  ASSUME JoinsIInv, Follow
  PROVE  JoinsIInv'
<1>1. /\ outcome = "compiling" /\ Innermost.todo # << >> /\ Item.path # << >>
      /\ UNCHANGED <<formulas, leaves>>
  BY DEF Follow, Working
<1>2. Item \in Walks /\ Sound(Item.place, Innermost.scope)
  BY WalkIs DEF Follow
<1>3. PICK p \in Places, path \in Paths, scope \in Seq(Nat) :
        p = Item.place /\ path = Item.path /\ scope = Innermost.scope /\ Sound(p, scope)
  BY <1>1, <1>2, InnermostIs DEF Walks, Frames
<1>4. path # << >> /\ path[1] \in STRING /\ Tail(path) \in Paths /\ Item.column \in STRING
  <2>1. path # << >>
    BY <1>1, <1>3
  <2>2. Len(path) \in Nat \ {0}
    BY <2>1, EmptySeq DEF Paths
  <2>3. path[1] \in STRING
    BY <2>2, ElementOfSeq DEF Paths
  <2> QED
    BY <1>2, <2>1, <2>3, HeadTailProperties DEF Paths, Walks
<1>5. PICK name \in STRING, onward \in Paths : name = path[1] /\ onward = Tail(path)
  BY <1>4
<1>6. CASE JoinRefused(p.table, name)
  <2>1. outcome' = "refused" /\ selects' = selects /\ stack' = stack
    BY <1>3, <1>5, <1>6 DEF Follow
  <2>2. FramesHold'
    BY <2>1 DEF JoinsIInv, FramesHold, FrameHolds, Nests, Sound, Stands
  <2>3. LeavesHold' /\ AliasesCount'
    BY <1>1, <2>1, LeavesStay DEF JoinsIInv, AliasesCount, Grows
  <2>4. JoinsTypeOK'
    BY <1>1, <2>1 DEF JoinsIInv, JoinsTypeOK
  <2> QED
    BY <2>2, <2>3, <2>4 DEF JoinsIInv
<1>7. CASE ~JoinRefused(p.table, name)
  <2>1. PICK c \in SelectRecords : c = selects[p.ctx]
    BY <1>3, ElementOfSeq, LenProperties DEF JoinsIInv, JoinsTypeOK, Sound, Stands
  <2>2. PICK known : known = Joined(p.ctx, p.alias, name)
    OBVIOUS
  <2>3. PICK added : added = [alias |-> <<p.ctx - 1, Len(c.joins) + 1>>,
                              table |-> Relations[p.table][name].target,
                              source |-> p.alias, name |-> name]
    OBVIOUS
  <2>4. PICK join : join = IF known = {} THEN added ELSE c.joins[CHOOSE k \in known : TRUE]
    OBVIOUS
  <2>5. /\ selects' = IF known # {} THEN selects
                      ELSE [selects EXCEPT ![p.ctx] = Select(c.table, c.outer, Append(c.joins, added))]
        /\ stack' = GoOn(PlaceAt(p.ctx, join.table, join.alias, <<p.row[1], Append(p.row[2], name)>>),
                         onward)
        /\ outcome' = outcome
    BY <1>3, <1>5, <1>7, <2>1, <2>2, <2>3, <2>4 DEF Follow
  <2>6. /\ selects \in Seq(SelectRecords) /\ Len(selects) \in Nat
        /\ DOMAIN selects = 1..Len(selects) /\ p.ctx \in DOMAIN selects
        /\ Stands(p.ctx, p.row, p.alias)
    BY <1>3, LenProperties DEF JoinsIInv, JoinsTypeOK, Sound, Stands
  <2>7. /\ c.joins \in Seq(JoinRecords) /\ Len(c.joins) \in Nat /\ DOMAIN c.joins = 1..Len(c.joins)
    BY LenProperties DEF SelectRecords
  <2>8. /\ p.ctx \in Nat /\ p.table \in Tables /\ p.alias \in Aliases /\ p.row \in Nat \X Paths
    BY DEF Places
  <2>9. added \in JoinRecords /\ added.source = p.alias /\ added.name = name
        /\ added.alias = <<p.ctx - 1, Len(c.joins) + 1>>
    <3>1. Relations[p.table][name].target \in Tables
      BY <1>7, <2>8, QueryJoinsAssumption DEF JoinRefused
    <3>2. <<p.ctx - 1, Len(c.joins) + 1>> \in Aliases
      BY <2>6, <2>7 DEF Aliases
    <3> QED
      BY <2>3, <2>8, <3>1, <3>2 DEF JoinRecords
  <2>10. /\ selects' \in Seq(SelectRecords) /\ Grows /\ AliasesCount'
         /\ \E j \in DOMAIN selects'[p.ctx].joins :
              /\ selects'[p.ctx].joins[j] = join /\ join \in JoinRecords
              /\ join.source = p.alias /\ join.name = name
    <3>1. CASE known # {}
      <4>1. selects' = selects
        BY <2>5, <3>1
      <4>2. PICK j : j = CHOOSE k \in known : TRUE
        OBVIOUS
      <4>3. j \in known
        BY <3>1, <4>2
      <4>4. j \in DOMAIN c.joins /\ c.joins[j].source = p.alias /\ c.joins[j].name = name
        BY <2>1, <2>2, <4>3 DEF Joined
      <4>5. join = c.joins[j]
        BY <2>4, <3>1, <4>2
      <4>6. join \in JoinRecords
        BY <2>7, <4>4, <4>5, ElementOfSeq
      <4> QED
        BY <2>1, <2>6, <4>1, <4>4, <4>5, <4>6 DEF Grows, JoinsIInv, AliasesCount
    <3>2. CASE known = {}
      <4>1. PICK longer : longer = Append(c.joins, added)
        OBVIOUS
      <4>2. /\ longer \in Seq(JoinRecords) /\ DOMAIN longer = 1..(Len(c.joins) + 1)
            /\ \A k \in 1..Len(c.joins) : longer[k] = c.joins[k]
            /\ longer[Len(c.joins) + 1] = added
        <5>1. /\ longer \in Seq(JoinRecords) /\ Len(longer) = Len(c.joins) + 1
              /\ \A k \in 1..Len(c.joins) : longer[k] = c.joins[k]
              /\ longer[Len(c.joins) + 1] = added
          BY <2>7, <2>9, <4>1, AppendProperties
        <5> QED
          BY <5>1, LenProperties
      <4>3. PICK select \in SelectRecords :
              /\ select = Select(c.table, c.outer, longer)
              /\ select.outer = c.outer /\ select.joins = longer
        <5>1. Select(c.table, c.outer, longer) \in SelectRecords
          BY <4>2 DEF Select, SelectRecords
        <5> QED
          BY <5>1 DEF Select
      <4>4. selects' = [selects EXCEPT ![p.ctx] = select]
        BY <2>5, <3>2, <4>1, <4>3
      <4>5. /\ selects' \in Seq(SelectRecords) /\ DOMAIN selects' = DOMAIN selects
            /\ selects'[p.ctx] = select
            /\ \A d \in DOMAIN selects : d # p.ctx => selects'[d] = selects[d]
        BY <2>6, <4>4, ExceptSeq
      <4>6. Grows
        <5> SUFFICES ASSUME NEW d \in DOMAIN selects
            PROVE  /\ d \in DOMAIN selects' /\ selects'[d].outer = selects[d].outer
                   /\ DOMAIN selects[d].joins \subseteq DOMAIN selects'[d].joins
                   /\ \A k \in DOMAIN selects[d].joins : selects'[d].joins[k] = selects[d].joins[k]
          BY DEF Grows
        <5>1. CASE d = p.ctx
          <6>1. selects[d] = c /\ selects'[d] = select
            BY <2>1, <4>5, <5>1
          <6>2. DOMAIN c.joins \subseteq DOMAIN longer /\ \A k \in DOMAIN c.joins : longer[k] = c.joins[k]
            BY <2>7, <4>2
          <6> QED
            BY <4>3, <4>5, <6>1, <6>2
        <5>2. CASE d # p.ctx
          BY <4>5, <5>2
        <5> QED
          BY <5>1, <5>2
      <4>7. AliasesCount'
        <5>1. \A k \in DOMAIN longer : longer[k].alias = <<p.ctx - 1, k>>
          <6> TAKE k \in DOMAIN longer
          <6>1. CASE k \in 1..Len(c.joins)
            BY <2>1, <2>6, <2>7, <4>2, <6>1 DEF JoinsIInv, AliasesCount
          <6>2. CASE k = Len(c.joins) + 1
            BY <2>9, <4>2, <6>2
          <6> QED
            BY <4>2, <6>1, <6>2
        <5> QED
          BY <2>6, <4>3, <4>5, <5>1 DEF JoinsIInv, AliasesCount
      <4>8. join = added
        BY <2>4, <3>2
      <4>9. Len(c.joins) + 1 \in DOMAIN selects'[p.ctx].joins
            /\ selects'[p.ctx].joins[Len(c.joins) + 1] = join
        BY <2>7, <4>2, <4>3, <4>5, <4>8
      <4> QED
        BY <2>9, <4>5, <4>6, <4>7, <4>8, <4>9
    <3> QED
      BY <3>1, <3>2
  <2>11. PICK j \in DOMAIN selects'[p.ctx].joins :
           /\ selects'[p.ctx].joins[j] = join /\ join \in JoinRecords
           /\ join.source = p.alias /\ join.name = name
    BY <2>10
  <2>12. PICK on \in Paths : on = Append(p.row[2], name)
    BY <2>8, AppendProperties DEF Paths
  <2>13. PICK place \in Places :
           /\ place = PlaceAt(p.ctx, join.table, join.alias, <<p.row[1], on>>)
           /\ place.ctx = p.ctx /\ place.alias = join.alias /\ place.row = <<p.row[1], on>>
    <3>1. <<p.row[1], on>> \in Nat \X Paths
      BY <2>8
    <3>2. PICK row \in Nat \X Paths : row = <<p.row[1], on>>
      BY <3>1
    <3>3. PICK table \in Tables, alias \in Aliases : table = join.table /\ alias = join.alias
      BY <2>11 DEF JoinRecords
    <3>4. PlaceAt(p.ctx, table, alias, row) \in Places
      BY <2>8 DEF PlaceAt, Places
    <3> QED
      BY <3>2, <3>3, <3>4 DEF PlaceAt
  <2>14. Sound(place, scope)'
    <3>1. Stands(p.ctx, p.row, p.alias)'
      BY <2>6, <2>8, <2>10, StandsStays
    <3>2. /\ p.ctx \in DOMAIN selects' /\ p.row[1] = p.ctx
          /\ Leads(BaseAlias(p.ctx), selects'[p.ctx].joins, p.row[2], p.alias)
      BY <3>1 DEF Stands
    <3>3. Leads(BaseAlias(p.ctx), selects'[p.ctx].joins, on, join.alias)
      BY <2>8, <2>11, <2>12, <3>2, LeadsOn
    <3>4. Declares(BaseAlias(p.ctx), selects'[p.ctx].joins, join.alias)
      BY <2>11 DEF Declares
    <3>5. Within(p.ctx, scope)
      BY <1>3 DEF Sound
    <3>6. place.row[1] = p.ctx /\ place.row[2] = on
      BY <2>13, <3>2
    <3> QED
      BY <2>13, <3>2, <3>3, <3>4, <3>5, <3>6 DEF Sound, Stands, Within
  <2>15. stack' = GoOn(place, onward)
    BY <2>5, <2>12, <2>13
  <2>16. stack' \in Seq(Frames) /\ stack' # << >> /\ FramesHold'
    BY <1>1, <1>3, <1>4, <2>10, <2>14, <2>15, GoOnHolds
  <2>17. LeavesHold'
    BY <1>1, <2>10, LeavesStay
  <2>18. JoinsTypeOK'
    BY <1>1, <2>5, <2>10, <2>16 DEF JoinsIInv, JoinsTypeOK
  <2> QED
    BY <2>10, <2>16, <2>17, <2>18 DEF JoinsIInv
<1> QED
  BY <1>6, <1>7

-----------------------------------------------------------------------------
LEMMA JoinsInitIInv ==
  ASSUME JoinsInit
  PROVE  JoinsIInv
<1>1. PICK refs \in Expressions :
        stack = <<Frame(BasePlace(1, Base), Null, refs, Null, <<1>>)>>
  BY QueryJoinsAssumption DEF JoinsInit
<1>2. PICK select \in SelectRecords :
        select = Select(Base, Null, << >>) /\ select.outer = Null /\ select.joins = << >>
  <2>1. << >> \in Seq(JoinRecords)
    BY EmptySeq
  <2>2. Select(Base, Null, << >>) \in SelectRecords
    BY <2>1, QueryJoinsAssumption DEF Select, SelectRecords
  <2> QED
    BY <2>2 DEF Select
<1>3. selects \in Seq(SelectRecords) /\ DOMAIN selects = {1} /\ selects[1] = select
  <2>1. selects = <<select>>
    BY <1>2 DEF JoinsInit
  <2> QED
    BY <2>1
<1>4. PICK place \in Places :
        /\ place = BasePlace(1, Base)
        /\ place.ctx = 1 /\ place.alias = BaseAlias(1) /\ place.row = <<1, << >>>>
  <2>1. << >> \in Paths
    BY EmptySeq DEF Paths
  <2>2. PICK row \in Nat \X Paths : row = <<1, << >>>>
    BY <2>1
  <2>3. PICK alias \in Aliases : alias = BaseAlias(1)
    <3>1. 1 - 1 \in Nat
      OBVIOUS
    <3>2. BaseAlias(1) \in Aliases
      BY <3>1 DEF Aliases, BaseAlias
    <3> QED
      BY <3>2
  <2>4. /\ PlaceAt(1, Base, alias, row) \in Places
        /\ PlaceAt(1, Base, alias, row).ctx = 1 /\ PlaceAt(1, Base, alias, row).alias = alias
        /\ PlaceAt(1, Base, alias, row).row = row
    BY QueryJoinsAssumption DEF PlaceAt, Places
  <2> QED
    BY <2>2, <2>3, <2>4 DEF BasePlace
<1>5. PICK scope \in Seq(Nat) : scope = <<1>> /\ DOMAIN scope = {1} /\ scope[1] = 1
  <2>1. <<1>> \in Seq(Nat) /\ DOMAIN <<1>> = {1} /\ <<1>>[1] = 1
    OBVIOUS
  <2> QED
    BY <2>1
<1>6. PICK g : g = Frame(place, Null, refs, Null, scope)
  OBVIOUS
<1>7. /\ g \in Frames /\ g.place = place /\ g.owner = Null /\ g.scope = scope /\ g.todo = refs
  <2>1. refs \in Todos
    BY ExpressionIs
  <2> QED
    BY <1>6, <2>1 DEF Frame, Frames
<1>8. stack \in Seq(Frames) /\ stack # << >> /\ DOMAIN stack = {1} /\ stack[1] = g
  <2>1. stack = <<g>>
    BY <1>1, <1>4, <1>5, <1>6
  <2> QED
    BY <1>7, <2>1
<1>9. Sound(place, scope)
  <2>1. Declares(BaseAlias(1), selects[1].joins, BaseAlias(1))
    BY DEF Declares
  <2>2. Leads(BaseAlias(1), selects[1].joins, << >>, BaseAlias(1))
    BY DEF Leads
  <2>3. 1 \in DOMAIN selects /\ place.row[1] = 1 /\ place.row[2] = << >>
    BY <1>3, <1>4
  <2>4. Within(1, scope)
    BY <1>5 DEF Within
  <2> QED
    BY <1>4, <2>1, <2>2, <2>3, <2>4 DEF Sound, Stands
<1>10. Nests(scope)
  BY <1>3, <1>5 DEF Nests
<1>11. FrameHolds(g)
  <2>1. \A i \in DOMAIN g.todo : g.todo[i].kind # "walk"
    BY <1>7, ExpressionIs
  <2>2. selects[g.place.ctx].outer = Null
    BY <1>2, <1>3, <1>4, <1>7
  <2> QED
    BY <1>7, <1>9, <1>10, <2>1, <2>2 DEF FrameHolds
<1>12. FramesHold
  BY <1>8, <1>11 DEF FramesHold
<1>13. AliasesCount
  BY <1>2, <1>3 DEF AliasesCount
<1>14. JoinsTypeOK /\ LeavesHold
  BY <1>3, <1>8 DEF JoinsInit, JoinsTypeOK, LeavesHold
<1> QED
  BY <1>12, <1>13, <1>14 DEF JoinsIInv

LEMMA JoinsNextIInv ==
  ASSUME JoinsIInv, [JoinsNext]_joinsVars
  PROVE  JoinsIInv'
<1>1. CASE UNCHANGED joinsVars
  BY <1>1 DEF joinsVars, JoinsIInv, JoinsTypeOK, AliasesCount, FramesHold, FrameHolds, LeavesHold,
              LeafHolds, Nests, Sound, Stands
<1> QED
  BY <1>1, ReferStep, ThisStep, FollowStep, ReachStep, EnterStep, NestStep, ReturnStep DEF JoinsNext

(* A select declares the aliases of its own number, each once. *)
LEMMA AliasesAreNumbered ==
  ASSUME JoinsIInv, NEW c \in DOMAIN selects
  PROVE  /\ c \in Nat /\ Unambiguous(BaseAlias(c), selects[c].joins)
         /\ \A alias : Declares(BaseAlias(c), selects[c].joins, alias) => alias[1] = c - 1
<1>1. c \in Nat /\ selects[c] \in SelectRecords
  BY ElementOfSeq, LenProperties DEF JoinsIInv, JoinsTypeOK
<1>2. PICK joins \in Seq(JoinRecords) : joins = selects[c].joins
  BY <1>1 DEF SelectRecords
<1>3. \A k \in DOMAIN joins : k \in Nat \ {0} /\ joins[k].alias = <<c - 1, k>>
  BY <1>2, LenProperties DEF JoinsIInv, AliasesCount
<1>4. \A k \in DOMAIN joins : joins[k].alias # BaseAlias(c)
  BY <1>3 DEF BaseAlias
<1>5. \A k, j \in DOMAIN joins : joins[j].alias = joins[k].alias => j = k
  BY <1>3
<1> QED
  BY <1>1, <1>2, <1>3, <1>4, <1>5 DEF Unambiguous, Declares, BaseAlias

LEMMA LeavesAreFound ==
  ASSUME JoinsIInv
  PROVE  LeavesReachTheirRow
<1> SUFFICES ASSUME NEW leaf \in leaves
             PROVE  Finds(leaf)
  BY DEF LeavesReachTheirRow
<1>1. leaf \in Leaves /\ LeafHolds(leaf)
  BY DEF JoinsIInv, JoinsTypeOK, LeavesHold
<1>2. PICK c : c = leaf.row[1]
  OBVIOUS
<1>3. PICK k \in DOMAIN leaf.scope : leaf.scope[k] = c
  BY <1>1, <1>2 DEF LeafHolds, Within
<1>4. /\ c \in DOMAIN selects
      /\ Declares(BaseAlias(c), selects[c].joins, leaf.alias)
      /\ Leads(BaseAlias(c), selects[c].joins, leaf.row[2], leaf.alias)
  BY <1>1, <1>2 DEF LeafHolds, Stands
<1>5. c \in Nat /\ Unambiguous(BaseAlias(c), selects[c].joins) /\ leaf.alias[1] = c - 1
  BY <1>4, AliasesAreNumbered
<1>6. ASSUME NEW j \in DOMAIN leaf.scope, j > k,
             Declares(BaseAlias(leaf.scope[j]), selects[leaf.scope[j]].joins, leaf.alias)
      PROVE  FALSE
  <2>1. PICK d \in DOMAIN selects : d = leaf.scope[j] /\ c < d
    <3>1. j \in Nat /\ k \in Nat
      BY <1>1, LenProperties DEF Leaves
    <3> QED
      BY <1>1, <1>3, <1>6, <3>1 DEF LeafHolds, Nests
  <2>2. d \in Nat /\ leaf.alias[1] = d - 1
    BY <1>6, <2>1, AliasesAreNumbered
  <2> QED
    BY <1>5, <2>1, <2>2
<1> QED
  BY <1>2, <1>3, <1>4, <1>5, <1>6 DEF Finds

-----------------------------------------------------------------------------
(* The inductive invariant of the compiler's name resolution: every place  *)
(* an expression under way is about, its own, its owner's or an outer row, *)
(* stays declared in a select of its scope and led to by joins.            *)
THEOREM JoinsInvariance == JoinsSpec => []JoinsIInv
<1>1. JoinsInit => JoinsIInv
  BY JoinsInitIInv
<1>2. JoinsIInv /\ [JoinsNext]_joinsVars => JoinsIInv'
  BY JoinsNextIInv
<1> QED
  BY <1>1, <1>2, PTL DEF JoinsSpec

(* Every column reference of a finished statement names, where it is       *)
(* written, the row its path leads to, whatever the model, the request and *)
(* the depth the compiler may go to.  (related, field, subquery)           *)
THEOREM LeavesReach == JoinsSpec => []LeavesReachTheirRow
<1>1. JoinsIInv => LeavesReachTheirRow
  BY LeavesAreFound
<1> QED
  BY <1>1, JoinsInvariance, PTL
=============================================================================
