------------------------------ MODULE Emitter ------------------------------
(***************************************************************************)
(* The Python recipe of a model (emitter.py, SqlPythonEmitter): the source *)
(* tree written as the calls that build it, in the order of the tree.      *)
(*                                                                         *)
(* The tree is a sequence of nodes, each with its parent's place; the body *)
(* a sequence of statements.  Names are sequences of words joined by       *)
(* underscores; Sanitized is what _identifier makes of one before it looks *)
(* for a free form (characters replaced, keywords and digits escaped).     *)
(* Arguments are carried along; line width and quoting are left out.       *)
(***************************************************************************)
EXTENDS Naturals, Sequences, SequencesExt, TLC

CONSTANTS Names,     \* SQL names
          Sanitized, \* the identifier each name is turned into
          Reserved,  \* names main() has already: self, root, db
          Bases,     \* trees the author starts from
          MaxNodes   \* bound: nodes of the tree

EmitterAssumption ==
  /\ DOMAIN Sanitized = Names
  /\ MaxNodes \in Nat
  /\ \A b \in Bases : Len(b) >= 1 /\ b[1] = [tag |-> "db", name |-> << >>, parent |-> 0]

VARIABLES tree,    \* the source tree, in the order its nodes were added
          emitted, \* places of the nodes written so far
          taken,   \* identifiers of the body
          body     \* statements: what is called on which variable

vars == <<tree, emitted, taken, body>>

(* The grammar: what an element may hold. *)
SubTags ==
  [db |-> {"schemas", "extensions"}, schemas |-> {"schema"}, extensions |-> {"extension"},
   schema |-> {"tables"}, tables |-> {"table"},
   table |-> {"columns", "virtual_columns", "composites", "constraints", "indexes"},
   columns |-> {"column"}, composites |-> {"compositeColumn"},
   virtual_columns |-> {"aliasColumn", "formulaColumn"}, constraints |-> {"constraint"},
   indexes |-> {"index"}, column |-> {"relation"}, compositeColumn |-> {"relation"},
   extension |-> {}, aliasColumn |-> {}, formulaColumn |-> {}, constraint |-> {},
   index |-> {}, relation |-> {}]
NamedTags == {"schema", "table", "column", "aliasColumn", "formulaColumn", "compositeColumn",
              "extension", "constraint", "index"}
Collections == {"schemas", "extensions", "tables", "columns", "virtual_columns", "composites",
                "constraints", "indexes"}

ChildrenOf(place) == {k \in DOMAIN tree : tree[k].parent = place}

(* A collection is once under its parent, a name once in its collection.   *)
Grow(parent, tag, name) ==
  /\ emitted = << >>
  /\ tag \in SubTags[tree[parent].tag]
  /\ tag # "relation" =>
       \A k \in ChildrenOf(parent) : tree[k].tag = tag => name # tree[k].name
  /\ tree' = Append(tree, [tag |-> tag, name |-> name, parent |-> parent])
  /\ UNCHANGED <<emitted, taken, body>>

-----------------------------------------------------------------------------
(* Mutant: the reserved names are avoided, the names given out are not. *)
IdentifierTwice(candidate, used) ==
  IF candidate \notin Reserved THEN candidate ELSE Append(candidate, "2")

(* _identifier: the first free form, counted from two.                     *)
Counted(candidate, k) == IF k = 1 THEN candidate ELSE Append(candidate, ToString(k))
Identifier(candidate, used) ==
  Counted(candidate, CHOOSE k \in 1..(MaxNodes + 4) :
                       /\ Counted(candidate, k) \notin used
                       /\ \A j \in 1..(k - 1) : Counted(candidate, j) \in used)

(* The node the traversal comes to: the first child not written of the     *)
(* node it wrote last, or of the closest node above that has one.          *)
Written == {emitted[k] : k \in DOMAIN emitted}
Left(place) == ChildrenOf(place) \ Written
First(places) == CHOOSE k \in places : \A j \in places : k <= j

NextNode(last) ==
  LET From[place \in 0..Len(tree)] ==
        IF place = 0 THEN 0
        ELSE IF Left(place) # {} THEN First(Left(place)) ELSE From[tree[place].parent]
  IN  From[last]
Writing == IF emitted = << >> THEN 0 ELSE NextNode(Last(emitted))

(* What reads a node back has a variable: db, schemas, tables, collections *)
(* and the columns that own a relation.                                    *)
Target(place) ==
  IF place = 1 THEN <<"root">>
  ELSE body[CHOOSE k \in DOMAIN emitted : emitted[k] = tree[place].parent].variable
Candidate(node) == IF node.tag \in Collections THEN <<node.tag>> ELSE Sanitized[node.name]
ReadBack(place) ==
  tree[place].tag \in Collections \cup {"schema", "table"} \/ ChildrenOf(place) # {}

EmitDb ==
  /\ emitted = << >>
  /\ emitted' = <<1>>
  /\ body' = <<[variable |-> <<"db">>, target |-> <<"root">>, call |-> tree[1]]>>
  /\ UNCHANGED <<tree, taken>>

EmitAssigned(place) ==
  /\ place = Writing /\ ReadBack(place)
  /\ LET variable == Identifier(Candidate(tree[place]), taken) IN
       /\ taken' = taken \cup {variable}
       /\ body' = Append(body, [variable |-> variable, target |-> Target(place),
                                call |-> tree[place]])
  /\ emitted' = Append(emitted, place)
  /\ UNCHANGED tree

EmitCall(place) ==
  /\ place = Writing /\ ~ReadBack(place)
  /\ body' = Append(body, [variable |-> << >>, target |-> Target(place), call |-> tree[place]])
  /\ emitted' = Append(emitted, place)
  /\ UNCHANGED <<tree, taken>>

Init ==
  /\ tree \in Bases
  /\ emitted = << >> /\ taken = Reserved /\ body = << >>

Next ==
  \/ \E parent \in DOMAIN tree : \E tag \in SubTags[tree[parent].tag] :
       \E name \in IF tag \in NamedTags THEN Names ELSE {<< >>} :
         Len(tree) < MaxNodes /\ Grow(parent, tag, name)
  \/ EmitDb
  \/ \E place \in DOMAIN tree : EmitAssigned(place) \/ EmitCall(place)

Spec == Init /\ [][Next]_vars

-----------------------------------------------------------------------------
(* Python runs the body: each statement makes a node under the one that    *)
(* its target variable holds by then, the last that was assigned to it.    *)
Holds(k) ==
  IF body[k].target = <<"root">> THEN 0
  ELSE LET assigned == {j \in 1..(k - 1) : body[j].variable = body[k].target} IN
         IF assigned = {} THEN Len(body) + 1
         ELSE CHOOSE j \in assigned : \A i \in assigned : i <= j

(* The emitted body is the model: every call is made on the copy of the    *)
(* node's parent, whatever tables and columns are called, and the calls of *)
(* one parent come in the order of the tree; when the traversal ends, all  *)
(* nodes are written.  (_emit_*, _identifier)                              *)
RebuildsTheTree ==
  /\ (emitted # << >> /\ Writing = 0) => Written = DOMAIN tree
  /\ \A k \in DOMAIN body :
      /\ body[k].call = tree[emitted[k]]
      /\ LET made == Holds(k) IN
           IF made = 0 THEN tree[emitted[k]].parent = 0
           ELSE /\ made \in DOMAIN emitted
                /\ emitted[made] = tree[emitted[k]].parent
      /\ \A j \in 1..(k - 1) :
           tree[emitted[j]].parent = tree[emitted[k]].parent => emitted[j] < emitted[k]
=============================================================================
