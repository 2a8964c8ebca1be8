--------------------------- MODULE ParameterNames ---------------------------
(***************************************************************************)
(* Names of bound parameters, as the compiler and the preparation of       *)
(* direct SQL make them up (query_plan.py).                                *)
(*                                                                         *)
(* A name is the sequence of the pieces its text is put together from:     *)
(* <<"ids">> is ids, <<"ids">> \o Number(0) is ids_0, <<"_", "ids">> is    *)
(* _ids, <<"s">> \o Number(1) \o <<"ids">> is s1_ids and <<"env", "k">> is *)
(* env_k.  A caller may use any of them, so a name that is made up may     *)
(* already be taken.                                                       *)
(***************************************************************************)
EXTENDS Integers, Sequences, FiniteSets

CONSTANTS Words,        \* the pieces of names
          Names,        \* names that occur in the text
          CallerNames,  \* those the caller may supply
          Collections,  \* those whose value is a collection
          Size          \* number of members of each, zero included

Texts == Seq(Words)
Underscore == "_"

ASSUME NamesAssumption ==
  /\ {Underscore, "#", "+", "s", "env", "value", "policy"} \subseteq Words
  /\ Names \subseteq Texts \ {<< >>} /\ IsFiniteSet(CallerNames)
  /\ CallerNames \subseteq Names /\ Collections \subseteq Names
  /\ Size \in [Collections -> Nat]

(* A number in a name, written in strokes. *)
Number(i) == <<"#">> \o [j \in 1..i |-> "+"]

IsEnvironmentName(n) == n[1] = "env"

NoNames == [n \in {} |-> n]
Put(f, n, v) == [m \in DOMAIN f \cup {n} |-> IF m = n THEN v ELSE f[m]]
Over(f, g) == [m \in DOMAIN f \cup DOMAIN g |-> IF m \in DOMAIN f THEN f[m] ELSE g[m]]

(* The value of parameter n, or of member i of a collection, by where it   *)
(* comes from: two places of a query that mean different values differ.    *)
Whole(origin, n) == [origin |-> origin, name |-> n, member |-> 0]
Member(v, i) == [v EXCEPT !.member = i]

(* Mutant: the first numbers, whether or not the names are taken. *)
MemberNamesUnchecked(base, names, size) == [i \in 1..size |-> base \o Number(i - 1)]

(* while base_index is taken: index += 1, for each of the members: they    *)
(* get the first numbers that are free, in order.                          *)
MemberNames(base, names, size) ==
  LET free == {j \in 0..(Cardinality(names) + size) : base \o Number(j) \notin names}
  IN [i \in 1..size |->
        base \o Number(CHOOSE j \in free : Cardinality({k \in free : k < j}) = i - 1)]

(* One parameter for each member of a collection. *)
MembersOf(value, bases, size) ==
  [b \in {bases[i] : i \in 1..size} |-> Member(value, CHOOSE i \in 1..size : bases[i] = b)]

(* while name is taken: name = '_' + name *)
Padded(k, n) == [i \in 1..k |-> Underscore] \o n
Underscored(n, names) ==
  LET free == {k \in 0..Cardinality(names) : Padded(k, n) \notin names}
  IN Padded(CHOOSE k \in free : \A j \in free : k <= j, n)

(* uses.setdefault(name, collection) is collection *)
UseFits(uses, key, collection) == key \in DOMAIN uses => uses[key] = collection
Used(uses, key, collection) == Over(uses, [k \in {key} |-> collection])
=============================================================================
