------------------------------ MODULE DirectSql ------------------------------
(***************************************************************************)
(* Preparation of SQL that is given as text (drivers/sql.py, prepare_text):*)
(* one scan replaces the parameters, without the contexts of the compiler. *)
(* A step is one parameter of the text.  Variables that prepare_text calls *)
(* as the compiler calls its own have text_ before their names here.       *)
(***************************************************************************)
EXTENDS ParameterNames

CONSTANT MaxTextPlaces  \* bound: places that bind

ASSUME DirectAssumption == MaxTextPlaces \in Nat

VARIABLES text_params, text_names, text_uses,
          keys,        \* env_ names read from the environment
          text_snapshot, text_status,
          given,       \* history: what the caller supplied
          text_placed  \* history: the places so far and what each binds

directVars == <<text_params, text_names, text_uses, keys, text_snapshot, text_status, given, text_placed>>

DirectInit ==
  /\ given \in SUBSET CallerNames
  /\ text_snapshot \in SUBSET {n \in Names : IsEnvironmentName(n)}
  /\ text_params = [n \in given |-> Whole(<<"caller">>, n)] /\ text_names = given
  /\ text_uses = NoNames /\ keys = {} /\ text_status = "scanning" /\ text_placed = {}

Scanning == text_status = "scanning" /\ Cardinality(text_placed) < MaxTextPlaces

(* A name that is not among the parameters is read from the environment.   *)
Read(n) ==
  IF n \notin DOMAIN text_params /\ IsEnvironmentName(n) /\ n \in text_snapshot THEN {n} ELSE {}
Known(n) == n \in DOMAIN text_params \cup Read(n)
WithRead(n) == Over([m \in Read(n) |-> Whole(<<"env">>, m)], text_params)

(* Mutant: the environment is read and nobody is told. *)
RecordedNot(n) == keys

Recorded(n) == keys \cup Read(n)

IsCollection(v) == v.member = 0 /\ v.name \in Collections
TextPlace(n, b, v) == [text |-> n, bound |-> b, value |-> v]

ReadScalar(n) ==
  /\ Scanning /\ Known(n) /\ UseFits(text_uses, n, FALSE)
  /\ keys' = Recorded(n) /\ text_names' = text_names \cup Read(n)
  /\ text_params' = WithRead(n)
  /\ text_uses' = Used(text_uses, n, FALSE)
  /\ text_placed' = text_placed \cup {TextPlace(n, n, WithRead(n)[n])}
  /\ UNCHANGED <<text_snapshot, text_status, given>>

ReadCollection(n) ==
  LET taken == text_names \cup Read(n)
      value == WithRead(n)[n]
      size  == Size[value.name]
      bases == MemberNames(n, taken, size)
      members == MembersOf(value, bases, size)
  IN
  /\ Scanning /\ Known(n) /\ IsCollection(value) /\ UseFits(text_uses, n, TRUE)
  /\ keys' = Recorded(n)
  /\ text_names' = taken \cup DOMAIN members
  /\ text_params' = Over(members, WithRead(n))
  /\ text_uses' = Used(text_uses, n, TRUE)
  /\ text_placed' = text_placed \cup {TextPlace(n, bases[i], Member(value, i)) : i \in 1..size}
  /\ UNCHANGED <<text_snapshot, text_status, given>>

(* A parameter nobody supplies, one used in the other position before, or  *)
(* one that is not a collection after IN.                                  *)
RefuseText(n) ==
  /\ Scanning
  /\ Known(n) => (n \in DOMAIN text_uses \/ ~IsCollection(WithRead(n)[n]))
  /\ text_status' = "refused"
  /\ UNCHANGED <<text_params, text_names, text_uses, keys, text_snapshot, given, text_placed>>

(* Collections are taken out of the parameters, and the driver refuses a   *)
(* place whose parameter is not there any more.                            *)
Prepare ==
  LET left == DOMAIN text_params \ {n \in DOMAIN text_uses : text_uses[n]}
      bound == {p.bound : p \in text_placed}
  IN
  /\ text_status = "scanning"
  /\ text_status' = IF bound \subseteq left THEN "prepared" ELSE "refused"
  /\ text_params' = [b \in bound \cap left |-> text_params[b]]
  /\ UNCHANGED <<text_names, text_uses, keys, text_snapshot, given, text_placed>>

DirectNext == Prepare \/ \E n \in Names : ReadScalar(n) \/ ReadCollection(n) \/ RefuseText(n)

DirectSpec == DirectInit /\ [][DirectNext]_directVars

-----------------------------------------------------------------------------
(* What a name of the text stands for: what the caller supplies or, where  *)
(* the caller does not, the environment.                                   *)
Supplied(n) == n \in given \cup text_snapshot
Meant(n) == Whole(IF n \in given THEN <<"caller">> ELSE <<"env">>, n)

(* Names made up for members: a place of the text that comes after and has *)
(* such a name reads the member.                                           *)
MadeUp == {p.bound : p \in {q \in text_placed : q.text # q.bound}}

(* A prepared statement binds at every place the value the place had when  *)
(* it was read, as no later expansion takes a name that is in use; unless  *)
(* its name is one made up before, that is the caller's own value, or the  *)
(* environment's where the caller has none; and a value of the environment *)
(* is bound only if its key is recorded, so that a later execution in      *)
(* another environment is refused.  (sql.py:23-68)                         *)
PreparedAsRead ==
  \A p \in text_placed :
    /\ text_status = "prepared" => p.bound \in DOMAIN text_params /\ text_params[p.bound] = p.value
    /\ p.text \notin MadeUp => Supplied(p.text) /\ Member(p.value, 0) = Meant(p.text)
    /\ p.value.origin = <<"env">> => p.value.name \in keys \cap text_snapshot

(* docs/guide/queries.md:144 promises for SQL given as text the rules and  *)
(* the errors of a query: a parameter nobody supplies is missing, and one  *)
(* that is supplied has that value.                                        *)
TextFollowsTheRules ==
  text_status = "prepared" =>
    \A p \in text_placed : Supplied(p.text) /\ Member(p.value, 0) = Meant(p.text)
=============================================================================
