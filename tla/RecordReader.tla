---------------------------- MODULE RecordReader ----------------------------
(***************************************************************************)
(* The record reader of an application table (application_table.py,        *)
(* SqlTable.query and record, SqlQuery, SqlRecord): one row, loaded when   *)
(* it is first asked for and kept until it is refreshed, while the         *)
(* environment and the rows change around it.                              *)
(*                                                                         *)
(* Rows are of a table whose primary key has two columns and belong to a   *)
(* scope the environment selects; deleted rows are shown on demand.  A     *)
(* primary key is the sequence of its values, a mapping that misses some   *)
(* columns a shorter one.  A where is TRUE or uses the parameter wanted.   *)
(***************************************************************************)
EXTENDS Naturals, Sequences, FiniteSets

CONSTANTS Contents, \* what the table may hold at a time
          Scopes,
          PrimaryKeys, Wheres, Keywords, \* arguments of record()
          Null

VARIABLES rows,   \* the table, as this thread's connection sees it
          env,    \* the scope selected
          reader, \* the record, or Null
          shared, \* the caller's dictionary is the cached one
          fresh,  \* observer: rows that matched alone since the last refresh
          shown   \* observer: rows given out since the last refresh

recordVars == <<rows, env, reader, shared, fresh, shown>>

Aliased == [excludeLogicalDeleted |-> "exclude_logical_deleted"]
Native(k) == IF k \in DOMAIN Aliased THEN Aliased[k] ELSE k
SelectOptions == {"exclude_logical_deleted", "limit"}
Unsupported == {"lazy"}

-----------------------------------------------------------------------------
(* _key_selector: the key is complete and has no NULL. *)
KeyRefused(pkey) == Len(pkey) # 2 \/ \E k \in DOMAIN pkey : pkey[k] = Null

(* record and query: arguments that are refused. *)
Refused(pkey, where, keywords) ==
  \/ "limit" \in keywords
  \/ where = Null /\ (pkey = Null \/ KeyRefused(pkey))
  \/ \E k \in DOMAIN Aliased : {k, Aliased[k]} \subseteq keywords
  \/ keywords \cap Unsupported # {}

(* An explicit where wins over a key.  What is no option is a binding.     *)
Reader(pkey, where, keywords) ==
  [key |-> IF where = Null THEN pkey ELSE << >>, where |-> where, given |-> keywords,
   options |-> {Native(k) : k \in keywords} \cap SelectOptions,
   bindings |-> {k \in keywords : Native(k) \notin SelectOptions}, result |-> Null]
Loaded(r, row) == [r EXCEPT !.result = row]

Rows == UNION Contents
Readers ==
  {Loaded(Reader(p, w, k), row) :
     p \in PrimaryKeys, w \in Wheres, k \in SUBSET Keywords, row \in Rows \cup {Null}}

(* A row has both columns of its key; None is neither a row nor a record.  *)
ASSUME RecordAssumption ==
  /\ \A row \in Rows : row.key = [k \in 1..2 |-> row.key[k]]
  /\ \A p \in PrimaryKeys \ {Null} : p = [k \in 1..Len(p) |-> p[k]]
  /\ Null \notin Rows \cup Readers

Used(r) == IF r.where = "wanted" THEN {"wanted"} ELSE {}

(* _compile: every parameter is bound, every keyword used.                 *)
Compiles(r) == Used(r) = r.bindings

Matching(r, held, scope) ==
  {row \in held :
     /\ row.scope = scope
     /\ row.deleted => "exclude_logical_deleted" \in r.options
     /\ \A k \in DOMAIN r.key : k \in DOMAIN row.key => row.key[k] = r.key[k]
     /\ r.where = "wanted" => row.data = 1}

(* fetch and the test for exactly one. *)
Alone(r, held, scope) ==
  IF Compiles(r) /\ Cardinality(Matching(r, held, scope)) = 1 THEN Matching(r, held, scope) ELSE {}

-----------------------------------------------------------------------------
RecordInit ==
  /\ rows \in Contents /\ env \in Scopes
  /\ reader = Null /\ shared = FALSE /\ fresh = {} /\ shown = {}

Record(pkey, where, keywords) ==
  /\ reader = Null /\ ~Refused(pkey, where, keywords)
  /\ reader' = Reader(pkey, where, keywords)
  /\ fresh' = Alone(reader', rows, env)
  /\ UNCHANGED <<rows, env, shared, shown>>

(* Mutant: the cached dictionary itself is given out. *)
CopiesNot == FALSE

(* output: a copy of the cached row. *)
Copies == TRUE

Give(row) ==
  /\ reader' = Loaded(reader, row)
  /\ shown' = shown \cup {row}
  /\ shared' = ~Copies

(* output: loads what is not there, and gives a copy of it.  A statement   *)
(* that fails, no row and several rows are errors, and nothing is kept.    *)
Output ==
  /\ reader # Null
  /\ IF reader.result # Null THEN Give(reader.result)
     ELSE \E row \in Alone(reader, rows, env) : Give(row)
  /\ UNCHANGED <<rows, env, fresh>>

(* refresh: the snapshot goes first; the reload may fail.                  *)
Refresh ==
  /\ reader # Null
  /\ \E row \in Alone(reader, rows, env) \cup {Null} :
       reader' = Loaded(reader, row)
  /\ fresh' = Alone(reader, rows, env) /\ shown' = {} /\ shared' = FALSE
  /\ UNCHANGED <<rows, env>>

Drop ==
  /\ reader # Null
  /\ reader' = Null /\ shared' = FALSE /\ fresh' = {} /\ shown' = {}
  /\ UNCHANGED <<rows, env>>

(* The caller writes into the dictionary it was given.                     *)
Scribble ==
  /\ shown # {}
  /\ IF shared THEN reader' = [reader EXCEPT !.result.data = 1 - @] ELSE UNCHANGED reader
  /\ UNCHANGED <<rows, env, shared, fresh, shown>>

(* Writes, commits of others, rollbacks and scopes of the environment.     *)
Meanwhile ==
  /\ \/ rows' \in Contents /\ UNCHANGED env
     \/ env' \in Scopes /\ UNCHANGED rows
  /\ fresh' = IF reader = Null THEN {} ELSE fresh \cup Alone(reader, rows', env')
  /\ UNCHANGED <<reader, shared, shown>>

RecordNext ==
  \/ \E p \in PrimaryKeys, w \in Wheres, k \in SUBSET Keywords : Record(p, w, k)
  \/ Output \/ Refresh \/ Drop \/ Scribble \/ Meanwhile

RecordSpec == RecordInit /\ [][RecordNext]_recordVars

-----------------------------------------------------------------------------
(* Until it is refreshed a reader gives one row only, whatever callers do  *)
(* with what they got and whatever happens to the row.  (output)           *)
OutputsAgree == Cardinality(shown) <= 1

(* What a reader gives was the one visible match at some time since it was *)
(* made or refresh was last called, even if that refresh failed: never the *)
(* row of before.  (refresh)                                               *)
RowsAreSinceRefresh == shown \subseteq fresh

(* The row given for a primary key has that key, the whole of it.          *)
(* (_key_selector)                                                         *)
AnswersTheKey ==
  (reader # Null /\ reader.where = Null) => \A row \in shown : row.key = reader.key

(* A row is given only if every keyword of the call took effect: as an     *)
(* option, under either name, or as a parameter the selector uses.         *)
(* (query, _compile)                                                       *)
NoKeywordIsLost ==
  shown # {} => \A k \in reader.given : Native(k) \in reader.options \/ k \in Used(reader)

(* What a reader gives is what was asked for, whoever has changed what     *)
(* since.  (record, SqlRecord)                                             *)
GivesWhatWasAsked ==
  OutputsAgree /\ RowsAreSinceRefresh /\ AnswersTheKey /\ NoKeywordIsLost
=============================================================================
