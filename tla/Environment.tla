---------------------------- MODULE Environment ----------------------------
(***************************************************************************)
(* The application environment (environment.py, ApplicationEnvironment;    *)
(* runtime.py, the Database properties over it): a live mapping per thread *)
(* that temporary scopes overlay and put back, while the code inside may   *)
(* assign, delete, clear or replace what it holds.                         *)
(*                                                                         *)
(* A mapping is a function from the keys it has.  The first mapping of a   *)
(* thread is a copy of the defaults, made when it is first asked for.      *)
(***************************************************************************)
EXTENDS Naturals, Sequences, SequencesExt

CONSTANTS Threads, Keys, Values,
          None,      \* Python's None, a value like the others
          Defaults,  \* the values every thread starts from
          Mappings,  \* what scopes overlay and callers assign
          MaxDepth   \* bound: scopes open at once in a thread

Dictionaries == UNION {[names -> Values] : names \in SUBSET Keys}

ASSUME EnvironmentAssumption ==
  /\ None \in Values /\ None \notin Dictionaries
  /\ Mappings \subseteq Dictionaries /\ Defaults \in Dictionaries
  /\ MaxDepth \in Nat

VARIABLES values, \* per thread: the live mapping, None before its first use
          scopes, \* per thread: what its open scopes put aside, innermost last
          frames  \* observer: how a scope found the mapping, keys assigned since

environmentVars == <<values, scopes, frames>>

Without(m, keys) == [k \in DOMAIN m \ keys |-> m[k]]
Overlay(m, over) ==
  [k \in DOMAIN over \cup DOMAIN m |-> IF k \in DOMAIN over THEN over[k] ELSE m[k]]

(* currentEnv *)
Current(t) == IF values[t] = None THEN Defaults ELSE values[t]

(* Direct changes are seen by every open scope of the thread. *)
Marked(open, keys) == [k \in DOMAIN open |-> [open[k] EXCEPT !.touched = @ \cup keys]]
Touch(t, keys) == frames' = [frames EXCEPT ![t] = Marked(frames[t], keys)]

EnvironmentInit ==
  /\ values = [t \in Threads |-> None]
  /\ scopes = [t \in Threads |-> << >>]
  /\ frames = [t \in Threads |-> << >>]

-----------------------------------------------------------------------------
(* Mutant: a key the scope does not change is not saved. *)
SavedDiffering(current, over) ==
  [k \in {n \in DOMAIN over \cap DOMAIN current : over[n] # current[n]} |-> current[k]]

(* Mutant: the whole mapping is put back. *)
SavedWhole(current, over) == current

(* temp_env: what the keys held is saved, what they did not hold is noted. *)
Saved(current, over) == [k \in DOMAIN over \cap DOMAIN current |-> current[k]]
Added(current, over) == Without(over, DOMAIN current)

Enter(t, over) ==
  /\ Len(scopes[t]) < MaxDepth
  /\ scopes' = [scopes EXCEPT ![t] = Append(@, [saved |-> Saved(Current(t), over),
                                                added |-> Added(Current(t), over)])]
  /\ values' = [values EXCEPT ![t] = Overlay(Current(t), over)]
  /\ frames' = [frames EXCEPT ![t] = Append(@, [entry |-> Current(t), over |-> DOMAIN over,
                                                touched |-> {}])]

(* What was added goes if it is still what was added; what was saved is    *)
(* put back into the mapping of that moment.                               *)
StillAdded(current, scope) ==
  {k \in DOMAIN scope.added : IF k \in DOMAIN current THEN current[k] = scope.added[k]
                              ELSE scope.added[k] = None}
Restored(current, scope) == Overlay(Without(current, StillAdded(current, scope)), scope.saved)

(* The scope ends, by return or by an exception. *)
Leave(t) ==
  /\ scopes[t] # << >>
  /\ values' = [values EXCEPT ![t] = Restored(Current(t), Last(scopes[t]))]
  /\ scopes' = [scopes EXCEPT ![t] = Front(@)]
  /\ frames' = [frames EXCEPT ![t] = Front(@)]

(* updateEnv *)
Update(t, changes, excludeNone) ==
  LET kept == Without(changes, {k \in DOMAIN changes : excludeNone /\ changes[k] = None}) IN
  /\ values' = [values EXCEPT ![t] = Overlay(Current(t), kept)]
  /\ Touch(t, DOMAIN kept)
  /\ UNCHANGED scopes

(* A caller deletes a key of the live mapping. *)
Delete(t, key) ==
  /\ key \in DOMAIN Current(t)
  /\ values' = [values EXCEPT ![t] = Without(Current(t), {key})]
  /\ Touch(t, {key})
  /\ UNCHANGED scopes

(* The currentEnv setter; clearCurrentEnv sets an empty mapping.           *)
Replace(t, mapping) ==
  /\ values' = [values EXCEPT ![t] = mapping]
  /\ Touch(t, Keys)
  /\ UNCHANGED scopes

EnvironmentNext == \E t \in Threads :
  \/ \E over \in Mappings : Enter(t, over)
  \/ Leave(t)
  \/ \E changes \in Mappings, excludeNone \in BOOLEAN : Update(t, changes, excludeNone)
  \/ \E key \in Keys : Delete(t, key)
  \/ \E mapping \in Mappings \cup {<< >>} : Replace(t, mapping)

EnvironmentSpec == EnvironmentInit /\ [][EnvironmentNext]_environmentVars

-----------------------------------------------------------------------------
Same(m, n, k) == IF k \in DOMAIN m THEN k \in DOMAIN n /\ m[k] = n[k] ELSE k \notin DOMAIN n
Leaves(t) == Len(scopes'[t]) < Len(scopes[t])

(* A key nobody assigned while a scope was open is after it what it was    *)
(* before, however many scopes were opened over it inside; and one that    *)
(* the scope overrode is put back even if the code inside assigned it.     *)
PutBack(t) ==
  LET frame == Last(frames[t]) IN
    \A k \in Keys :
      (k \notin frame.touched \/ (k \in frame.over /\ k \in DOMAIN frame.entry)) =>
        Same(values'[t], frame.entry, k)

(* Every key the scope does not override is after it what the code inside  *)
(* has left in it, whether it was there at entry or not; and so is a key   *)
(* the scope introduced, unless it still has the value it came with.       *)
AssignedStays(t) ==
  LET frame == Last(frames[t])
      added == Last(scopes[t]).added
      left == Current(t)
  IN  \A k \in Keys :
        (\/ k \notin frame.over
         \/ k \notin DOMAIN frame.entry /\ ~(k \in DOMAIN left /\ left[k] = added[k])) =>
          Same(values'[t], left, k)

(* Leaving a scope puts back what the scope changed and keeps what the     *)
(* code inside assigned.                                                   *)
(* (temp_env; docs/guide/environment.md, "Application scopes")             *)
LeavingRestores ==
  [][\A t \in Threads : Leaves(t) => PutBack(t) /\ AssignedStays(t)]_environmentVars
=============================================================================
