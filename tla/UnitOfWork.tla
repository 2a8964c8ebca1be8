----------------------------- MODULE UnitOfWork -----------------------------
(***************************************************************************)
(* What a caller of asqueel's Database may rely on, without its mechanism: *)
(* every connection name carries at most one unit of work, units of        *)
(* different names are independent, a unit becomes durable as a whole and  *)
(* only from the "open" phase, and a connection that is "blocked" (the     *)
(* runtime calls it rollback-only) must be released before anything else   *)
(* can happen on it.  Connections.tla is shown to implement this module.   *)
(***************************************************************************)
EXTENDS Naturals

CONSTANT Names                 \* connection names of one thread

VARIABLES
  phase,      \* per name: "idle", "open" (uncommitted SQL) or "blocked"
  unit,       \* per name: number of its latest unit, 0 before the first
  begun,      \* number of units begun so far, over all names
  durable     \* numbers of the units the database has accepted

abstractVars == <<phase, unit, begun, durable>>

Phases == {"idle", "open", "blocked"}

Init ==
  /\ phase = [n \in Names |-> "idle"]
  /\ unit = [n \in Names |-> 0]
  /\ begun = 0
  /\ durable = {}

TypeOK ==
  /\ phase \in [Names -> Phases]
  /\ unit \in [Names -> Nat]
  /\ begun \in Nat
  /\ durable \subseteq 1..begun

\* The first statement on an idle connection opens a unit of its own.
Begin(n) ==
  /\ phase[n] = "idle"
  /\ begun' = begun + 1
  /\ unit' = [unit EXCEPT ![n] = begun + 1]
  /\ phase' = [phase EXCEPT ![n] = "open"]
  /\ UNCHANGED durable

\* The database accepted the unit.
Commit(n) ==
  /\ phase[n] = "open"
  /\ durable' = durable \cup {unit[n]}
  /\ phase' = [phase EXCEPT ![n] = "idle"]
  /\ UNCHANGED <<unit, begun>>

\* COMMIT failed: the database may have accepted the unit or not.
Doubt(n) ==
  /\ phase[n] = "open"
  /\ durable' \in {durable, durable \cup {unit[n]}}
  /\ phase' = [phase EXCEPT ![n] = "blocked"]
  /\ UNCHANGED <<unit, begun>>

\* A failure that the caller must acknowledge with a release.
Block(n) ==
  /\ phase' = [phase EXCEPT ![n] = "blocked"]
  /\ UNCHANGED <<unit, begun, durable>>

\* Rollback (automatic or requested) or release of the connection.
Release(n) ==
  /\ phase' = [phase EXCEPT ![n] = "idle"]
  /\ UNCHANGED <<unit, begun, durable>>

Next == \E n \in Names : Begin(n) \/ Commit(n) \/ Doubt(n) \/ Block(n) \/ Release(n)

Spec == Init /\ [][Next]_abstractVars
=============================================================================
