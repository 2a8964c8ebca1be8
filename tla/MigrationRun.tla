---------------------------- MODULE MigrationRun ----------------------------
(***************************************************************************)
(* The migration commands of the command line (cli.py, prepare_migration   *)
(* and run_migration): compare the model with the database, apply the      *)
(* difference, then compare again with a connection of its own.            *)
(*                                                                         *)
(* Several command lines may work on one database, whose structure is a    *)
(* set of objects.  The migrator and its DDL are external: what it applies *)
(* may fail half way, and what was done by then may stay.                  *)
(***************************************************************************)
EXTENDS Naturals, FiniteSets

CONSTANTS Runs,      \* command lines
          Desired,   \* the objects each run's model asks for
          Operation, \* plan or apply
          Allows,    \* runs with --allow-removals
          Objects

ASSUME MigrationAssumption ==
  /\ \A p \in Runs : Desired[p] \subseteq Objects /\ Operation[p] \in {"plan", "apply"}
  /\ Allows \subseteq Runs

VARIABLES actual,  \* the structure of the database
          phase,   \* per run: how far it has come
          planned, \* per run: the commands it has compared last
          open,    \* per run: its migration connection is open
          code,    \* per run: the exit code, 0 until the run is over
          seen     \* observer, per run: the structure it read last

migrationVars == <<actual, phase, planned, open, code, seen>>

MigrationInit ==
  /\ actual \in SUBSET Objects
  /\ phase = [p \in Runs |-> "start"] /\ planned = [p \in Runs |-> {}]
  /\ open = [p \in Runs |-> FALSE] /\ code = [p \in Runs |-> 0]
  /\ seen = [p \in Runs |-> {}]

(* What the migrator compares, removals if they are allowed.               *)
Changes(p, structure) ==
  {<<"add", o>> : o \in Desired[p] \ structure}
  \cup {<<"remove", o>> : o \in IF p \in Allows THEN structure \ Desired[p] ELSE {}}

Exit(p, status) ==
  /\ open' = [open EXCEPT ![p] = FALSE]
  /\ code' = [code EXCEPT ![p] = status]
  /\ phase' = [phase EXCEPT ![p] = "over"]

-----------------------------------------------------------------------------
(* prepare_migration opens a connection and reads the structure: before    *)
(* the plan is printed, and again to verify.                               *)
Prepare(p, from, to) ==
  /\ phase[p] = from
  /\ planned' = [planned EXCEPT ![p] = Changes(p, actual)]
  /\ seen' = [seen EXCEPT ![p] = actual]
  /\ open' = [open EXCEPT ![p] = TRUE]
  /\ phase' = [phase EXCEPT ![p] = to]
  /\ UNCHANGED <<actual, code>>

(* The settings are refused, or reading or comparing fails after connecting.*)
PrepareFails(p) ==
  /\ phase[p] \in {"start", "applied"}
  /\ Exit(p, 1)
  /\ UNCHANGED <<actual, planned, seen>>

(* run_migration *)
NothingToApply(p) ==
  /\ phase[p] = "planned"
  /\ planned[p] = {} \/ Operation[p] = "plan"
  /\ Exit(p, 0)
  /\ UNCHANGED <<actual, planned, seen>>

Conflicts(p) == \E c \in planned[p] : (c[1] = "add") = (c[2] \in actual)
After(done) ==
  (actual \cup {c[2] : c \in {d \in done : d[1] = "add"}}) \ {c[2] : c \in {d \in done : d[1] = "remove"}}

Apply(p) ==
  /\ phase[p] = "planned" /\ planned[p] # {} /\ Operation[p] = "apply"
  /\ ~Conflicts(p)
  /\ actual' = After(planned[p])
  /\ open' = [open EXCEPT ![p] = FALSE]
  /\ phase' = [phase EXCEPT ![p] = "applied"]
  /\ UNCHANGED <<planned, code, seen>>

(* A command fails, for another run was there first or for any reason.     *)
ApplyFails(p) ==
  /\ phase[p] = "planned" /\ planned[p] # {} /\ Operation[p] = "apply"
  /\ \E done \in SUBSET planned[p] : actual' = After(done)
  /\ Exit(p, 1)
  /\ UNCHANGED <<planned, seen>>

(* Mutant: the commands have run, so the model is there. *)
VerifyTrusts(p) ==
  /\ phase[p] = "verifying"
  /\ Exit(p, 0)
  /\ UNCHANGED <<actual, planned, seen>>

Verify(p) ==
  /\ phase[p] = "verifying"
  /\ Exit(p, IF planned[p] = {} THEN 0 ELSE 1)
  /\ UNCHANGED <<actual, planned, seen>>

(* KeyboardInterrupt, wherever it strikes. *)
Interrupted(p) ==
  /\ phase[p] # "over"
  /\ Exit(p, 130)
  /\ UNCHANGED <<actual, planned, seen>>

MigrationNext == \E p \in Runs :
  \/ Prepare(p, "start", "planned") \/ NothingToApply(p)
  \/ Apply(p) \/ ApplyFails(p)
  \/ Prepare(p, "applied", "verifying") \/ Verify(p)
  \/ PrepareFails(p) \/ Interrupted(p)

MigrationSpec == MigrationInit /\ [][MigrationNext]_migrationVars

-----------------------------------------------------------------------------
(* A run of apply that ends with 0 has read a structure in which nothing   *)
(* of its model was missing, and nothing left to remove if removals are    *)
(* allowed, after whatever it and the other runs did: convergence is never *)
(* inferred from DDL that succeeded.  (run_migration)                      *)
ZeroMeansConverged ==
  \A p \in Runs :
    (phase[p] = "over" /\ code[p] = 0 /\ Operation[p] = "apply") =>
      /\ Desired[p] \subseteq seen[p]
      /\ p \in Allows => seen[p] = Desired[p]

(* However a run ends, and while it has none to use, its migration         *)
(* connection is closed.  (prepare_migration, run_migration)               *)
ConnectionsAreClosed ==
  \A p \in Runs : open[p] => phase[p] \in {"planned", "verifying"}

(* The exit code says what was reached, and nothing is left open.          *)
RunsEndHonestly == ZeroMeansConverged /\ ConnectionsAreClosed
=============================================================================
