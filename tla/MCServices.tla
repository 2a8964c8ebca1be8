----------------------------- MODULE MCServices -----------------------------
(***************************************************************************)
(* What surrounds the execution service, model-checked side by side: the   *)
(* scopes of the environment, one queue of deferred callbacks, the         *)
(* migration commands, the registry of databases and the record reader.    *)
(*                                                                         *)
(* They share no state, so a behaviour goes through one of the parts,      *)
(* while the variables of the others rest.                                 *)
(***************************************************************************)
EXTENDS Environment, DeferredQueue, MigrationRun, Registry, RecordReader

CONSTANTS Parts  \* the parts this run looks at

VARIABLE part

-----------------------------------------------------------------------------
(* Two keys, two values beside None, scopes three deep.                      *)
CONSTANTS connectionName, organization, one, two

MCMappings ==
  {connectionName :> one, organization :> None, connectionName :> two @@ organization :> two}
MCDefaults == organization :> two

-----------------------------------------------------------------------------
(* Two runs apply models that differ, one with removals; a third plans.    *)
CONSTANTS first, second, planner, stable, old, new

MCDesired == [p \in Runs |-> IF p = second THEN {stable, old} ELSE {stable, new}]
MCOperation == [p \in Runs |-> IF p = planner THEN "plan" ELSE "apply"]

-----------------------------------------------------------------------------
(* Three processes, two of them in one directory, and one name.            *)
CONSTANTS near, beside, far, home, away

MCCwd == near :> home @@ beside :> home @@ far :> away

-----------------------------------------------------------------------------
(* Two rows that share half of their key, changed, deleted, moved to       *)
(* another scope; keys too short, too long and with a NULL.                *)
Row(key, data, scope, deleted) == [key |-> key, data |-> data, scope |-> scope, deleted |-> deleted]

MCContents ==
  {{Row(<<1, 1>>, 1, "mine", FALSE), Row(<<1, 2>>, 0, "mine", FALSE)},
   {Row(<<1, 1>>, 0, "mine", FALSE)},
   {Row(<<1, 1>>, 0, "mine", TRUE), Row(<<1, 2>>, 1, "theirs", FALSE)},
   {}}
MCPrimaryKeys == {Null, <<1>>, <<1, 1>>, <<1, 2, 1>>, <<1, Null>>}
MCWheres == {Null, "wanted", "true"}
MCKeywords ==
  {"excludeLogicalDeleted", "exclude_logical_deleted", "wanted", "exclude_deleted", "lazy", "limit"}

-----------------------------------------------------------------------------
(* A part that rests stays in one of its initial states.                   *)
ServicesInit ==
  /\ part \in Parts
  /\ EnvironmentInit /\ QueueInit /\ RegistryInit
  /\ IF part = "migration" THEN MigrationInit ELSE MigrationInit /\ actual = {}
  /\ IF part = "reader" THEN RecordInit
     ELSE RecordInit /\ rows = {} /\ env = CHOOSE s \in Scopes : TRUE

ServicesNext ==
  \/ /\ part = "environment" /\ EnvironmentNext
     /\ UNCHANGED <<part, queueVars, migrationVars, registryVars, recordVars>>
  \/ /\ part = "queue" /\ QueueNext
     /\ UNCHANGED <<part, environmentVars, migrationVars, registryVars, recordVars>>
  \/ /\ part = "migration" /\ MigrationNext
     /\ UNCHANGED <<part, environmentVars, queueVars, registryVars, recordVars>>
  \/ /\ part = "registry" /\ RegistryNext
     /\ UNCHANGED <<part, environmentVars, queueVars, migrationVars, recordVars>>
  \/ /\ part = "reader" /\ RecordNext
     /\ UNCHANGED <<part, environmentVars, queueVars, migrationVars, registryVars>>

ServicesSpec ==
  /\ ServicesInit
  /\ [][ServicesNext]_<<part, environmentVars, queueVars, migrationVars, registryVars, recordVars>>
  /\ QueueFairness
=============================================================================
