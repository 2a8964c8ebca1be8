--------------------------- MODULE ServicesProofs ---------------------------
(***************************************************************************)
(* What surrounds the execution service keeps its promises for all values  *)
(* of the constants: the migration commands, the registry of databases,    *)
(* the record reader and the scopes of the environment, one after another. *)
(***************************************************************************)
EXTENDS Environment, MigrationRun, Registry, RecordReader,
        SequenceTheorems, FiniteSetTheorems, TLAPS

-----------------------------------------------------------------------------
(***************************************************************************)
(* The migration commands end honestly for every set of runs, models and   *)
(* objects, and in every interleaving of the runs.                         *)
(***************************************************************************)
Phases == {"start", "planned", "applied", "verifying", "over"}

MigrationTypeOK ==
  /\ phase \in [Runs -> Phases]
  /\ open \in [Runs -> BOOLEAN]
  /\ code \in [Runs -> {0, 1, 130}]
  /\ seen \in [Runs -> SUBSET Objects]
  /\ planned \in [Runs -> SUBSET ({"add", "remove"} \X Objects)]
  /\ actual \in SUBSET Objects

(* While a run has a plan it is the difference from what the run has read, *)
(* not from the database as it is: others may have changed that since.     *)
PlansAreOfWhatWasSeen ==
  \A p \in Runs : phase[p] \in {"planned", "verifying"} => planned[p] = Changes(p, seen[p])

MigrationIInv == MigrationTypeOK /\ PlansAreOfWhatWasSeen /\ RunsEndHonestly

-----------------------------------------------------------------------------
(* A plan adds and removes objects only.  (prepare_migration)              *)
LEMMA ChangesType ==
  ASSUME NEW p \in Runs, NEW structure \in SUBSET Objects
  PROVE  Changes(p, structure) \in SUBSET ({"add", "remove"} \X Objects)
<1>1. Desired[p] \subseteq Objects
  BY MigrationAssumption
<1> QED
  BY <1>1 DEF Changes

(* Nothing left to do means the model is there, and nothing else if what   *)
(* is not in the model may be removed.  (prepare_migration)                *)
LEMMA NoChanges ==
  ASSUME NEW p \in Runs, NEW structure \in SUBSET Objects, Changes(p, structure) = {}
  PROVE  /\ Desired[p] \subseteq structure
         /\ p \in Allows => structure = Desired[p]
<1>1. Desired[p] \subseteq structure
  <2> SUFFICES ASSUME NEW o \in Desired[p], o \notin structure  PROVE FALSE
    OBVIOUS
  <2>1. <<"add", o>> \in Changes(p, structure)
    BY DEF Changes
  <2> QED
    BY <2>1
<1>2. ASSUME p \in Allows  PROVE structure \subseteq Desired[p]
  <2> SUFFICES ASSUME NEW o \in structure, o \notin Desired[p]  PROVE FALSE
    OBVIOUS
  <2>1. <<"remove", o>> \in Changes(p, structure)
    BY <1>2 DEF Changes
  <2> QED
    BY <2>1
<1> QED
  BY <1>1, <1>2

(* DDL adds and removes only objects of the commands it runs.  (apply)     *)
LEMMA AfterType ==
  ASSUME actual \in SUBSET Objects, NEW done, done \in SUBSET ({"add", "remove"} \X Objects)
  PROVE  After(done) \in SUBSET Objects
<1>1. \A d \in done : d[2] \in Objects
  OBVIOUS
<1> QED
  BY <1>1 DEF After

-----------------------------------------------------------------------------
(* A run that ends closes its connection, and may say 0 only when that is  *)
(* true of what it has read.  (run_migration)                              *)
LEMMA ExitStep ==
  ASSUME MigrationIInv, NEW p \in Runs, NEW status \in {0, 1, 130},
         Exit(p, status), UNCHANGED <<planned, seen>>, actual' \in SUBSET Objects,
         (status = 0 /\ Operation[p] = "apply") =>
            phase[p] \in {"planned", "verifying"} /\ planned[p] = {}
  PROVE  MigrationIInv'
<1> USE DEF MigrationIInv, Exit
<1>1. MigrationTypeOK'
  BY DEF MigrationTypeOK, Phases
<1>2. PlansAreOfWhatWasSeen'
  BY DEF MigrationTypeOK, PlansAreOfWhatWasSeen, Changes
<1>3. ZeroMeansConverged'
  <2> SUFFICES ASSUME NEW q \in Runs, phase'[q] = "over", code'[q] = 0, Operation[q] = "apply"
               PROVE  /\ Desired[q] \subseteq seen'[q]
                      /\ q \in Allows => seen'[q] = Desired[q]
    BY DEF ZeroMeansConverged
  <2>1. CASE q = p
    <3>1. status = 0
      BY <2>1 DEF MigrationTypeOK
    <3>2. Changes(p, seen[p]) = {}
      BY <3>1, <2>1 DEF PlansAreOfWhatWasSeen
    <3> QED
      BY <3>2, <2>1, NoChanges DEF MigrationTypeOK
  <2>2. CASE q # p
    BY <2>2 DEF MigrationTypeOK, RunsEndHonestly, ZeroMeansConverged
  <2> QED
    BY <2>1, <2>2
<1>4. ConnectionsAreClosed'
  BY DEF MigrationTypeOK, RunsEndHonestly, ConnectionsAreClosed
<1> QED
  BY <1>1, <1>2, <1>3, <1>4 DEF RunsEndHonestly

(* Reading makes the plan the difference from what is read.                *)
LEMMA PrepareStep ==
  ASSUME MigrationIInv, NEW p \in Runs, NEW from,
         NEW to \in {"planned", "verifying"}, Prepare(p, from, to)
  PROVE  MigrationIInv'
<1> USE DEF MigrationIInv, Prepare
<1>1. MigrationTypeOK'
  BY ChangesType DEF MigrationTypeOK, Phases
<1>2. PlansAreOfWhatWasSeen'
  BY DEF MigrationTypeOK, PlansAreOfWhatWasSeen, Changes
<1>3. ZeroMeansConverged'
  BY DEF MigrationTypeOK, RunsEndHonestly, ZeroMeansConverged
<1>4. ConnectionsAreClosed'
  BY DEF MigrationTypeOK, RunsEndHonestly, ConnectionsAreClosed
<1> QED
  BY <1>1, <1>2, <1>3, <1>4 DEF RunsEndHonestly

(* Applying changes the database and drops the plan.                       *)
LEMMA ApplyStep ==
  ASSUME MigrationIInv, NEW p \in Runs, Apply(p)
  PROVE  MigrationIInv'
<1> USE DEF MigrationIInv, Apply
<1>1. MigrationTypeOK'
  <2>1. actual' \in SUBSET Objects
    BY AfterType DEF MigrationTypeOK
  <2> QED
    BY <2>1 DEF MigrationTypeOK, Phases
<1>2. PlansAreOfWhatWasSeen'
  BY DEF MigrationTypeOK, PlansAreOfWhatWasSeen, Changes
<1>3. ZeroMeansConverged'
  BY DEF MigrationTypeOK, RunsEndHonestly, ZeroMeansConverged
<1>4. ConnectionsAreClosed'
  BY DEF MigrationTypeOK, RunsEndHonestly, ConnectionsAreClosed
<1> QED
  BY <1>1, <1>2, <1>3, <1>4 DEF RunsEndHonestly

(* DDL that stops half way leaves what was done, and no plan.              *)
LEMMA ApplyFailsStep ==
  ASSUME MigrationIInv, NEW p \in Runs, ApplyFails(p)
  PROVE  MigrationIInv'
<1>1. PICK done \in SUBSET planned[p] : actual' = After(done)
  BY DEF ApplyFails
<1>2. actual' \in SUBSET Objects
  BY <1>1, AfterType DEF MigrationIInv, MigrationTypeOK
<1> QED
  BY <1>2, ExitStep DEF ApplyFails

-----------------------------------------------------------------------------
(* The invariant holds when the runs start ...                             *)
LEMMA MigrationInitIInv == MigrationInit => MigrationIInv
  BY DEF MigrationInit, MigrationIInv, MigrationTypeOK, Phases, PlansAreOfWhatWasSeen,
         RunsEndHonestly, ZeroMeansConverged, ConnectionsAreClosed

(* ... and every step of every run keeps it.                               *)
LEMMA MigrationNextIInv == MigrationIInv /\ [MigrationNext]_migrationVars => MigrationIInv'
<1> SUFFICES ASSUME MigrationIInv, [MigrationNext]_migrationVars  PROVE MigrationIInv'
  OBVIOUS
<1>1. CASE UNCHANGED migrationVars
  BY <1>1 DEF migrationVars, MigrationIInv, MigrationTypeOK, PlansAreOfWhatWasSeen, Changes,
              RunsEndHonestly, ZeroMeansConverged, ConnectionsAreClosed
<1>2. ASSUME NEW p \in Runs,
             Prepare(p, "start", "planned") \/ Prepare(p, "applied", "verifying")
      PROVE  MigrationIInv'
  BY <1>2, PrepareStep
<1>3. ASSUME NEW p \in Runs, NothingToApply(p)  PROVE MigrationIInv'
  BY <1>3, ExitStep DEF NothingToApply, MigrationIInv, MigrationTypeOK
<1>4. ASSUME NEW p \in Runs, Apply(p) \/ ApplyFails(p)  PROVE MigrationIInv'
  BY <1>4, ApplyStep, ApplyFailsStep
<1>5. ASSUME NEW p \in Runs, Verify(p)  PROVE MigrationIInv'
  BY <1>5, ExitStep DEF Verify, MigrationIInv, MigrationTypeOK
<1>6. ASSUME NEW p \in Runs, PrepareFails(p) \/ Interrupted(p)  PROVE MigrationIInv'
  BY <1>6, ExitStep DEF PrepareFails, Interrupted, MigrationIInv, MigrationTypeOK
<1> QED
  BY <1>1, <1>2, <1>3, <1>4, <1>5, <1>6 DEF MigrationNext

(* Every reachable state satisfies the inductive invariant: in particular  *)
(* a plan that is acted on is always the difference from the structure its *)
(* own run has read.  (run_migration)                                      *)
THEOREM MigrationInvariance == MigrationSpec => []MigrationIInv
  BY MigrationInitIInv, MigrationNextIInv, PTL DEF MigrationSpec

(* An apply that exits with 0 has read its own model in the database, and  *)
(* no run keeps a migration connection it has no use for, whatever other   *)
(* runs, failures and interrupts do in between.  (run_migration)           *)
THEOREM MigrationHonest == MigrationSpec => []RunsEndHonestly
<1>1. MigrationIInv => RunsEndHonestly
  BY DEF MigrationIInv
<1> QED
  BY <1>1, MigrationInvariance, PTL

-----------------------------------------------------------------------------
(***************************************************************************)
(* Names keep their meaning for every set of processes, names and folders: *)
(* no lock is needed, because a card is created exclusively and its file   *)
(* is written by the process that created it only.                         *)
(***************************************************************************)
Calls == [op : {"none", "write", "read", "check", "resolved"},
          name : Names \cup {Absent}, folder : AnyFolder \cup {Absent}, file : 0..MaxFiles]

RegistryTypeOK ==
  /\ files \in 0..MaxFiles
  /\ card \in [Names -> (1..files) \cup {Absent}]
  /\ content \in [1..MaxFiles -> AnyFolder \cup {Absent}]
  /\ recipes \subseteq Folders
  /\ call \in [Processes -> Calls]
  /\ met \in [Processes -> SUBSET (AnyFolder \cup {Absent})]
  /\ lasting \subseteq Names \X Folders
  /\ \A p \in Processes :
       /\ call[p].op # "none" => call[p].name \in Names
       /\ call[p].op = "write" => call[p].file \in 1..files /\ call[p].folder \in Folders

(* A file is the card of one name, and is written by one registration,     *)
(* under the name it was created for.                                      *)
FilesHaveOneOwner ==
  /\ \A m, n \in Names : (card[m] = card[n] /\ card[m] # Absent) => m = n
  /\ \A p, q \in Processes :
       (call[p].op = "write" /\ call[q].op = "write" /\ call[p].file = call[q].file) => p = q
  /\ \A p \in Processes, n \in Names :
       (call[p].op = "write" /\ card[n] = call[p].file) => n = call[p].name

(* A registration reported done still has its card, and nobody is about to *)
(* write into that.                                                        *)
LastingIsWritten ==
  \A r \in lasting :
    /\ card[r[1]] # Absent
    /\ \A p \in Processes : call[p].op = "write" => call[p].file # card[r[1]]

(* What was read is kept as it was read until it is returned.              *)
SelectionsWereMet ==
  \A p \in Processes :
    call[p].op \in {"check", "resolved"} => call[p].folder \in met[p] /\ call[p].folder[1] # Here

RegistryIInv ==
  /\ RegistryTypeOK /\ FilesHaveOneOwner /\ LastingIsWritten
  /\ SelectionsWereMet /\ RegistrationLasts

-----------------------------------------------------------------------------
(* A folder that was made absolute means the same in every process.        *)
(* (_absolute_folder)                                                      *)
LEMMA AbsoluteType ==
  ASSUME NEW p \in Processes, NEW folder \in AnyFolder
  PROVE  Absolute(p, folder) \in Folders /\ Absolute(p, folder)[1] # Here
<1>1. CASE folder[1] = Here
  BY <1>1, RegistryAssumption DEF Absolute, AnyFolder, Folders
<1>2. CASE folder[1] # Here
  BY <1>2 DEF Absolute, AnyFolder, Folders
<1> QED
  BY <1>1, <1>2

(* The observer misses nothing: what it has seen for a call stays while    *)
(* the call goes on, and what the card holds after a step is seen.         *)
LEMMA ObserveSees ==
  ASSUME RegistryTypeOK, Observe,
         call' \in [Processes -> Calls],
         card' \in [Names -> (1..files') \cup {Absent}], files' \in 0..MaxFiles,
         content' \in [1..MaxFiles -> AnyFolder \cup {Absent}],
         \A p \in Processes : call'[p].op # "none" => call'[p].name \in Names
  PROVE  /\ met' \in [Processes -> SUBSET (AnyFolder \cup {Absent})]
         /\ \A p \in Processes :
              call'[p].op # "none" =>
                /\ call[p].op # "none" => met[p] \subseteq met'[p]
                /\ card'[call'[p].name] # Absent => content'[card'[call'[p].name]] \in met'[p]
<1> DEFINE Seen(p) == IF card'[call'[p].name] = Absent THEN {} ELSE {content'[card'[call'[p].name]]}
           Before(p) == IF call[p].op = "none" THEN {} ELSE met[p]
           Now(p) == IF call'[p].op = "none" THEN {} ELSE Before(p) \cup Seen(p)
<1>1. met' = [p \in Processes |-> Now(p)]
  BY DEF Observe
<1>2. ASSUME NEW p \in Processes, call'[p].op # "none"
      PROVE  Seen(p) \in SUBSET (AnyFolder \cup {Absent})
  <2>1. call'[p].name \in Names
    BY <1>2
  <2>2. CASE card'[call'[p].name] = Absent
    BY <2>2
  <2>3. CASE card'[call'[p].name] # Absent
    <3>1. card'[call'[p].name] \in 1..MaxFiles
      BY <2>1, <2>3, RegistryAssumption
    <3> QED
      BY <3>1, <2>3
  <2> QED
    BY <2>2, <2>3
<1>3. \A p \in Processes : Before(p) \in SUBSET (AnyFolder \cup {Absent})
  BY DEF RegistryTypeOK
<1>4. \A p \in Processes : Now(p) \in SUBSET (AnyFolder \cup {Absent})
  BY <1>2, <1>3
<1>5. \A p \in Processes : met'[p] = Now(p)
  BY <1>1
<1> HIDE DEF Now
<1>6. met' \in [Processes -> SUBSET (AnyFolder \cup {Absent})]
  BY <1>1, <1>4
<1> QED
  BY <1>5, <1>6 DEF Now

-----------------------------------------------------------------------------
(* A step that only moves one call on, and starts no write.                *)
LEMMA CallStep ==
  ASSUME RegistryIInv, NEW p \in Processes, NEW c \in Calls,
         call' = [call EXCEPT ![p] = c],
         UNCHANGED <<card, content, files, recipes, lasting>>, Observe,
         c.op # "write", c.op # "none" => c.name \in Names,
         c.op \in {"check", "resolved"} =>
           /\ c.folder[1] # Here
           /\ \/ call[p].op # "none" /\ c.folder \in met[p]
              \/ card[c.name] # Absent /\ c.folder = content[card[c.name]]
  PROVE  RegistryIInv'
<1> USE DEF RegistryIInv
<1>1. call' \in [Processes -> Calls] /\ call'[p] = c
      /\ \A q \in Processes \ {p} : call'[q] = call[q]
  BY DEF RegistryTypeOK
<1>2. \A q \in Processes : call'[q].op # "none" => call'[q].name \in Names
  BY <1>1 DEF RegistryTypeOK
<1>3. /\ met' \in [Processes -> SUBSET (AnyFolder \cup {Absent})]
      /\ \A q \in Processes :
           call'[q].op # "none" =>
             /\ call[q].op # "none" => met[q] \subseteq met'[q]
             /\ card'[call'[q].name] # Absent => content'[card'[call'[q].name]] \in met'[q]
  BY <1>1, <1>2, ObserveSees DEF RegistryTypeOK
<1>4. RegistryTypeOK'
  BY <1>1, <1>2, <1>3 DEF RegistryTypeOK
<1>5. FilesHaveOneOwner'
  BY <1>1 DEF FilesHaveOneOwner
<1>6. LastingIsWritten'
  BY <1>1 DEF LastingIsWritten
<1>7. SelectionsWereMet'
  <2> SUFFICES ASSUME NEW q \in Processes, call'[q].op \in {"check", "resolved"}
               PROVE  call'[q].folder \in met'[q] /\ call'[q].folder[1] # Here
    BY DEF SelectionsWereMet
  <2>1. CASE q = p
    BY <2>1, <1>1, <1>3
  <2>2. CASE q # p
    BY <2>2, <1>1, <1>3 DEF SelectionsWereMet
  <2> QED
    BY <2>1, <2>2
<1>8. RegistrationLasts'
  BY DEF RegistrationLasts, Held
<1> QED
  BY <1>4, <1>5, <1>6, <1>7, <1>8

(* A step that starts, moves or ends no call leaves what was met there.    *)
LEMMA BystanderStep ==
  ASSUME RegistryIInv, UNCHANGED call, Observe,
         files' = files, card' \in [Names -> (1..files) \cup {Absent}],
         content' \in [1..MaxFiles -> AnyFolder \cup {Absent}],
         recipes' \subseteq Folders, lasting' \subseteq Names \X Folders
  PROVE  RegistryTypeOK' /\ SelectionsWereMet'
<1> USE DEF RegistryIInv
<1>1. /\ met' \in [Processes -> SUBSET (AnyFolder \cup {Absent})]
      /\ \A q \in Processes : call'[q].op # "none" => met[q] \subseteq met'[q]
  BY ObserveSees DEF RegistryTypeOK
<1> QED
  BY <1>1 DEF RegistryTypeOK, SelectionsWereMet

(* register creates a card of its own: the file is new, so no other name   *)
(* and no other writer has it, and no lasting registration is behind it.   *)
LEMMA OpenStep ==
  ASSUME RegistryIInv, NEW p \in Processes, NEW n \in Names, NEW folder \in AnyFolder,
         Open(p, n, folder)
  PROVE  RegistryIInv'
<1> DEFINE c == [op |-> "write", name |-> n, folder |-> Absolute(p, folder), file |-> files + 1]
<1> USE DEF RegistryIInv
<1>1. /\ call' = [call EXCEPT ![p] = c] /\ card' = [card EXCEPT ![n] = files + 1]
      /\ files' = files + 1 /\ files' \in 0..MaxFiles /\ card[n] = Absent
      /\ UNCHANGED <<content, recipes, lasting>> /\ Observe
  BY RegistryAssumption DEF Open, Start, RegistryTypeOK
<1>2. c \in Calls
  BY <1>1, AbsoluteType, RegistryAssumption DEF Calls, AnyFolder, RegistryTypeOK
<1>3. /\ call' \in [Processes -> Calls] /\ call'[p] = c
      /\ \A q \in Processes \ {p} : call'[q] = call[q]
  BY <1>1, <1>2 DEF RegistryTypeOK
<1>4. /\ card' \in [Names -> (1..files') \cup {Absent}] /\ card'[n] = files + 1
      /\ \A m \in Names \ {n} : card'[m] = card[m]
  BY <1>1 DEF RegistryTypeOK
<1>5. files + 1 # Absent /\ files + 1 \notin 1..files
  BY <1>1, RegistryAssumption DEF RegistryTypeOK
<1>6. \A q \in Processes : call'[q].op # "none" => call'[q].name \in Names
  BY <1>3 DEF RegistryTypeOK
<1>7. /\ met' \in [Processes -> SUBSET (AnyFolder \cup {Absent})]
      /\ \A q \in Processes :
           (call'[q].op # "none" /\ call[q].op # "none") => met[q] \subseteq met'[q]
  BY <1>1, <1>3, <1>4, <1>6, ObserveSees DEF RegistryTypeOK
<1>8. RegistryTypeOK'
  <2>1. ASSUME NEW q \in Processes, call'[q].op = "write"
        PROVE  call'[q].file \in 1..files' /\ call'[q].folder \in Folders
    BY <2>1, <1>1, <1>3, AbsoluteType DEF RegistryTypeOK
  <2> QED
    BY <2>1, <1>1, <1>3, <1>4, <1>6, <1>7 DEF RegistryTypeOK
<1>9. FilesHaveOneOwner'
  <2>1. \A k, m \in Names : (card'[k] = card'[m] /\ card'[k] # Absent) => k = m
    BY <1>4, <1>5 DEF FilesHaveOneOwner, RegistryTypeOK
  <2>2. \A q, r \in Processes :
          (call'[q].op = "write" /\ call'[r].op = "write" /\ call'[q].file = call'[r].file) => q = r
    BY <1>3, <1>5 DEF FilesHaveOneOwner, RegistryTypeOK
  <2>3. \A q \in Processes, m \in Names :
          (call'[q].op = "write" /\ card'[m] = call'[q].file) => m = call'[q].name
    BY <1>3, <1>4, <1>5, RegistryAssumption DEF FilesHaveOneOwner, RegistryTypeOK
  <2> QED
    BY <2>1, <2>2, <2>3 DEF FilesHaveOneOwner
<1>10. LastingIsWritten'
  BY <1>1, <1>3, <1>4, <1>5 DEF LastingIsWritten, RegistryTypeOK
<1>11. SelectionsWereMet'
  BY <1>3, <1>7, <1>1 DEF SelectionsWereMet, Open
<1>12. RegistrationLasts'
  <2> SUFFICES ASSUME NEW r \in lasting  PROVE Held(r[1])' = r[2]
    BY <1>1 DEF RegistrationLasts
  <2>1. r[1] \in Names /\ r[1] # n
    BY <1>1 DEF LastingIsWritten, RegistryTypeOK
  <2> QED
    BY <2>1, <1>1, <1>4 DEF RegistrationLasts, Held
<1> QED
  BY <1>8, <1>9, <1>10, <1>11, <1>12

(* register writes into the file it created, which is the card of its name *)
(* or of none.                                                             *)
LEMMA WriteStep ==
  ASSUME RegistryIInv, NEW p \in Processes, Write(p)
  PROVE  RegistryIInv'
<1> DEFINE n == call[p].name
           f == call[p].file
           r == <<n, call[p].folder>>
<1> USE DEF RegistryIInv
<1>1. /\ call[p].op = "write" /\ n \in Names /\ f \in 1..MaxFiles /\ call[p].folder \in Folders
      /\ call' = [call EXCEPT ![p] = Idle] /\ content' = [content EXCEPT ![f] = call[p].folder]
      /\ \A s \in lasting' : s \in lasting \/ (s = r /\ card[n] = f)
      /\ UNCHANGED <<card, files, recipes>> /\ Observe
  BY RegistryAssumption DEF Write, Finish, RegistryTypeOK
<1>2. /\ call' \in [Processes -> Calls] /\ call'[p] = Idle
      /\ \A q \in Processes \ {p} : call'[q] = call[q]
  BY <1>1, RegistryAssumption DEF RegistryTypeOK, Idle, Calls
<1>3. /\ content' \in [1..MaxFiles -> AnyFolder \cup {Absent}] /\ content'[f] = call[p].folder
      /\ \A g \in 1..MaxFiles \ {f} : content'[g] = content[g]
  BY <1>1 DEF RegistryTypeOK, AnyFolder
<1>4. \A q \in Processes : call'[q].op # "none" => call'[q].name \in Names
  BY <1>2 DEF RegistryTypeOK, Idle
<1>5. /\ met' \in [Processes -> SUBSET (AnyFolder \cup {Absent})]
      /\ \A q \in Processes :
           (call'[q].op # "none" /\ call[q].op # "none") => met[q] \subseteq met'[q]
  BY <1>1, <1>2, <1>3, <1>4, ObserveSees DEF RegistryTypeOK
<1>6. RegistryTypeOK'
  <2>1. \A q \in Processes :
          call'[q].op = "write" => call'[q].file \in 1..files' /\ call'[q].folder \in Folders
    BY <1>1, <1>2 DEF RegistryTypeOK, Idle
  <2>2. lasting' \subseteq Names \X Folders
    BY <1>1 DEF RegistryTypeOK
  <2> QED
    BY <2>1, <2>2, <1>1, <1>2, <1>3, <1>4, <1>5 DEF RegistryTypeOK
<1>7. FilesHaveOneOwner'
  BY <1>1, <1>2 DEF FilesHaveOneOwner, Idle
<1>8. LastingIsWritten'
  <2> SUFFICES ASSUME NEW s \in lasting'
               PROVE  /\ card[s[1]] # Absent
                      /\ \A q \in Processes : call'[q].op = "write" => call'[q].file # card[s[1]]
    BY <1>1 DEF LastingIsWritten
  <2>1. CASE s \in lasting
    BY <2>1, <1>2 DEF LastingIsWritten, Idle
  <2>2. CASE s = r /\ card[n] = f
    BY <2>2, <1>1, <1>2, RegistryAssumption DEF FilesHaveOneOwner, Idle
  <2> QED
    BY <2>1, <2>2, <1>1
<1>9. SelectionsWereMet'
  BY <1>1, <1>2, <1>5 DEF SelectionsWereMet, Idle
<1>10. RegistrationLasts'
  <2> SUFFICES ASSUME NEW s \in lasting'  PROVE Held(s[1])' = s[2]
    BY DEF RegistrationLasts
  <2>1. CASE s \in lasting
    <3>1. card[s[1]] \in 1..MaxFiles /\ card[s[1]] # f
      BY <2>1, <1>1, RegistryAssumption DEF LastingIsWritten, RegistryTypeOK
    <3> QED
      BY <3>1, <2>1, <1>1, <1>3 DEF RegistrationLasts, Held
  <2>2. CASE s = r /\ card[n] = f
    BY <2>2, <1>1, <1>3, RegistryAssumption DEF Held
  <2> QED
    BY <2>1, <2>2, <1>1
<1> QED
  BY <1>6, <1>7, <1>8, <1>9, <1>10

(* Unlinking a card ends the registrations of that name only.              *)
LEMMA RemoveStep ==
  ASSUME RegistryIInv, NEW p \in Processes, NEW n \in Names, RemoveCard(p, n)
  PROVE  RegistryIInv'
<1> USE DEF RegistryIInv, RemoveCard
<1>1. /\ card' \in [Names -> (1..files) \cup {Absent}] /\ card'[n] = Absent
      /\ \A m \in Names \ {n} : card'[m] = card[m]
  BY DEF RegistryTypeOK
<1>2. RegistryTypeOK' /\ SelectionsWereMet'
  BY <1>1, BystanderStep DEF RegistryTypeOK
<1>3. FilesHaveOneOwner'
  <2>1. \A q \in Processes : call[q].op = "write" => call[q].file # Absent
    BY RegistryAssumption DEF RegistryTypeOK
  <2> QED
    BY <1>1, <2>1 DEF FilesHaveOneOwner
<1>4. \A r \in lasting' : r \in lasting /\ r[1] \in Names \ {n}
  BY DEF RegistryTypeOK
<1>5. LastingIsWritten' /\ RegistrationLasts'
  BY <1>1, <1>4 DEF LastingIsWritten, RegistrationLasts, Held
<1> QED
  BY <1>2, <1>3, <1>5

(* A card that is edited by hand ends the registrations of its name only.  *)
LEMMA EditStep ==
  ASSUME RegistryIInv, NEW n \in Names, NEW folder \in {Here} \X Paths, Edit(n, folder)
  PROVE  RegistryIInv'
<1> USE DEF RegistryIInv, Edit
<1>1. card[n] \in 1..MaxFiles
  BY RegistryAssumption DEF RegistryTypeOK
<1>2. /\ content' \in [1..MaxFiles -> AnyFolder \cup {Absent}]
      /\ \A g \in 1..MaxFiles \ {card[n]} : content'[g] = content[g]
  BY <1>1 DEF RegistryTypeOK, AnyFolder
<1>3. RegistryTypeOK' /\ SelectionsWereMet'
  BY <1>2, BystanderStep DEF RegistryTypeOK
<1>4. FilesHaveOneOwner'
  BY DEF FilesHaveOneOwner
<1>5. \A r \in lasting' : r \in lasting /\ r[1] \in Names \ {n}
  BY DEF RegistryTypeOK
<1>6. LastingIsWritten'
  BY <1>5 DEF LastingIsWritten
<1>7. RegistrationLasts'
  <2> SUFFICES ASSUME NEW r \in lasting'  PROVE Held(r[1])' = r[2]
    BY DEF RegistrationLasts
  <2>1. card[r[1]] \in 1..MaxFiles /\ card[r[1]] # card[n]
    BY <1>1, <1>5, RegistryAssumption DEF LastingIsWritten, FilesHaveOneOwner, RegistryTypeOK
  <2> QED
    BY <2>1, <1>2, <1>5 DEF RegistrationLasts, Held
<1> QED
  BY <1>3, <1>4, <1>6, <1>7

(* A project that goes takes nothing out of the registry.                  *)
LEMMA ProjectGoesStep ==
  ASSUME RegistryIInv, NEW folder, ProjectGoes(folder)
  PROVE  RegistryIInv'
<1> USE DEF RegistryIInv, ProjectGoes
<1>1. RegistryTypeOK' /\ SelectionsWereMet'
  BY BystanderStep DEF RegistryTypeOK
<1> QED
  BY <1>1 DEF FilesHaveOneOwner, LastingIsWritten, RegistrationLasts, Held

-----------------------------------------------------------------------------
(* The invariant holds in an empty registry ...                            *)
LEMMA RegistryInitIInv == RegistryInit => RegistryIInv
<1> SUFFICES ASSUME RegistryInit  PROVE RegistryIInv
  OBVIOUS
<1>1. Idle \in Calls
  BY RegistryAssumption DEF Idle, Calls
<1>2. RegistryTypeOK
  BY <1>1, RegistryAssumption DEF RegistryInit, RegistryTypeOK, Idle
<1> QED
  BY <1>2 DEF RegistryInit, RegistryIInv, FilesHaveOneOwner, LastingIsWritten,
              SelectionsWereMet, RegistrationLasts, Idle

(* ... and every step of every process, and of whoever edits cards by      *)
(* hand, keeps it.                                                         *)
LEMMA RegistryNextIInv == RegistryIInv /\ [RegistryNext]_registryVars => RegistryIInv'
<1> SUFFICES ASSUME RegistryIInv, [RegistryNext]_registryVars  PROVE RegistryIInv'
  OBVIOUS
<1>1. CASE UNCHANGED registryVars
  BY <1>1 DEF registryVars, RegistryIInv, RegistryTypeOK, FilesHaveOneOwner, LastingIsWritten,
              SelectionsWereMet, RegistrationLasts, Held
<1>2. Idle \in Calls /\ Idle.op = "none"
  BY RegistryAssumption DEF Idle, Calls
<1>3. ASSUME NEW p \in Processes, WriteFails(p) \/ ReadFails(p) \/ Load(p)  PROVE RegistryIInv'
  BY <1>2, <1>3, CallStep DEF WriteFails, ReadFails, Load, Finish
<1>4. ASSUME NEW p \in Processes, NEW n \in Names, ResolveBegin(p, n)  PROVE RegistryIInv'
  <2>1. [op |-> "read", name |-> n, folder |-> Absent, file |-> 0] \in Calls
    BY RegistryAssumption DEF Calls
  <2> QED
    BY <2>1, <1>4, CallStep DEF ResolveBegin, Start
<1>5. ASSUME NEW p \in Processes, Read(p)  PROVE RegistryIInv'
  <2> DEFINE n == call[p].name
             c == [op |-> "check", name |-> n, folder |-> Held(n), file |-> 0]
  <2>1. n \in Names /\ card[n] # Absent /\ Held(n) = content[card[n]]
    BY <1>5 DEF Read, Held, RegistryIInv, RegistryTypeOK
  <2>2. c \in Calls
    BY <2>1, RegistryAssumption DEF Calls, RegistryIInv, RegistryTypeOK
  <2>3. CASE Held(n)[1] # Here
    BY <2>1, <2>2, <2>3, <1>5, CallStep DEF Read, Start
  <2>4. CASE Held(n)[1] = Here
    BY <2>4, <1>2, <1>5, CallStep DEF Read, Finish
  <2> QED
    BY <2>3, <2>4
<1>6. ASSUME NEW p \in Processes, ResolveEnds(p)  PROVE RegistryIInv'
  <2> DEFINE c == [op |-> "resolved", name |-> call[p].name, folder |-> call[p].folder, file |-> 0]
  <2>1. c \in Calls /\ call[p].name \in Names
    BY <1>6, RegistryAssumption DEF ResolveEnds, Calls, RegistryIInv, RegistryTypeOK
  <2>2. call[p].folder \in met[p] /\ call[p].folder[1] # Here
    BY <1>6 DEF ResolveEnds, RegistryIInv, SelectionsWereMet
  <2>3. CASE call[p].folder \in recipes
    BY <2>1, <2>2, <2>3, <1>6, CallStep DEF ResolveEnds, Start
  <2>4. CASE call[p].folder \notin recipes
    BY <2>4, <1>2, <1>6, CallStep DEF ResolveEnds, Finish
  <2> QED
    BY <2>3, <2>4
<1> QED
  BY <1>1, <1>3, <1>4, <1>5, <1>6, OpenStep, WriteStep, RemoveStep, EditStep, ProjectGoesStep
  DEF RegistryNext

(* Every reachable state satisfies the inductive invariant: in particular  *)
(* no two processes ever write into one card.  (register)                  *)
THEOREM RegistryInvariance == RegistrySpec => []RegistryIInv
  BY RegistryInitIInv, RegistryNextIInv, PTL DEF RegistrySpec

(* A registration reported done lasts until its name is removed or its     *)
(* card edited, and what resolve returns is what the card named during the *)
(* call, the same folder in every process.  (register, resolve)            *)
THEOREM RegistryKeepsNames == RegistrySpec => []NamesKeepTheirMeaning
<1>1. RegistryIInv => NamesKeepTheirMeaning
  BY DEF RegistryIInv, SelectionsWereMet, NamesKeepTheirMeaning, ResolvedAsRegistered
<1> QED
  BY <1>1, RegistryInvariance, PTL

-----------------------------------------------------------------------------
(***************************************************************************)
(* The record reader gives what was asked for, whatever the table holds,   *)
(* the arguments are and others write meanwhile.                           *)
(***************************************************************************)
(* The record is one that record() makes and has loaded a row, or none.    *)
ReaderWasMade ==
  \E p \in PrimaryKeys, w \in Wheres, k \in SUBSET Keywords, row \in Rows \cup {Null} :
    ~Refused(p, w, k) /\ reader = Loaded(Reader(p, w, k), row)

(* What matches now is counted, and nothing that never matched.            *)
FreshIsWhatMatched ==
  /\ Alone(reader, rows, env) \subseteq fresh
  /\ \A row \in fresh : \E held \in Contents, scope \in Scopes : row \in Alone(reader, held, scope)

RecordIInv ==
  /\ rows \in Contents /\ env \in Scopes /\ shared = FALSE
  /\ reader = Null => fresh = {} /\ shown = {}
  /\ reader # Null =>
       /\ ReaderWasMade /\ FreshIsWhatMatched
       /\ shown \subseteq {reader.result} \ {Null}
       /\ reader.result # Null => reader.result \in fresh

-----------------------------------------------------------------------------
(* Every record that record() makes, with any row loaded, is one.          *)
LEMMA MadeIsReader ==
  ASSUME NEW p \in PrimaryKeys, NEW w \in Wheres, NEW k \in SUBSET Keywords,
         NEW row \in Rows \cup {Null}
  PROVE  /\ Loaded(Reader(p, w, k), row) \in Readers
         /\ Loaded(Reader(p, w, k), row).result = row
         /\ \A x : Loaded(Loaded(Reader(p, w, k), row), x) = Loaded(Reader(p, w, k), x)
<1>1. /\ Loaded(Reader(p, w, k), row).result = row
      /\ \A x : Loaded(Loaded(Reader(p, w, k), row), x) = Loaded(Reader(p, w, k), x)
  BY DEF Reader, Loaded
<1>2. Loaded(Reader(p, w, k), row) \in Readers
  BY DEF Readers
<1> QED
  BY <1>1, <1>2

(* The row a record has loaded is no part of what it asks for.  (_compile) *)
LEMMA ResultIsNotAsked ==
  ASSUME NEW r \in Readers, NEW x, NEW held, NEW scope
  PROVE  Alone(Loaded(r, x), held, scope) = Alone(r, held, scope)
<1> DEFINE s == Loaded(r, x)
<1>1. /\ s.key = r.key /\ s.where = r.where
      /\ s.options = r.options /\ s.bindings = r.bindings
  BY DEF Readers, Reader, Loaded
<1>2. Compiles(s) <=> Compiles(r)
  BY <1>1 DEF Compiles, Used
<1>3. Matching(s, held, scope) = Matching(r, held, scope)
  BY <1>1 DEF Matching
<1> QED
  BY <1>2, <1>3 DEF Alone

(* What a statement gives is a row of the table.  (output)                 *)
LEMMA AloneIsARow ==
  ASSUME NEW r, NEW held \in Contents, NEW scope, NEW row \in Alone(r, held, scope)
  PROVE  row \in Rows /\ row # Null
  BY RecordAssumption DEF Alone, Matching, Rows

(* A record of a primary key finds only the row of that key: the selector  *)
(* has every column.  (_key_selector)                                      *)
LEMMA AloneAnswersTheKey ==
  ASSUME NEW p \in PrimaryKeys, NEW k \in SUBSET Keywords, NEW x, ~Refused(p, Null, k),
         NEW held \in Contents, NEW scope,
         NEW row \in Alone(Loaded(Reader(p, Null, k), x), held, scope)
  PROVE  row.key = p
<1> DEFINE r == Loaded(Reader(p, Null, k), x)
<1>1. p # Null /\ Len(p) = 2
  BY DEF Refused, KeyRefused
<1>2. p = [i \in 1..2 |-> p[i]]
  BY <1>1, RecordAssumption
<1>3. row.key = [i \in 1..2 |-> row.key[i]]
  BY AloneIsARow, RecordAssumption
<1>4. r.key = p
  BY DEF Reader, Loaded
<1>5. \A i \in DOMAIN p : i \in DOMAIN row.key => row.key[i] = p[i]
  BY <1>4 DEF Alone, Matching
<1> QED
  BY <1>2, <1>3, <1>5

(* A statement that is compiled has used every keyword.  (_compile)        *)
LEMMA AloneUsesKeywords ==
  ASSUME NEW p \in PrimaryKeys, NEW w \in Wheres, NEW k \in SUBSET Keywords, NEW x,
         NEW held, NEW scope,
         NEW row \in Alone(Loaded(Reader(p, w, k), x), held, scope)
  PROVE  \A n \in k : LET r == Loaded(Reader(p, w, k), x) IN
                        Native(n) \in r.options \/ n \in Used(r)
<1> DEFINE r == Loaded(Reader(p, w, k), x)
<1>1. Used(r) = r.bindings
  BY DEF Alone, Compiles
<1>2. /\ r.options = {Native(n) : n \in k} \cap SelectOptions
      /\ r.bindings = {n \in k : Native(n) \notin SelectOptions}
  BY DEF Reader, Loaded
<1> QED
  BY <1>1, <1>2

-----------------------------------------------------------------------------
(* A new record has shown nothing and has loaded nothing.  (record)        *)
LEMMA RecordStep ==
  ASSUME RecordIInv, NEW p \in PrimaryKeys, NEW w \in Wheres, NEW k \in SUBSET Keywords,
         Record(p, w, k)
  PROVE  RecordIInv'
<1> USE DEF RecordIInv, Record
<1> DEFINE r == Reader(p, w, k)
<1>1. r.result = Null /\ r = Loaded(r, Null)
  BY DEF Reader, Loaded
<1>2. reader' = Loaded(r, Null) /\ reader'.result = Null
  BY <1>1
<1>3. reader' # Null
  <2>1. Loaded(r, Null) \in Readers
    BY MadeIsReader
  <2> QED
    BY <2>1, <1>2, RecordAssumption
<1>4. ReaderWasMade'
  BY <1>2 DEF ReaderWasMade
<1>5. FreshIsWhatMatched'
  BY DEF FreshIsWhatMatched
<1> QED
  BY <1>2, <1>3, <1>4, <1>5

(* A load changes nothing in what the record asks for.  (output, refresh)  *)
LEMMA LoadStep ==
  ASSUME ReaderWasMade, NEW row \in Rows \cup {Null},
         reader' = Loaded(reader, row)
  PROVE  /\ ReaderWasMade' /\ reader' # Null /\ reader'.result = row
         /\ \A held, scope : Alone(reader', held, scope) = Alone(reader, held, scope)
<1>1. PICK p \in PrimaryKeys, w \in Wheres, k \in SUBSET Keywords, old \in Rows \cup {Null} :
        ~Refused(p, w, k) /\ reader = Loaded(Reader(p, w, k), old)
  BY DEF ReaderWasMade
<1>2. reader \in Readers
  BY <1>1, MadeIsReader
<1>3. reader' = Loaded(Reader(p, w, k), row)
  BY <1>1, MadeIsReader
<1>4. reader' # Null /\ reader'.result = row
  BY <1>3, MadeIsReader, RecordAssumption
<1>5. ReaderWasMade'
  BY <1>1, <1>3 DEF ReaderWasMade
<1>6. \A held, scope : Alone(reader', held, scope) = Alone(reader, held, scope)
  BY <1>2, ResultIsNotAsked
<1> QED
  BY <1>4, <1>5, <1>6

(* output gives the row that is loaded, or loads one that matches alone.   *)
LEMMA OutputStep ==
  ASSUME RecordIInv, Output
  PROVE  RecordIInv'
<1> USE DEF RecordIInv
<1>1. PICK row \in fresh : Give(row) /\ reader.result \in {Null, row} /\ row # Null
  <2>1. CASE reader.result # Null
    BY <2>1 DEF Output
  <2>2. CASE reader.result = Null
    BY <2>2, AloneIsARow DEF Output, FreshIsWhatMatched
  <2> QED
    BY <2>1, <2>2
<1>2. row \in Rows
  BY AloneIsARow DEF Output, FreshIsWhatMatched
<1>3. /\ ReaderWasMade' /\ reader' # Null /\ reader'.result = row
      /\ \A held, scope : Alone(reader', held, scope) = Alone(reader, held, scope)
  BY <1>1, <1>2, LoadStep DEF Output, Give
<1>4. FreshIsWhatMatched'
  BY <1>3 DEF Output, FreshIsWhatMatched
<1>5. /\ shown' = shown \cup {row} /\ shared' = FALSE
      /\ UNCHANGED <<rows, env, fresh>> /\ reader # Null
  BY <1>1 DEF Output, Give, Copies
<1>6. shown' \subseteq {row} \ {Null}
  BY <1>1, <1>5
<1> QED
  BY <1>1, <1>3, <1>4, <1>5, <1>6

(* refresh forgets what was shown, whether the reload succeeds or not.     *)
LEMMA RefreshStep ==
  ASSUME RecordIInv, Refresh
  PROVE  RecordIInv'
<1> USE DEF RecordIInv, Refresh
<1>1. PICK row \in Alone(reader, rows, env) \cup {Null} : reader' = Loaded(reader, row)
  OBVIOUS
<1>2. row \in Rows \cup {Null}
  BY AloneIsARow
<1>3. /\ ReaderWasMade' /\ reader' # Null /\ reader'.result = row
      /\ \A held, scope : Alone(reader', held, scope) = Alone(reader, held, scope)
  BY <1>1, <1>2, LoadStep
<1>4. FreshIsWhatMatched'
  BY <1>3 DEF FreshIsWhatMatched
<1> QED
  BY <1>1, <1>3, <1>4

(* What happens to the rows and the scope adds to what has matched.        *)
LEMMA MeanwhileStep ==
  ASSUME RecordIInv, Meanwhile
  PROVE  RecordIInv'
<1> USE DEF RecordIInv, Meanwhile
<1>1. rows' \in Contents /\ env' \in Scopes
  OBVIOUS
<1>2. CASE reader = Null
  BY <1>1, <1>2
<1>3. CASE reader # Null
  <2>1. ReaderWasMade'
    BY <1>3 DEF ReaderWasMade
  <2>2. FreshIsWhatMatched'
    BY <1>1, <1>3 DEF FreshIsWhatMatched
  <2> QED
    BY <1>1, <1>3, <2>1, <2>2
<1> QED
  BY <1>2, <1>3

-----------------------------------------------------------------------------
(* The invariant holds before a record is made ...                         *)
LEMMA RecordInitIInv == RecordInit => RecordIInv
  BY DEF RecordInit, RecordIInv

(* ... and every step of the record, its caller and the others keeps it.   *)
LEMMA RecordNextIInv == RecordIInv /\ [RecordNext]_recordVars => RecordIInv'
<1> SUFFICES ASSUME RecordIInv, [RecordNext]_recordVars  PROVE RecordIInv'
  OBVIOUS
<1>1. CASE UNCHANGED recordVars \/ Scribble
  BY <1>1 DEF recordVars, Scribble, RecordIInv, ReaderWasMade, FreshIsWhatMatched
<1>2. CASE Drop
  BY <1>2 DEF Drop, RecordIInv
<1> QED
  BY <1>1, <1>2, RecordStep, OutputStep, RefreshStep, MeanwhileStep DEF RecordNext

(* The invariant says what was asked for is what is given.                 *)
LEMMA RecordIInvGives == RecordIInv => GivesWhatWasAsked
<1> SUFFICES ASSUME RecordIInv  PROVE GivesWhatWasAsked
  OBVIOUS
<1>1. CASE reader = Null
  <2>1. shown = {} /\ fresh = {}
    BY <1>1 DEF RecordIInv
  <2> QED
    BY <1>1, <2>1, FS_EmptySet
    DEF GivesWhatWasAsked, OutputsAgree, RowsAreSinceRefresh, AnswersTheKey, NoKeywordIsLost
<1>2. CASE reader # Null
  <2>1. PICK p \in PrimaryKeys, w \in Wheres, k \in SUBSET Keywords, old \in Rows \cup {Null} :
          ~Refused(p, w, k) /\ reader = Loaded(Reader(p, w, k), old)
    BY <1>2 DEF RecordIInv, ReaderWasMade
  <2>2. reader.where = w /\ reader.given = k /\ (w = Null => reader.key = p)
    BY <2>1 DEF Reader, Loaded
  <2>3. shown \subseteq fresh
    BY <1>2 DEF RecordIInv
  <2>4. OutputsAgree
    <3>1. shown \subseteq {reader.result}
      BY <1>2 DEF RecordIInv
    <3>2. shown = {} \/ shown = {reader.result}
      BY <3>1
    <3>3. Cardinality(shown) = 0 \/ Cardinality(shown) = 1
      BY <3>2, FS_EmptySet, FS_Singleton
    <3> QED
      BY <3>3 DEF OutputsAgree
  <2>5. \A row \in fresh : \E held \in Contents, scope \in Scopes : row \in Alone(reader, held, scope)
    BY <1>2 DEF RecordIInv, FreshIsWhatMatched
  <2>6. AnswersTheKey
    BY <2>1, <2>2, <2>3, <2>5, AloneAnswersTheKey DEF AnswersTheKey
  <2>7. NoKeywordIsLost
    BY <2>1, <2>2, <2>3, <2>5, AloneUsesKeywords DEF NoKeywordIsLost
  <2> QED
    BY <2>3, <2>4, <2>6, <2>7 DEF GivesWhatWasAsked, RowsAreSinceRefresh
<1> QED
  BY <1>1, <1>2

(* Every reachable state satisfies the inductive invariant: in particular  *)
(* a loaded row was the one match at some time since the last refresh.     *)
(* (SqlRecord)                                                             *)
THEOREM RecordInvariance == RecordSpec => []RecordIInv
  BY RecordInitIInv, RecordNextIInv, PTL DEF RecordSpec

(* A record gives one row until it is refreshed, a row that matched alone  *)
(* since then, that of the key it was asked for, and only if every keyword *)
(* of the call took effect.  (record, output, refresh)                     *)
THEOREM RecordGives == RecordSpec => []GivesWhatWasAsked
  BY RecordInvariance, RecordIInvGives, PTL

-----------------------------------------------------------------------------
(***************************************************************************)
(* Leaving a scope puts back what the scope changed and keeps what was     *)
(* assigned inside, for all threads, keys and values, at every depth.      *)
(***************************************************************************)
ScopeRecord == [saved : Dictionaries, added : Dictionaries]
FrameRecord == [entry : Dictionaries, over : SUBSET Keys, touched : SUBSET Keys]

EnvironmentTypeOK ==
  /\ values \in [Threads -> Dictionaries \cup {None}]
  /\ scopes \in [Threads -> Seq(ScopeRecord)]
  /\ frames \in [Threads -> Seq(FrameRecord)]

(* A scope put aside what it found under the keys it overlays, and noted   *)
(* those it found nothing under.                                           *)
SavedAsFound(scope, frame) ==
  /\ DOMAIN scope.saved = frame.over \cap DOMAIN frame.entry
  /\ \A k \in DOMAIN scope.saved : scope.saved[k] = frame.entry[k]
  /\ DOMAIN scope.added = frame.over \ DOMAIN frame.entry

(* What the code inside a scope has not assigned is what the scope added   *)
(* or found there; what it overlaid does not matter, it is put back.       *)
LeftAsOverlaid(scope, frame, inside) ==
  \A k \in Keys \ (frame.touched \cup DOMAIN scope.saved) :
    IF k \in DOMAIN scope.added THEN k \in DOMAIN inside /\ inside[k] = scope.added[k]
    ELSE Same(inside, frame.entry, k)

(* Inside a scope is the mapping the next scope found, or the live one.    *)
Inside(fs, i, current) == IF i = Len(fs) THEN current ELSE fs[i + 1].entry

(* The scopes of one thread, each inside the one before it. *)
Nested(current, ss, fs) ==
  /\ Len(ss) = Len(fs)
  /\ \A i \in 1..Len(fs) :
       SavedAsFound(ss[i], fs[i]) /\ LeftAsOverlaid(ss[i], fs[i], Inside(fs, i, current))
  /\ \A i \in 1..(Len(fs) - 1) : fs[i + 1].touched \subseteq fs[i].touched

EnvironmentIInv ==
  EnvironmentTypeOK /\ \A t \in Threads : Nested(Current(t), scopes[t], frames[t])

-----------------------------------------------------------------------------
(* Dictionaries and sequences. *)

LEMMA DictionaryIs ==
  ASSUME NEW m \in Dictionaries
  PROVE  /\ DOMAIN m \subseteq Keys /\ m # None
         /\ \A k \in DOMAIN m : m[k] \in Values
  BY EnvironmentAssumption DEF Dictionaries

LEMMA DictionaryFrom ==
  ASSUME NEW names \in SUBSET Keys, NEW m \in [names -> Values]
  PROVE  m \in Dictionaries
  BY DEF Dictionaries

LEMMA WithoutIs ==
  ASSUME NEW m \in Dictionaries, NEW keys
  PROVE  /\ Without(m, keys) \in Dictionaries
         /\ DOMAIN Without(m, keys) = DOMAIN m \ keys
         /\ \A k \in DOMAIN m \ keys : Without(m, keys)[k] = m[k]
<1>1. Without(m, keys) \in [DOMAIN m \ keys -> Values]
  BY DictionaryIs DEF Without
<1>2. DOMAIN m \ keys \in SUBSET Keys
  BY DictionaryIs
<1>3. Without(m, keys) \in Dictionaries
  BY <1>1, <1>2, DictionaryFrom
<1> QED
  BY <1>3 DEF Without

LEMMA OverlayIs ==
  ASSUME NEW m \in Dictionaries, NEW over \in Dictionaries
  PROVE  /\ Overlay(m, over) \in Dictionaries
         /\ DOMAIN Overlay(m, over) = DOMAIN over \cup DOMAIN m
         /\ \A k \in DOMAIN over \cup DOMAIN m :
              Overlay(m, over)[k] = IF k \in DOMAIN over THEN over[k] ELSE m[k]
<1>1. Overlay(m, over) \in [DOMAIN over \cup DOMAIN m -> Values]
  BY DictionaryIs DEF Overlay
<1>2. DOMAIN over \cup DOMAIN m \in SUBSET Keys
  BY DictionaryIs
<1>3. Overlay(m, over) \in Dictionaries
  BY <1>1, <1>2, DictionaryFrom
<1> QED
  BY <1>3 DEF Overlay

LEMMA SavedIs ==
  ASSUME NEW m \in Dictionaries, NEW over \in Dictionaries
  PROVE  /\ Saved(m, over) \in Dictionaries
         /\ DOMAIN Saved(m, over) = DOMAIN over \cap DOMAIN m
         /\ \A k \in DOMAIN over \cap DOMAIN m : Saved(m, over)[k] = m[k]
<1>1. Saved(m, over) \in [DOMAIN over \cap DOMAIN m -> Values]
  BY DictionaryIs DEF Saved
<1>2. DOMAIN over \cap DOMAIN m \in SUBSET Keys
  BY DictionaryIs
<1>3. Saved(m, over) \in Dictionaries
  BY <1>1, <1>2, DictionaryFrom
<1> QED
  BY <1>3 DEF Saved

LEMMA SeqIs ==
  ASSUME NEW S, NEW s \in Seq(S)
  PROVE  Len(s) \in Nat /\ DOMAIN s = 1..Len(s) /\ \A i \in 1..Len(s) : s[i] \in S
  BY LenProperties, ElementOfSeq

LEMMA FrontIs ==
  ASSUME NEW S, NEW s \in Seq(S), s # << >>
  PROVE  /\ Front(s) \in Seq(S) /\ Len(s) \in Nat \ {0}
         /\ Len(Front(s)) = Len(s) - 1
         /\ \A i \in 1..(Len(s) - 1) : Front(s)[i] = s[i]
<1> DEFINE n == Len(s) - 1
<1>1. Len(s) \in Nat \ {0} /\ n \in Nat /\ \A i \in 1..n : s[i] \in S
  BY EmptySeq, ElementOfSeq
<1>2. /\ SubSeq(s, 1, n) \in Seq(S)
      /\ Len(SubSeq(s, 1, n)) = IF 1 <= n THEN n - 1 + 1 ELSE 0
      /\ \A i \in 1..(n - 1 + 1) : SubSeq(s, 1, n)[i] = s[1 + i - 1]
  BY <1>1, SubSeqProperties
<1>3. n - 1 + 1 = n /\ \A i \in 1..n : 1 + i - 1 = i
  BY <1>1
<1> QED
  BY <1>1, <1>2, <1>3 DEF Front

-----------------------------------------------------------------------------
(* A direct change is marked in every open scope.                          *)
LEMMA ChangeNests ==
  ASSUME NEW current \in Dictionaries, NEW changed \in Dictionaries, NEW keys \in SUBSET Keys,
         NEW ss \in Seq(ScopeRecord), NEW fs \in Seq(FrameRecord),
         Nested(current, ss, fs), \A k \in Keys \ keys : Same(changed, current, k)
  PROVE  Marked(fs, keys) \in Seq(FrameRecord) /\ Nested(changed, ss, Marked(fs, keys))
<1> DEFINE gs == Marked(fs, keys)
<1>7. gs = [k \in DOMAIN fs |-> [fs[k] EXCEPT !.touched = @ \cup keys]]
  BY DEF Marked
<1> HIDE DEF gs
<1>1. Len(fs) \in Nat /\ DOMAIN fs = 1..Len(fs) /\ \A i \in 1..Len(fs) : fs[i] \in FrameRecord
  BY SeqIs
<1>2. \A i \in 1..Len(fs) : /\ gs[i].entry = fs[i].entry /\ gs[i].over = fs[i].over
                            /\ gs[i].touched = fs[i].touched \cup keys
                            /\ gs[i] \in FrameRecord
  BY <1>1, <1>7 DEF FrameRecord
<1>3. gs \in Seq(FrameRecord) /\ Len(gs) = Len(fs)
  <2>1. DOMAIN gs = 1..Len(fs) /\ gs \in [1..Len(fs) -> FrameRecord]
    BY <1>1, <1>2, <1>7
  <2>2. gs \in Seq(FrameRecord)
    BY <1>1, <2>1, SeqDef
  <2> QED
    BY <1>1, <2>1, <2>2, LenProperties
<1>4. \A i \in 1..Len(gs) : SavedAsFound(ss[i], gs[i])
  BY <1>2, <1>3 DEF Nested, SavedAsFound
<1>5. ASSUME NEW i \in 1..Len(gs)
      PROVE  LeftAsOverlaid(ss[i], gs[i], Inside(gs, i, changed))
  <2>1. \A k \in Keys \ keys : Same(Inside(gs, i, changed), Inside(fs, i, current), k)
    <3>1. CASE i = Len(fs)
      <4>1. Inside(gs, i, changed) = changed /\ Inside(fs, i, current) = current
        BY <3>1, <1>3 DEF Inside
      <4> QED
        BY <4>1
    <3>2. CASE i # Len(fs)
      <4>1. i + 1 \in 1..Len(fs)
        <5>1. i \in 1..Len(fs) /\ Len(fs) \in Nat
          BY <1>1, <1>3
        <5> QED
          BY <5>1, <3>2
      <4>2. Inside(gs, i, changed) = Inside(fs, i, current)
        BY <3>2, <4>1, <1>2, <1>3 DEF Inside
      <4> QED
        BY <4>2 DEF Same
    <3> QED
      BY <3>1, <3>2
  <2>2. LeftAsOverlaid(ss[i], fs[i], Inside(fs, i, current))
    BY <1>3 DEF Nested
  <2> QED
    <3> SUFFICES ASSUME NEW k \in Keys, k \notin gs[i].touched, k \notin DOMAIN ss[i].saved
                 PROVE  IF k \in DOMAIN ss[i].added
                        THEN /\ k \in DOMAIN Inside(gs, i, changed)
                             /\ Inside(gs, i, changed)[k] = ss[i].added[k]
                        ELSE Same(Inside(gs, i, changed), gs[i].entry, k)
      BY DEF LeftAsOverlaid
    <3>1. k \notin keys /\ k \notin fs[i].touched /\ gs[i].entry = fs[i].entry
      BY <1>2, <1>3
    <3>2. IF k \in DOMAIN ss[i].added
          THEN /\ k \in DOMAIN Inside(fs, i, current)
               /\ Inside(fs, i, current)[k] = ss[i].added[k]
          ELSE Same(Inside(fs, i, current), fs[i].entry, k)
      BY <2>2, <3>1 DEF LeftAsOverlaid
    <3>3. Same(Inside(gs, i, changed), Inside(fs, i, current), k)
      BY <2>1, <3>1
    <3> QED
      BY <3>1, <3>2, <3>3, Zenon DEF Same
<1>6. \A i \in 1..(Len(gs) - 1) : gs[i + 1].touched \subseteq gs[i].touched
  <2> SUFFICES ASSUME NEW i \in 1..(Len(gs) - 1)  PROVE gs[i + 1].touched \subseteq gs[i].touched
    OBVIOUS
  <2>1. i \in 1..Len(fs) /\ i + 1 \in 1..Len(fs) /\ i \in 1..(Len(fs) - 1)
    BY <1>1, <1>3
  <2> QED
    BY <2>1, <1>2 DEF Nested
<1>8. Nested(changed, ss, gs)
  BY <1>3, <1>4, <1>5, <1>6 DEF Nested
<1> QED
  BY <1>3, <1>8 DEF gs

(* A scope opens over the live mapping.  (temp_env)                        *)
LEMMA EnterNests ==
  ASSUME NEW current \in Dictionaries, NEW over \in Dictionaries,
         NEW ss \in Seq(ScopeRecord), NEW fs \in Seq(FrameRecord),
         NEW scope \in ScopeRecord, NEW frame \in FrameRecord,
         scope.saved = Saved(current, over), scope.added = Added(current, over),
         frame.entry = current, frame.over = DOMAIN over, frame.touched = {},
         Nested(current, ss, fs)
  PROVE  /\ Append(ss, scope) \in Seq(ScopeRecord) /\ Append(fs, frame) \in Seq(FrameRecord)
         /\ Nested(Overlay(current, over), Append(ss, scope), Append(fs, frame))
<1> DEFINE rs == Append(ss, scope)
           gs == Append(fs, frame)
           changed == Overlay(current, over)
<1>2. /\ rs \in Seq(ScopeRecord) /\ gs \in Seq(FrameRecord)
      /\ Len(fs) \in Nat /\ Len(ss) = Len(fs) /\ Len(rs) = Len(fs) + 1 /\ Len(gs) = Len(fs) + 1
      /\ \A i \in 1..Len(fs) : rs[i] = ss[i] /\ gs[i] = fs[i]
      /\ rs[Len(fs) + 1] = scope /\ gs[Len(fs) + 1] = frame
  BY AppendProperties, LenProperties DEF Nested
<1> HIDE DEF rs, gs, changed
<1>1. /\ DOMAIN scope.saved = DOMAIN over \cap DOMAIN current
      /\ \A k \in DOMAIN over \cap DOMAIN current : scope.saved[k] = current[k]
      /\ DOMAIN scope.added = DOMAIN over \ DOMAIN current
      /\ \A k \in DOMAIN over \ DOMAIN current : scope.added[k] = over[k]
  <2>1. /\ DOMAIN Saved(current, over) = DOMAIN over \cap DOMAIN current
        /\ \A k \in DOMAIN over \cap DOMAIN current : Saved(current, over)[k] = current[k]
    BY SavedIs
  <2>2. /\ DOMAIN Added(current, over) = DOMAIN over \ DOMAIN current
        /\ \A k \in DOMAIN over \ DOMAIN current : Added(current, over)[k] = over[k]
    BY WithoutIs DEF Added
  <2> QED
    BY <2>1, <2>2
<1>3. SavedAsFound(scope, frame)
  BY <1>1 DEF SavedAsFound
<1>4. LeftAsOverlaid(scope, frame, changed)
  <2> SUFFICES ASSUME NEW k \in Keys, k \notin DOMAIN scope.saved
               PROVE  IF k \in DOMAIN scope.added
                      THEN k \in DOMAIN changed /\ changed[k] = scope.added[k]
                      ELSE Same(changed, frame.entry, k)
    BY DEF LeftAsOverlaid
  <2>1. /\ DOMAIN changed = DOMAIN over \cup DOMAIN current
        /\ \A n \in DOMAIN over \cup DOMAIN current :
             changed[n] = IF n \in DOMAIN over THEN over[n] ELSE current[n]
    BY OverlayIs DEF changed
  <2> QED
    BY <2>1, <1>1 DEF Same
<1>5. ASSUME NEW i \in 1..Len(fs)
      PROVE  /\ SavedAsFound(rs[i], gs[i])
             /\ LeftAsOverlaid(rs[i], gs[i], Inside(gs, i, changed))
  <2>1. Inside(gs, i, changed) = Inside(fs, i, current)
    BY <1>2 DEF Inside
  <2> QED
    BY <2>1, <1>2 DEF Nested
<1>6. LeftAsOverlaid(rs[Len(gs)], gs[Len(gs)], Inside(gs, Len(gs), changed))
  BY <1>2, <1>4 DEF Inside
<1>7. \A i \in 1..Len(fs) : gs[i + 1].touched \subseteq gs[i].touched
  <2> SUFFICES ASSUME NEW i \in 1..Len(fs)  PROVE gs[i + 1].touched \subseteq gs[i].touched
    OBVIOUS
  <2>1. CASE i = Len(fs)
    BY <2>1, <1>2
  <2>2. CASE i < Len(fs)
    <3>1. i \in 1..(Len(fs) - 1) /\ i + 1 \in 1..Len(fs)
      BY <2>2, <1>2
    <3> QED
      BY <3>1, <1>2 DEF Nested
  <2> QED
    BY <2>1, <2>2, <1>2
<1>8. /\ \A i \in 1..Len(gs) : i \in 1..Len(fs) \/ i = Len(gs)
      /\ Len(gs) - 1 = Len(fs)
  BY <1>2
<1>9. SavedAsFound(rs[Len(gs)], gs[Len(gs)])
  BY <1>2, <1>3
<1>10. Nested(changed, rs, gs)
  BY <1>2, <1>5, <1>6, <1>7, <1>8, <1>9 DEF Nested
<1> QED
  BY <1>2, <1>10 DEF rs, gs, changed

(* What a scope leaves behind.  (temp_env)                                 *)
LEMMA RestoredIs ==
  ASSUME NEW current \in Dictionaries, NEW scope \in ScopeRecord
  PROVE  /\ Restored(current, scope) \in Dictionaries
         /\ DOMAIN Restored(current, scope) =
              DOMAIN scope.saved \cup (DOMAIN current \ StillAdded(current, scope))
         /\ \A k \in DOMAIN scope.saved : Restored(current, scope)[k] = scope.saved[k]
         /\ \A k \in DOMAIN current \ (StillAdded(current, scope) \cup DOMAIN scope.saved) :
              Restored(current, scope)[k] = current[k]
<1> DEFINE gone == StillAdded(current, scope)
           kept == Without(current, gone)
           saved == scope.saved
<1>1. saved \in Dictionaries
  BY DEF ScopeRecord
<1>2. /\ kept \in Dictionaries /\ DOMAIN kept = DOMAIN current \ gone
      /\ \A k \in DOMAIN current \ gone : kept[k] = current[k]
  BY WithoutIs
<1>3. Restored(current, scope) = Overlay(kept, saved)
  BY DEF Restored
<1> HIDE DEF gone, kept, saved
<1>4. /\ Overlay(kept, saved) \in Dictionaries
      /\ DOMAIN Overlay(kept, saved) = DOMAIN saved \cup DOMAIN kept
      /\ \A k \in DOMAIN saved \cup DOMAIN kept :
           Overlay(kept, saved)[k] = IF k \in DOMAIN saved THEN saved[k] ELSE kept[k]
  BY <1>1, <1>2, OverlayIs
<1>5. \A k \in DOMAIN current \ (gone \cup DOMAIN saved) :
        Overlay(kept, saved)[k] = current[k]
  BY <1>2, <1>4
<1> QED
  BY <1>2, <1>3, <1>4, <1>5 DEF gone, saved

(* The innermost scope puts back what was not assigned, and what it saved  *)
(* in any case.                                                            *)
LEMMA InnermostPutsBack ==
  ASSUME NEW current \in Dictionaries, NEW scope \in ScopeRecord, NEW frame \in FrameRecord,
         SavedAsFound(scope, frame), LeftAsOverlaid(scope, frame, current),
         NEW k \in Keys, k \notin frame.touched \/ k \in DOMAIN scope.saved
  PROVE  Same(Restored(current, scope), frame.entry, k)
<1> DEFINE after == Restored(current, scope)
<1>1. /\ DOMAIN after = DOMAIN scope.saved \cup (DOMAIN current \ StillAdded(current, scope))
      /\ \A n \in DOMAIN scope.saved : after[n] = scope.saved[n]
      /\ \A n \in DOMAIN current \ (StillAdded(current, scope) \cup DOMAIN scope.saved) :
           after[n] = current[n]
  BY RestoredIs
<1> HIDE DEF after
<1>2. CASE k \in DOMAIN scope.saved
  BY <1>1, <1>2 DEF SavedAsFound, Same, after
<1>3. CASE k \notin DOMAIN scope.saved
  <2>1. IF k \in DOMAIN scope.added THEN k \in DOMAIN current /\ current[k] = scope.added[k]
        ELSE Same(current, frame.entry, k)
    BY <1>3 DEF LeftAsOverlaid
  <2>2. CASE k \in DOMAIN scope.added
    <3>1. k \in StillAdded(current, scope)
      BY <2>1, <2>2 DEF StillAdded
    <3>2. k \notin DOMAIN frame.entry
      BY <2>2 DEF SavedAsFound
    <3>3. k \notin DOMAIN after
      BY <3>1, <1>1, <1>3
    <3> QED
      BY <3>2, <3>3 DEF Same, after
  <2>3. CASE k \notin DOMAIN scope.added
    <3>1. k \notin StillAdded(current, scope)
      BY <2>3 DEF StillAdded
    <3>2. Same(after, current, k)
      BY <3>1, <1>1, <1>3 DEF Same
    <3>3. Same(current, frame.entry, k)
      BY <2>1, <2>3
    <3> QED
      BY <3>2, <3>3, Zenon DEF Same, after
  <2> QED
    BY <2>2, <2>3
<1> QED
  BY <1>2, <1>3

(* The scope around it finds what it would have found without it.          *)
LEMMA LeaveNests ==
  ASSUME NEW current \in Dictionaries, NEW ss \in Seq(ScopeRecord), NEW fs \in Seq(FrameRecord),
         ss # << >>, Nested(current, ss, fs)
  PROVE  /\ Front(ss) \in Seq(ScopeRecord) /\ Front(fs) \in Seq(FrameRecord)
         /\ Restored(current, Last(ss)) \in Dictionaries
         /\ Nested(Restored(current, Last(ss)), Front(ss), Front(fs))
         /\ Last(ss) \in ScopeRecord /\ Last(fs) \in FrameRecord
         /\ SavedAsFound(Last(ss), Last(fs)) /\ LeftAsOverlaid(Last(ss), Last(fs), current)
         /\ Len(Front(ss)) < Len(ss)
<1> DEFINE n == Len(fs)
           rs == Front(ss)
           gs == Front(fs)
           after == Restored(current, Last(ss))
<1>1. /\ Len(ss) = n /\ n \in Nat \ {0} /\ rs \in Seq(ScopeRecord) /\ Len(rs) = n - 1
      /\ \A i \in 1..(n - 1) : rs[i] = ss[i]
  BY FrontIs DEF Nested
<1>2. fs # << >>
  BY <1>1, EmptySeq
<1>3. /\ gs \in Seq(FrameRecord) /\ Len(gs) = n - 1
      /\ \A i \in 1..(n - 1) : gs[i] = fs[i]
  BY <1>2, FrontIs
<1>4. /\ Last(ss) = ss[n] /\ Last(fs) = fs[n]
      /\ ss[n] \in ScopeRecord /\ fs[n] \in FrameRecord
  BY <1>1, ElementOfSeq DEF Last
<1>5. /\ SavedAsFound(ss[n], fs[n]) /\ LeftAsOverlaid(ss[n], fs[n], current)
  BY <1>1 DEF Nested, Inside
<1>6. \A k \in Keys \ fs[n].touched : Same(after, fs[n].entry, k)
  BY <1>4, <1>5, InnermostPutsBack
<1>7. after \in Dictionaries
  BY <1>4, RestoredIs
<1> HIDE DEF n, rs, gs, after
<1>8. ASSUME NEW i \in 1..Len(gs)
      PROVE  /\ SavedAsFound(rs[i], gs[i])
             /\ LeftAsOverlaid(rs[i], gs[i], Inside(gs, i, after))
  <2>1. /\ i \in 1..(n - 1) /\ i \in 1..n /\ i + 1 \in 1..n /\ i # n
        /\ rs[i] = ss[i] /\ gs[i] = fs[i]
    BY <1>1, <1>3
  <2>2. SavedAsFound(ss[i], fs[i]) /\ LeftAsOverlaid(ss[i], fs[i], Inside(fs, i, current))
    BY <2>1 DEF Nested, n
  <2>3. Inside(fs, i, current) = fs[i + 1].entry
    BY <2>1 DEF Inside, n
  <2>4. CASE i + 1 < n
    <3>1. Inside(gs, i, after) = fs[i + 1].entry
      BY <2>1, <2>4, <1>1, <1>3 DEF Inside
    <3> QED
      BY <2>1, <2>2, <2>3, <3>1
  <2>5. CASE i + 1 = n
    <3>1. Inside(gs, i, after) = after
      BY <2>1, <2>5, <1>1, <1>3 DEF Inside
    <3>2. fs[n].touched \subseteq fs[i].touched
      BY <2>1, <2>5 DEF Nested, n
    <3>3. LeftAsOverlaid(ss[i], fs[i], after)
      <4> SUFFICES ASSUME NEW k \in Keys, k \notin fs[i].touched, k \notin DOMAIN ss[i].saved
                   PROVE  IF k \in DOMAIN ss[i].added
                          THEN k \in DOMAIN after /\ after[k] = ss[i].added[k]
                          ELSE Same(after, fs[i].entry, k)
        BY DEF LeftAsOverlaid
      <4>1. IF k \in DOMAIN ss[i].added
            THEN k \in DOMAIN fs[n].entry /\ fs[n].entry[k] = ss[i].added[k]
            ELSE Same(fs[n].entry, fs[i].entry, k)
        BY <2>2, <2>3, <2>5 DEF LeftAsOverlaid
      <4>2. Same(after, fs[n].entry, k)
        BY <3>2, <1>6
      <4> QED
        BY <4>1, <4>2, Zenon DEF Same
    <3> QED
      BY <2>1, <2>2, <3>1, <3>3
  <2> QED
    BY <2>1, <2>4, <2>5, <1>1
<1>9. \A i \in 1..(Len(gs) - 1) : gs[i + 1].touched \subseteq gs[i].touched
  <2> SUFFICES ASSUME NEW i \in 1..(Len(gs) - 1)  PROVE gs[i + 1].touched \subseteq gs[i].touched
    OBVIOUS
  <2>1. /\ i \in 1..(n - 1) /\ i + 1 \in 1..(n - 1)
        /\ gs[i] = fs[i] /\ gs[i + 1] = fs[i + 1]
    BY <1>1, <1>3
  <2> QED
    BY <2>1 DEF Nested, n
<1>10. Nested(after, rs, gs)
  BY <1>1, <1>3, <1>8, <1>9 DEF Nested
<1> QED
  BY <1>1, <1>3, <1>4, <1>5, <1>7, <1>10 DEF rs, gs, after

-----------------------------------------------------------------------------
(* What the code outside a scope sees when it is left. *)
LEMMA LeavePutsBack ==
  ASSUME EnvironmentIInv, NEW t \in Threads, Leave(t)
  PROVE  PutBack(t) /\ AssignedStays(t)
<1> DEFINE current == Current(t)
           scope == Last(scopes[t])
           frame == Last(frames[t])
<1>1. current \in Dictionaries
  BY EnvironmentAssumption DEF EnvironmentIInv, EnvironmentTypeOK, Current
<1>2. /\ scope \in ScopeRecord /\ frame \in FrameRecord
      /\ SavedAsFound(scope, frame) /\ LeftAsOverlaid(scope, frame, current)
  BY <1>1, LeaveNests DEF EnvironmentIInv, EnvironmentTypeOK, Leave
<1>3. values'[t] = Restored(current, scope)
  BY DEF EnvironmentIInv, EnvironmentTypeOK, Leave
<1>4. DOMAIN scope.saved = frame.over \cap DOMAIN frame.entry
  BY <1>2 DEF SavedAsFound
<1> HIDE DEF current, scope, frame
<1>5. PutBack(t)
  <2> SUFFICES ASSUME NEW k \in Keys,
                      k \notin frame.touched \/ (k \in frame.over /\ k \in DOMAIN frame.entry)
               PROVE  Same(values'[t], frame.entry, k)
    BY DEF PutBack, frame
  <2> QED
    BY <1>1, <1>2, <1>3, <1>4, InnermostPutsBack
<1>6. AssignedStays(t)
  <2> SUFFICES ASSUME NEW k \in Keys,
                      \/ k \notin frame.over
                      \/ /\ k \notin DOMAIN frame.entry
                         /\ ~(k \in DOMAIN current /\ current[k] = scope.added[k])
               PROVE  Same(values'[t], current, k)
    BY DEF AssignedStays, frame, current, scope
  <2>1. DOMAIN scope.added = frame.over \ DOMAIN frame.entry
    BY <1>2 DEF SavedAsFound
  <2>2. k \notin DOMAIN scope.saved
    BY <1>4
  <2>3. CASE k \in DOMAIN current
    <3>1. k \notin StillAdded(current, scope)
      BY <2>1, <2>3 DEF StillAdded
    <3>2. k \in DOMAIN Restored(current, scope) /\ Restored(current, scope)[k] = current[k]
      BY <2>2, <2>3, <3>1, <1>1, <1>2, RestoredIs
    <3> QED
      BY <2>3, <3>2, <1>3 DEF Same
  <2>4. CASE k \notin DOMAIN current
    <3>0. DOMAIN Restored(current, scope) =
            DOMAIN scope.saved \cup (DOMAIN current \ StillAdded(current, scope))
      BY <1>1, <1>2, RestoredIs
    <3>1. k \notin DOMAIN Restored(current, scope)
      BY <2>2, <2>4, <3>0
    <3> QED
      BY <2>4, <3>1, <1>3 DEF Same
  <2> QED
    BY <2>3, <2>4
<1> QED
  BY <1>5, <1>6

(* A change of one thread is seen by that thread.                          *)
LEMMA ThreadStep ==
  ASSUME EnvironmentIInv, NEW t \in Threads,
         NEW m \in Dictionaries, NEW ss \in Seq(ScopeRecord), NEW fs \in Seq(FrameRecord),
         values' = [values EXCEPT ![t] = m], scopes' = [scopes EXCEPT ![t] = ss],
         frames' = [frames EXCEPT ![t] = fs], Nested(m, ss, fs)
  PROVE  EnvironmentIInv'
<1>1. EnvironmentTypeOK'
  BY DEF EnvironmentIInv, EnvironmentTypeOK
<1>2. ASSUME NEW u \in Threads  PROVE Nested(Current(u), scopes[u], frames[u])'
  <2>1. CASE u # t
    <3>1. values'[u] = values[u] /\ scopes'[u] = scopes[u] /\ frames'[u] = frames[u]
      BY <2>1 DEF EnvironmentIInv, EnvironmentTypeOK
    <3>2. Current(u)' = Current(u)
      BY <3>1 DEF Current
    <3> QED
      BY <3>1, <3>2 DEF EnvironmentIInv, Nested, SavedAsFound, LeftAsOverlaid, Inside, Same
  <2>2. CASE u = t
    <3>1. values'[t] = m /\ scopes'[t] = ss /\ frames'[t] = fs
      BY DEF EnvironmentIInv, EnvironmentTypeOK
    <3>2. Current(t)' = m
      BY <3>1, DictionaryIs DEF Current
    <3> QED
      BY <2>2, <3>1, <3>2 DEF Nested, SavedAsFound, LeftAsOverlaid, Inside, Same
  <2> QED
    BY <2>1, <2>2
<1> QED
  BY <1>1, <1>2 DEF EnvironmentIInv

(* A direct change of one thread, under some keys.                         *)
LEMMA ChangeStep ==
  ASSUME EnvironmentIInv, NEW t \in Threads, NEW m \in Dictionaries, NEW keys \in SUBSET Keys,
         \A k \in Keys \ keys : Same(m, Current(t), k),
         values' = [values EXCEPT ![t] = m], Touch(t, keys), UNCHANGED scopes
  PROVE  EnvironmentIInv' /\ \A u \in Threads : ~Leaves(u)
<1> DEFINE gs == Marked(frames[t], keys)
<1>1. /\ Current(t) \in Dictionaries /\ Nested(Current(t), scopes[t], frames[t])
      /\ scopes[t] \in Seq(ScopeRecord) /\ frames[t] \in Seq(FrameRecord)
  BY EnvironmentAssumption DEF EnvironmentIInv, EnvironmentTypeOK, Current
<1>2. frames' = [frames EXCEPT ![t] = gs]
  BY DEF Touch
<1>3. gs \in Seq(FrameRecord) /\ Nested(m, scopes[t], gs)
  BY <1>1, ChangeNests
<1> HIDE DEF gs
<1>4. scopes' = [scopes EXCEPT ![t] = scopes[t]]
  BY DEF EnvironmentIInv, EnvironmentTypeOK
<1>5. EnvironmentIInv'
  BY <1>1, <1>2, <1>3, <1>4, ThreadStep
<1>6. \A u \in Threads : ~Leaves(u)
  BY DEF Leaves, EnvironmentIInv, EnvironmentTypeOK
<1> QED
  BY <1>5, <1>6

(* No scope is open before the environment is used.                        *)
LEMMA InitEnvironmentIInv == EnvironmentInit => EnvironmentIInv
<1> SUFFICES ASSUME EnvironmentInit  PROVE EnvironmentIInv
  OBVIOUS
<1>1. /\ << >> \in Seq(ScopeRecord) /\ << >> \in Seq(FrameRecord) /\ Len(<< >>) = 0
  BY EmptySeq
<1>2. EnvironmentTypeOK
  BY <1>1 DEF EnvironmentInit, EnvironmentTypeOK
<1>3. \A t \in Threads : Nested(Current(t), << >>, << >>)
  BY <1>1 DEF Nested
<1> QED
  BY <1>2, <1>3 DEF EnvironmentInit, EnvironmentIInv

(* Each step keeps the scopes nested, and one that closes a scope restores *)
(* what it should.                                                         *)
LEMMA StepRestores ==
  ASSUME EnvironmentIInv, [EnvironmentNext]_environmentVars
  PROVE  EnvironmentIInv' /\ \A t \in Threads : Leaves(t) => PutBack(t) /\ AssignedStays(t)
<1>1. \A t \in Threads :
        /\ Current(t) \in Dictionaries /\ Nested(Current(t), scopes[t], frames[t])
        /\ scopes[t] \in Seq(ScopeRecord) /\ frames[t] \in Seq(FrameRecord)
  BY EnvironmentAssumption DEF EnvironmentIInv, EnvironmentTypeOK, Current
<1>2. ASSUME NEW t \in Threads, NEW over \in Mappings, Enter(t, over)
      PROVE  EnvironmentIInv' /\ \A u \in Threads : ~Leaves(u)
  <2> DEFINE scope == [saved |-> Saved(Current(t), over), added |-> Added(Current(t), over)]
             frame == [entry |-> Current(t), over |-> DOMAIN over, touched |-> {}]
             m == Overlay(Current(t), over)
             rs == Append(scopes[t], scope)
             gs == Append(frames[t], frame)
  <2>1. over \in Dictionaries
    BY EnvironmentAssumption
  <2>2. /\ Saved(Current(t), over) \in Dictionaries /\ Added(Current(t), over) \in Dictionaries
        /\ DOMAIN over \in SUBSET Keys /\ m \in Dictionaries
    BY <1>1, <2>1, SavedIs, WithoutIs, OverlayIs, DictionaryIs DEF Added
  <2>3. /\ scope \in ScopeRecord /\ frame \in FrameRecord
        /\ scope.saved = Saved(Current(t), over) /\ scope.added = Added(Current(t), over)
        /\ frame.entry = Current(t) /\ frame.over = DOMAIN over /\ frame.touched = {}
    BY <1>1, <2>2 DEF ScopeRecord, FrameRecord
  <2>4. values' = [values EXCEPT ![t] = m] /\ scopes' = [scopes EXCEPT ![t] = rs]
        /\ frames' = [frames EXCEPT ![t] = gs]
    BY <1>2 DEF Enter
  <2> HIDE DEF scope, frame
  <2>5. rs \in Seq(ScopeRecord) /\ gs \in Seq(FrameRecord) /\ Nested(m, rs, gs)
    BY <1>1, <2>1, <2>3, EnterNests
  <2>6. Len(rs) = Len(scopes[t]) + 1 /\ Len(scopes[t]) \in Nat
    BY <1>1, <2>3, AppendProperties, LenProperties
  <2> HIDE DEF m, rs, gs
  <2>7. EnvironmentIInv'
    BY <2>2, <2>4, <2>5, ThreadStep
  <2>8. \A u \in Threads : scopes'[u] = IF u = t THEN rs ELSE scopes[u]
    BY <2>4 DEF EnvironmentIInv, EnvironmentTypeOK
  <2>9. \A u \in Threads : Len(scopes[u]) \in Nat
    BY <1>1, LenProperties
  <2> QED
    BY <2>6, <2>7, <2>8, <2>9 DEF Leaves
<1>3. ASSUME NEW t \in Threads, Leave(t)
      PROVE  EnvironmentIInv' /\ \A u \in Threads : Leaves(u) => PutBack(u) /\ AssignedStays(u)
  <2>1. scopes[t] # << >>
    BY <1>3 DEF Leave
  <2>2. /\ Front(scopes[t]) \in Seq(ScopeRecord) /\ Front(frames[t]) \in Seq(FrameRecord)
        /\ Restored(Current(t), Last(scopes[t])) \in Dictionaries
        /\ Nested(Restored(Current(t), Last(scopes[t])), Front(scopes[t]), Front(frames[t]))
    BY <1>1, <2>1, LeaveNests
  <2>3. EnvironmentIInv'
    BY <2>2, <1>3, ThreadStep DEF Leave
  <2>4. \A u \in Threads \ {t} : ~Leaves(u)
    <3>1. \A u \in Threads \ {t} : scopes'[u] = scopes[u]
      BY <1>3 DEF Leave, EnvironmentIInv, EnvironmentTypeOK
    <3>2. \A u \in Threads : Len(scopes[u]) \in Nat
      BY <1>1, LenProperties
    <3> QED
      BY <3>1, <3>2 DEF Leaves
  <2>5. PutBack(t) /\ AssignedStays(t)
    BY <1>3, LeavePutsBack
  <2> QED
    BY <2>3, <2>4, <2>5
<1>4. ASSUME NEW t \in Threads, NEW changes \in Mappings, NEW excludeNone \in BOOLEAN,
             Update(t, changes, excludeNone)
      PROVE  EnvironmentIInv' /\ \A u \in Threads : ~Leaves(u)
  <2> DEFINE kept == Without(changes, {k \in DOMAIN changes : excludeNone /\ changes[k] = None})
             m == Overlay(Current(t), kept)
  <2>1. kept \in Dictionaries
    BY EnvironmentAssumption, WithoutIs
  <2>2. /\ values' = [values EXCEPT ![t] = m] /\ Touch(t, DOMAIN kept) /\ UNCHANGED scopes
    BY <1>4 DEF Update
  <2> HIDE DEF kept
  <2>3. /\ m \in Dictionaries /\ DOMAIN m = DOMAIN kept \cup DOMAIN Current(t)
        /\ \A k \in DOMAIN kept \cup DOMAIN Current(t) :
             m[k] = IF k \in DOMAIN kept THEN kept[k] ELSE Current(t)[k]
    BY <1>1, <2>1, OverlayIs
  <2>4. DOMAIN kept \in SUBSET Keys
    BY <2>1, DictionaryIs
  <2> HIDE DEF m
  <2>5. \A k \in Keys \ DOMAIN kept : Same(m, Current(t), k)
    BY <2>3 DEF Same
  <2> QED
    BY <2>2, <2>3, <2>4, <2>5, ChangeStep
<1>5. ASSUME NEW t \in Threads, NEW key \in Keys, Delete(t, key)
      PROVE  EnvironmentIInv' /\ \A u \in Threads : ~Leaves(u)
  <2> DEFINE m == Without(Current(t), {key})
  <2>1. values' = [values EXCEPT ![t] = m] /\ Touch(t, {key}) /\ UNCHANGED scopes
    BY <1>5 DEF Delete
  <2>2. /\ m \in Dictionaries /\ DOMAIN m = DOMAIN Current(t) \ {key}
        /\ \A k \in DOMAIN Current(t) \ {key} : m[k] = Current(t)[k]
    BY <1>1, WithoutIs
  <2> HIDE DEF m
  <2>3. \A k \in Keys \ {key} : Same(m, Current(t), k)
    BY <2>2 DEF Same
  <2> QED
    BY <2>1, <2>2, <2>3, ChangeStep
<1>6. ASSUME NEW t \in Threads, NEW mapping \in Mappings \cup {<< >>}, Replace(t, mapping)
      PROVE  EnvironmentIInv' /\ \A u \in Threads : ~Leaves(u)
  <2>1. mapping \in Dictionaries
    <3>1. << >> \in [{} -> Values]
      OBVIOUS
    <3>2. << >> \in Dictionaries
      BY <3>1 DEF Dictionaries
    <3> QED
      BY <3>2, EnvironmentAssumption
  <2>2. values' = [values EXCEPT ![t] = mapping] /\ Touch(t, Keys) /\ UNCHANGED scopes
    BY <1>6 DEF Replace
  <2> QED
    BY <2>1, <2>2, ChangeStep
<1>7. CASE UNCHANGED environmentVars
  <2>1. UNCHANGED <<values, scopes, frames>> /\ \A t \in Threads : Current(t)' = Current(t)
    BY <1>7 DEF environmentVars, Current
  <2>2. EnvironmentIInv'
    BY <2>1 DEF EnvironmentIInv, EnvironmentTypeOK, Nested, SavedAsFound, LeftAsOverlaid, Inside, Same
  <2>3. \A t \in Threads : Len(scopes[t]) \in Nat
    BY <1>1, LenProperties
  <2> QED
    BY <2>1, <2>2, <2>3 DEF Leaves
<1> QED
  BY <1>2, <1>3, <1>4, <1>5, <1>6, <1>7 DEF EnvironmentNext

(* Scopes nest whatever the code inside them does to the live mapping.     *)
(* (ApplicationEnvironment.temp_env)                                       *)
THEOREM EnvironmentInvariance == EnvironmentSpec => []EnvironmentIInv
<1>1. EnvironmentIInv /\ [EnvironmentNext]_environmentVars => EnvironmentIInv'
  BY StepRestores
<1> QED
  BY <1>1, InitEnvironmentIInv, PTL DEF EnvironmentSpec

(* Leaving a scope puts back what the scope changed and keeps what the     *)
(* code inside assigned.  (ApplicationEnvironment.temp_env)                *)
THEOREM ScopesRestore == EnvironmentSpec => LeavingRestores
<1>1. EnvironmentIInv /\ [EnvironmentNext]_environmentVars
        => [\A t \in Threads : Leaves(t) => PutBack(t) /\ AssignedStays(t)]_environmentVars
  BY StepRestores
<1> QED
  BY <1>1, EnvironmentInvariance, PTL DEF EnvironmentSpec, LeavingRestores
=============================================================================
