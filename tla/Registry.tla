------------------------------ MODULE Registry ------------------------------
(***************************************************************************)
(* The registry of named databases (registry.py, DatabaseRegistry): one    *)
(* card per name in a directory that processes share without locks.        *)
(*                                                                         *)
(* A card is a file of its own: registering creates it empty and writes it *)
(* afterwards, and whoever has it open keeps it when its name is unlinked. *)
(* Cards may be edited by hand.  A folder is <<base, path>>; a relative    *)
(* one has the base Here and means another folder in every process.        *)
(***************************************************************************)
EXTENDS Naturals, FiniteSets

CONSTANTS Processes, Names, Paths,
          Cwd,      \* the working directory of each process
          Here,     \* the base of a relative folder
          Absent,     \* no card, no content, no result
          MaxFiles  \* bound: cards that are ever created

ASSUME RegistryAssumption ==
  /\ Here \notin {Cwd[p] : p \in Processes}
  /\ MaxFiles \in Nat /\ Absent \notin 1..MaxFiles

VARIABLES card,    \* per name: the file it names, or Absent
          content, \* per file: the folder written in it, or Absent while it is empty
          files,   \* files ever created: 1..files
          recipes, \* absolute folders that hold a configure.py
          call,    \* per process: the call under way
          met,     \* observer, per process: what the name's card has held during the call
          lasting  \* observer: registrations reported done and not removed since they began

registryVars == <<card, content, files, recipes, call, met, lasting>>

Absolute(p, folder) == IF folder[1] = Here THEN <<Cwd[p], folder[2]>> ELSE folder
Folders == {Cwd[p] : p \in Processes} \X Paths
Idle == [op |-> "none", name |-> Absent, folder |-> Absent, file |-> 0]

RegistryInit ==
  /\ card = [n \in Names |-> Absent] /\ content = [f \in 1..MaxFiles |-> Absent] /\ files = 0
  /\ recipes = Folders
  /\ call = [p \in Processes |-> Idle]
  /\ met = [p \in Processes |-> {}] /\ lasting = {}

Held(n) == IF card[n] = Absent THEN Absent ELSE content[card[n]]
Observe == met' = [p \in Processes |->
  IF call'[p].op = "none" THEN {}
  ELSE (IF call[p].op = "none" THEN {} ELSE met[p])
       \cup (IF card'[call'[p].name] = Absent THEN {} ELSE {content'[card'[call'[p].name]]})]

Start(p, op, n, folder, file) ==
  call' = [call EXCEPT ![p] = [op |-> op, name |-> n, folder |-> folder, file |-> file]]
Finish(p) == call' = [call EXCEPT ![p] = Idle]

-----------------------------------------------------------------------------
(* Mutant: the card is opened for writing, whatever it holds. *)
OpenOver(p, n, folder) ==
  /\ call[p].op = "none" /\ Absolute(p, folder) \in recipes /\ files < MaxFiles
  /\ IF card[n] = Absent
     THEN /\ files' = files + 1 /\ card' = [card EXCEPT ![n] = files + 1]
          /\ Start(p, "write", n, Absolute(p, folder), files + 1) /\ UNCHANGED content
     ELSE /\ content' = [content EXCEPT ![card[n]] = Absent]
          /\ Start(p, "write", n, Absolute(p, folder), card[n]) /\ UNCHANGED <<card, files>>
  /\ UNCHANGED <<recipes, lasting>> /\ Observe

(* register, up to the card that is created exclusively and still empty.   *)
Open(p, n, folder) ==
  /\ call[p].op = "none" /\ Absolute(p, folder) \in recipes
  /\ card[n] = Absent /\ files < MaxFiles
  /\ files' = files + 1 /\ card' = [card EXCEPT ![n] = files + 1]
  /\ Start(p, "write", n, Absolute(p, folder), files + 1)
  /\ UNCHANGED <<content, recipes, lasting>> /\ Observe

(* register writes the card and returns, though it may be unlinked by now. *)
Write(p) ==
  /\ call[p].op = "write"
  /\ content' = [content EXCEPT ![call[p].file] = call[p].folder]
  /\ lasting' = IF card[call[p].name] = call[p].file
                THEN lasting \cup {<<call[p].name, call[p].folder>>} ELSE lasting
  /\ Finish(p)
  /\ UNCHANGED <<card, files, recipes>> /\ Observe

(* The process dies, or the disk is full, before the card is written.      *)
WriteFails(p) ==
  /\ call[p].op = "write"
  /\ Finish(p)
  /\ UNCHANGED <<card, content, files, recipes, lasting>> /\ Observe

-----------------------------------------------------------------------------
(* resolve: the card exists, the text is read, the folder is checked.      *)
ResolveBegin(p, n) ==
  /\ call[p].op = "none" /\ card[n] # Absent
  /\ Start(p, "read", n, Absent, 0)
  /\ UNCHANGED <<card, content, files, recipes, lasting>> /\ Observe

(* The card was removed meanwhile, or is empty: no JSON.                   *)
ReadFails(p) ==
  /\ call[p].op = "read" /\ Held(call[p].name) = Absent
  /\ Finish(p)
  /\ UNCHANGED <<card, content, files, recipes, lasting>> /\ Observe

Read(p) ==
  /\ call[p].op = "read" /\ Held(call[p].name) # Absent
  /\ IF Held(call[p].name)[1] # Here
     THEN Start(p, "check", call[p].name, Held(call[p].name), 0) ELSE Finish(p)
  /\ UNCHANGED <<card, content, files, recipes, lasting>> /\ Observe

(* The source is returned, to be loaded by the caller, or refused.         *)
ResolveEnds(p) ==
  /\ call[p].op = "check"
  /\ IF call[p].folder \in recipes
     THEN Start(p, "resolved", call[p].name, call[p].folder, 0) ELSE Finish(p)
  /\ UNCHANGED <<card, content, files, recipes, lasting>> /\ Observe

Load(p) ==
  /\ call[p].op = "resolved"
  /\ Finish(p)
  /\ UNCHANGED <<card, content, files, recipes, lasting>> /\ Observe

(* remove unlinks the card, complete or not. *)
RemoveCard(p, n) ==
  /\ call[p].op = "none" /\ card[n] # Absent
  /\ card' = [card EXCEPT ![n] = Absent]
  /\ lasting' = {r \in lasting : r[1] # n}
  /\ UNCHANGED call
  /\ UNCHANGED <<content, files, recipes>> /\ Observe

-----------------------------------------------------------------------------
(* Outside the program: someone edits a card, a project folder goes.       *)
Edit(n, folder) ==
  /\ card[n] # Absent
  /\ content' = [content EXCEPT ![card[n]] = folder]
  /\ lasting' = {r \in lasting : r[1] # n}
  /\ UNCHANGED <<call, card, files, recipes>>
  /\ Observe

ProjectGoes(folder) ==
  /\ recipes' = recipes \ {folder}
  /\ UNCHANGED <<card, content, files, call, lasting>>
  /\ Observe

AnyFolder == Folders \cup ({Here} \X Paths)

RegistryNext ==
  \/ \E p \in Processes :
       \/ \E n \in Names, f \in AnyFolder : Open(p, n, f)
       \/ Write(p) \/ WriteFails(p)
       \/ \E n \in Names : ResolveBegin(p, n) \/ RemoveCard(p, n)
       \/ ReadFails(p) \/ Read(p) \/ ResolveEnds(p) \/ Load(p)
  \/ \E n \in Names, f \in {Here} \X Paths : Edit(n, f)
  \/ \E f \in recipes : ProjectGoes(f)

RegistrySpec == RegistryInit /\ [][RegistryNext]_registryVars

-----------------------------------------------------------------------------
(* A registration reported done is what its name means until the name is   *)
(* unregistered or its card is edited: no registration of another process, *)
(* failed or complete, takes its place.  (register)                        *)
RegistrationLasts == \A r \in lasting : Held(r[1]) = r[2]

(* What resolve returns is a folder the card named while it was called, in *)
(* a form that means the same in every working directory: never a card     *)
(* that is still being written, nor one somebody else's directory          *)
(* completes.  (resolve)                                                   *)
ResolvedAsRegistered ==
  \A p \in Processes :
    call[p].op = "resolved" => call[p].folder \in met[p] /\ call[p].folder[1] # Here

(* A name means what was registered under it, to whoever resolves it.      *)
NamesKeepTheirMeaning == RegistrationLasts /\ ResolvedAsRegistered
=============================================================================
