------------------------- MODULE CatalogImportProofs -------------------------
(***************************************************************************)
(* The import ends with a faithful model for every set of structures the   *)
(* database goes through while it is read, in every order of changes and   *)
(* queries.                                                                *)
(***************************************************************************)
EXTENDS CatalogImport, TLAPS

Stages == {"schemas", "objects", "columns", "constraints", "indexes", "triggers", "done"}
Fields == {"columns", "pkey", "keys", "relations", "indexes"}

ImportTypeOK ==
  /\ catalogue \in Catalogues /\ snapshot \in Catalogues \cup {Null}
  /\ stage \in Stages
  /\ snapshot = Null <=> stage = "schemas"
  /\ stage \in {"schemas", "objects"} => DOMAIN tables = {}
  /\ \A t \in DOMAIN tables : DOMAIN tables[t] = Fields

(* Under either isolation a relation stays within the model, which no      *)
(* query after the second one adds a table to or takes one from.           *)
RelationsStay ==
  \A t \in DOMAIN tables : \A n \in DOMAIN tables[t].relations :
    tables[t].relations[n].target \in DOMAIN tables

(* Under repeatable read the model is what the queries so far found in the *)
(* one structure that all of them see.                                     *)
TablesAsSeen ==
  /\ DOMAIN tables = {t \in Requested \cap DOMAIN snapshot : snapshot[t].kind = "r"}
  /\ \A t \in (Requested \cap DOMAIN snapshot) \ DOMAIN tables : <<"object", t>> \in warned
ColumnsAsSeen ==
  stage # "columns" => \A t \in DOMAIN tables : tables[t].columns = snapshot[t].columns
KeysNotYet ==
  stage \in {"columns", "constraints"} =>
    \A t \in DOMAIN tables : DOMAIN tables[t].pkey = {} /\ DOMAIN tables[t].relations = {}
KeysAsSeen ==
  stage \in {"indexes", "triggers", "done"} =>
    \A t \in DOMAIN tables :
      /\ tables[t].pkey = snapshot[t].pkey
      /\ tables[t].relations = Relations(snapshot[t].keys)
      /\ \A n \in DOMAIN snapshot[t].keys \ DOMAIN tables[t].relations : <<"key", t, n>> \in warned
IndexesAsSeen ==
  stage \in {"triggers", "done"} => \A t \in DOMAIN tables : tables[t].indexes = snapshot[t].indexes
TriggersAsSeen ==
  stage = "done" =>
    \A t \in Requested \cap DOMAIN snapshot : snapshot[t].trigger => <<"trigger", t>> \in warned

AsSeen ==
  (isolation = "repeatable read" /\ stage \notin {"schemas", "objects"}) =>
    /\ TablesAsSeen /\ ColumnsAsSeen /\ KeysNotYet
    /\ KeysAsSeen /\ IndexesAsSeen /\ TriggersAsSeen

ImportIInv == ImportTypeOK /\ RelationsStay /\ AsSeen

-----------------------------------------------------------------------------
(* After the first query, repeatable read sees what that one saw.          *)
LEMMA SeesTheSnapshot ==
  ASSUME ImportTypeOK, isolation = "repeatable read", stage # "schemas"
  PROVE  Visible = snapshot /\ Found = Requested \cap DOMAIN snapshot
BY DEF ImportTypeOK, Visible, Found

(* Every query but the first leaves the snapshot alone.                    *)
LEMMA SnapshotIsKept ==
  ASSUME ImportTypeOK, NEW from, NEW to, from # "schemas", Query(from, to)
  PROVE  /\ snapshot' = snapshot /\ snapshot # Null
         /\ catalogue' = catalogue /\ isolation' = isolation /\ stage = from /\ stage' = to
BY DEF ImportTypeOK, Query

LEMMA SchemasStep ==
  ASSUME ImportIInv, QuerySchemas
  PROVE  ImportIInv'
<1>1. /\ stage = "schemas" /\ stage' = "objects" /\ snapshot = Null /\ snapshot' = catalogue
      /\ catalogue' = catalogue /\ isolation' = isolation /\ tables' = tables /\ DOMAIN tables = {}
  BY DEF ImportIInv, ImportTypeOK, QuerySchemas, Query
<1>2. ImportTypeOK'
  BY <1>1, CatalogAssumption DEF ImportIInv, ImportTypeOK, Stages
<1>3. RelationsStay' /\ AsSeen'
  BY <1>1 DEF RelationsStay, AsSeen
<1> QED
  BY <1>2, <1>3 DEF ImportIInv

LEMMA ObjectsStep ==
  ASSUME ImportIInv, QueryObjects
  PROVE  ImportIInv'
<1> USE DEF ImportIInv
<1>1. /\ stage = "objects" /\ stage' = "columns" /\ snapshot' = snapshot /\ snapshot # Null
      /\ catalogue' = catalogue /\ isolation' = isolation
  BY SnapshotIsKept DEF QueryObjects
<1>2. /\ DOMAIN tables' = {u \in Found : Visible[u].kind = "r"}
      /\ \A t \in DOMAIN tables' : /\ DOMAIN tables'[t] = Fields
                                   /\ DOMAIN tables'[t].pkey = {} /\ DOMAIN tables'[t].relations = {}
  BY DEF QueryObjects, Fields, NoTables
<1>3. warned' = {<<"object", t>> : t \in {u \in Found : Visible[u].kind # "r"}}
  BY DEF QueryObjects
<1>4. ImportTypeOK'
  BY <1>1, <1>2 DEF ImportTypeOK, Stages
<1>5. RelationsStay'
  BY <1>2 DEF RelationsStay
<1>6. AsSeen'
  <2> SUFFICES ASSUME isolation = "repeatable read"
               PROVE  TablesAsSeen' /\ KeysNotYet'
    BY <1>1 DEF AsSeen, ColumnsAsSeen, KeysAsSeen, IndexesAsSeen, TriggersAsSeen
  <2>1. Visible = snapshot /\ Found = Requested \cap DOMAIN snapshot
    BY <1>1, SeesTheSnapshot
  <2>2. DOMAIN tables' = {t \in Requested \cap DOMAIN snapshot : snapshot[t].kind = "r"}
    BY <1>2, <2>1
  <2>3. \A t \in (Requested \cap DOMAIN snapshot) \ DOMAIN tables' : <<"object", t>> \in warned'
    BY <1>3, <2>1, <2>2
  <2> QED
    BY <1>1, <1>2, <2>2, <2>3 DEF TablesAsSeen, KeysNotYet
<1> QED
  BY <1>4, <1>5, <1>6

LEMMA ColumnsStep ==
  ASSUME ImportIInv, QueryColumns
  PROVE  ImportIInv'
<1> USE DEF ImportIInv
<1>1. /\ stage = "columns" /\ stage' = "constraints" /\ snapshot' = snapshot /\ snapshot # Null
      /\ catalogue' = catalogue /\ isolation' = isolation /\ warned' = warned
  BY SnapshotIsKept DEF QueryColumns
<1>2. /\ DOMAIN tables' = DOMAIN tables
      /\ \A t \in DOMAIN tables :
           /\ DOMAIN tables'[t] = Fields
           /\ tables'[t].pkey = tables[t].pkey /\ tables'[t].relations = tables[t].relations
           /\ t \in Found => tables'[t].columns = Visible[t].columns
  BY DEF QueryColumns, ImportTypeOK, Fields
<1>3. ImportTypeOK'
  BY <1>1, <1>2 DEF ImportTypeOK, Stages
<1>4. RelationsStay'
  BY <1>2 DEF RelationsStay
<1>5. AsSeen'
  <2> SUFFICES ASSUME isolation = "repeatable read"
               PROVE  TablesAsSeen' /\ ColumnsAsSeen' /\ KeysNotYet'
    BY <1>1 DEF AsSeen, KeysAsSeen, IndexesAsSeen, TriggersAsSeen
  <2>1. TablesAsSeen /\ KeysNotYet /\ Visible = snapshot /\ Found = Requested \cap DOMAIN snapshot
    BY <1>1, SeesTheSnapshot DEF AsSeen
  <2> QED
    BY <1>1, <1>2, <2>1 DEF TablesAsSeen, ColumnsAsSeen, KeysNotYet
<1> QED
  BY <1>3, <1>4, <1>5

LEMMA ConstraintsStep ==
  ASSUME ImportIInv, QueryConstraints
  PROVE  ImportIInv'
<1> USE DEF ImportIInv
<1>1. /\ stage = "constraints" /\ stage' = "indexes" /\ snapshot' = snapshot /\ snapshot # Null
      /\ catalogue' = catalogue /\ isolation' = isolation
  <2>1. Query("constraints", "indexes")
    BY DEF QueryConstraints
  <2> QED
    BY <2>1, SnapshotIsKept
<1>2. /\ DOMAIN tables' = DOMAIN tables
      /\ \A t \in DOMAIN tables :
           /\ DOMAIN tables'[t] = Fields /\ tables'[t].columns = tables[t].columns
           /\ t \in Found => /\ tables'[t].pkey = Visible[t].pkey
                             /\ tables'[t].relations = Relations(Visible[t].keys)
           /\ t \notin Found => tables'[t].relations = tables[t].relations
  BY DEF QueryConstraints, ImportTypeOK, Fields
<1>3. /\ warned \subseteq warned'
      /\ \A t \in DOMAIN tables \cap Found : \A n \in DOMAIN Visible[t].keys :
           Visible[t].keys[n].target \notin DOMAIN tables => <<"key", t, n>> \in warned'
  <2> DEFINE lost(t) == {m \in DOMAIN Visible[t].keys : Visible[t].keys[m].target \notin DOMAIN tables}
             named(t) == {<<"key", t, n>> : n \in lost(t)}
  <2>1. warned' = warned \cup UNION {named(t) : t \in DOMAIN tables \cap Found}
    BY DEF QueryConstraints
  <2>2. \A t \in DOMAIN tables \cap Found : \A n \in lost(t) : <<"key", t, n>> \in named(t)
    OBVIOUS
  <2> HIDE DEF named
  <2>3. \A t \in DOMAIN tables \cap Found : named(t) \subseteq warned'
    BY <2>1
  <2>4. warned \subseteq warned'
    BY <2>1
  <2> QED
    BY <2>2, <2>3, <2>4
<1>4. \A keys : \A n \in DOMAIN keys :
        /\ n \in DOMAIN Relations(keys) <=> keys[n].target \in DOMAIN tables
        /\ n \in DOMAIN Relations(keys) => Relations(keys)[n] = keys[n]
  BY DEF Relations
<1>5. \A keys : DOMAIN Relations(keys) \subseteq DOMAIN keys
  BY DEF Relations
<1>6. ImportTypeOK'
  BY <1>1, <1>2 DEF ImportTypeOK, Stages
<1>7. RelationsStay'
  BY <1>2, <1>4, <1>5 DEF RelationsStay
<1>8. AsSeen'
  <2> SUFFICES ASSUME isolation = "repeatable read"
               PROVE  TablesAsSeen' /\ ColumnsAsSeen' /\ KeysAsSeen'
    BY <1>1 DEF AsSeen, KeysNotYet, IndexesAsSeen, TriggersAsSeen
  <2>1. /\ TablesAsSeen /\ ColumnsAsSeen
        /\ Visible = snapshot /\ Found = Requested \cap DOMAIN snapshot
    BY <1>1, SeesTheSnapshot DEF AsSeen
  <2>2. TablesAsSeen' /\ ColumnsAsSeen'
    BY <1>1, <1>2, <1>3, <2>1 DEF TablesAsSeen, ColumnsAsSeen
  <2>3. \A t \in DOMAIN tables : t \in Found
    BY <2>1 DEF TablesAsSeen
  <2>4. \A keys : Relations(keys)' = Relations(keys)
    BY <1>2 DEF Relations
  <2> QED
    BY <1>1, <1>2, <1>3, <1>4, <2>1, <2>2, <2>3, <2>4 DEF KeysAsSeen
<1> QED
  BY <1>6, <1>7, <1>8

LEMMA IndexesStep ==
  ASSUME ImportIInv, QueryIndexes
  PROVE  ImportIInv'
<1> USE DEF ImportIInv
<1>1. /\ stage = "indexes" /\ stage' = "triggers" /\ snapshot' = snapshot /\ snapshot # Null
      /\ catalogue' = catalogue /\ isolation' = isolation /\ warned' = warned
  BY SnapshotIsKept DEF QueryIndexes
<1>2. /\ DOMAIN tables' = DOMAIN tables
      /\ \A t \in DOMAIN tables :
           /\ DOMAIN tables'[t] = Fields /\ tables'[t].columns = tables[t].columns
           /\ tables'[t].pkey = tables[t].pkey /\ tables'[t].relations = tables[t].relations
           /\ t \in Found => tables'[t].indexes = Visible[t].indexes
  BY DEF QueryIndexes, ImportTypeOK, Fields
<1>3. ImportTypeOK'
  BY <1>1, <1>2 DEF ImportTypeOK, Stages
<1>4. RelationsStay'
  BY <1>2 DEF RelationsStay
<1>5. AsSeen'
  <2> SUFFICES ASSUME isolation = "repeatable read"
               PROVE  TablesAsSeen' /\ ColumnsAsSeen' /\ KeysAsSeen' /\ IndexesAsSeen'
    BY <1>1 DEF AsSeen, KeysNotYet, TriggersAsSeen
  <2>1. /\ TablesAsSeen /\ ColumnsAsSeen /\ KeysAsSeen
        /\ Visible = snapshot /\ Found = Requested \cap DOMAIN snapshot
    BY <1>1, SeesTheSnapshot DEF AsSeen
  <2>2. \A keys : Relations(keys)' = Relations(keys)
    BY <1>2 DEF Relations
  <2> QED
    BY <1>1, <1>2, <2>1, <2>2 DEF TablesAsSeen, ColumnsAsSeen, KeysAsSeen, IndexesAsSeen
<1> QED
  BY <1>3, <1>4, <1>5

LEMMA TriggersStep ==
  ASSUME ImportIInv, QueryTriggers
  PROVE  ImportIInv'
<1> USE DEF ImportIInv
<1>1. /\ stage = "triggers" /\ stage' = "done" /\ snapshot' = snapshot /\ snapshot # Null
      /\ catalogue' = catalogue /\ isolation' = isolation /\ tables' = tables
      /\ warned' = warned \cup {<<"trigger", t>> : t \in {u \in Found : Visible[u].trigger}}
  BY SnapshotIsKept DEF QueryTriggers
<1>2. ImportTypeOK'
  BY <1>1 DEF ImportTypeOK, Stages
<1>3. RelationsStay'
  BY <1>1 DEF RelationsStay
<1>4. AsSeen'
  <2> SUFFICES ASSUME isolation = "repeatable read"
               PROVE  /\ TablesAsSeen' /\ ColumnsAsSeen' /\ KeysAsSeen'
                      /\ IndexesAsSeen' /\ TriggersAsSeen'
    BY <1>1 DEF AsSeen, KeysNotYet
  <2>1. /\ TablesAsSeen /\ ColumnsAsSeen /\ KeysAsSeen /\ IndexesAsSeen
        /\ Visible = snapshot /\ Found = Requested \cap DOMAIN snapshot
    BY <1>1, SeesTheSnapshot DEF AsSeen
  <2>2. \A keys : Relations(keys)' = Relations(keys)
    BY <1>1 DEF Relations
  <2> QED
    BY <1>1, <2>1, <2>2
    DEF TablesAsSeen, ColumnsAsSeen, KeysAsSeen, IndexesAsSeen, TriggersAsSeen
<1> QED
  BY <1>2, <1>3, <1>4

(* A change of the structure is nothing a snapshot sees.                   *)
LEMMA MigrateStep ==
  ASSUME ImportIInv, Migrate
  PROVE  ImportIInv'
<1>1. \A keys : Relations(keys)' = Relations(keys)
  BY DEF Migrate, Relations
<1>2. ImportTypeOK' /\ RelationsStay'
  BY DEF ImportIInv, Migrate, ImportTypeOK, RelationsStay
<1>3. AsSeen'
  BY <1>1 DEF ImportIInv, Migrate, AsSeen, TablesAsSeen, ColumnsAsSeen, KeysNotYet, KeysAsSeen,
              IndexesAsSeen, TriggersAsSeen
<1> QED
  BY <1>2, <1>3 DEF ImportIInv

-----------------------------------------------------------------------------
LEMMA ImportInitIInv == ImportInit => ImportIInv
BY CatalogAssumption
DEF ImportInit, ImportIInv, ImportTypeOK, RelationsStay, AsSeen, Stages, NoTables

LEMMA ImportNextIInv == ImportIInv /\ [ImportNext]_importVars => ImportIInv'
<1> SUFFICES ASSUME ImportIInv, [ImportNext]_importVars
             PROVE  ImportIInv'
  OBVIOUS
<1>1. CASE UNCHANGED importVars
  <2>1. \A keys : Relations(keys)' = Relations(keys)
    BY <1>1 DEF importVars, Relations
  <2>2. ImportTypeOK' /\ RelationsStay'
    BY <1>1 DEF ImportIInv, importVars, ImportTypeOK, RelationsStay
  <2>3. AsSeen'
    BY <1>1, <2>1 DEF ImportIInv, importVars, AsSeen, TablesAsSeen, ColumnsAsSeen, KeysNotYet,
                      KeysAsSeen, IndexesAsSeen, TriggersAsSeen
  <2> QED
    BY <2>2, <2>3 DEF ImportIInv
<1> QED
  BY <1>1, SchemasStep, ObjectsStep, ColumnsStep, ConstraintsStep, IndexesStep, TriggersStep,
     MigrateStep DEF ImportNext

(* The invariant says what the import promises.                            *)
LEMMA ImportIInvGives == ImportIInv => ImportIsFaithful
<1> SUFFICES ASSUME ImportIInv, stage = "done"
             PROVE  ModelIsClosed /\ NothingGoesUnreported
  BY DEF ImportIsFaithful
<1> USE DEF ImportIInv
<1>1. snapshot \in Catalogues
  BY DEF ImportTypeOK
<1>2. IsCatalogue(snapshot)
  BY <1>1, CatalogAssumption
<1>3. ASSUME isolation = "repeatable read"
      PROVE  TablesAsSeen /\ ColumnsAsSeen /\ KeysAsSeen /\ IndexesAsSeen /\ TriggersAsSeen
  BY <1>3 DEF AsSeen
<1>4. ASSUME isolation = "repeatable read", NEW t \in DOMAIN tables
      PROVE  /\ \A k \in DOMAIN tables[t].pkey : tables[t].pkey[k] \in tables[t].columns
             /\ \A n \in DOMAIN tables[t].relations :
                  LET r == tables[t].relations[n] IN
                  r.column \in tables[t].columns /\ r.to \in tables[r.target].columns
  <2>1. t \in DOMAIN snapshot
    BY <1>3, <1>4 DEF TablesAsSeen
  <2>2. /\ tables[t].columns = snapshot[t].columns /\ tables[t].pkey = snapshot[t].pkey
        /\ tables[t].relations = Relations(snapshot[t].keys)
    BY <1>3, <1>4 DEF ColumnsAsSeen, KeysAsSeen
  <2>3. \A k \in DOMAIN tables[t].pkey : tables[t].pkey[k] \in tables[t].columns
    BY <1>2, <2>1, <2>2 DEF IsCatalogue
  <2>4. ASSUME NEW n \in DOMAIN tables[t].relations
        PROVE  /\ tables[t].relations[n].column \in tables[t].columns
               /\ tables[t].relations[n].to \in tables[tables[t].relations[n].target].columns
    <3>1. /\ n \in DOMAIN snapshot[t].keys /\ tables[t].relations[n] = snapshot[t].keys[n]
          /\ snapshot[t].keys[n].target \in DOMAIN tables
      BY <2>2, <2>4 DEF Relations
    <3>2. tables[snapshot[t].keys[n].target].columns = snapshot[snapshot[t].keys[n].target].columns
      BY <1>3, <1>4, <3>1 DEF ColumnsAsSeen
    <3> QED
      BY <1>2, <2>1, <2>2, <3>1, <3>2 DEF IsCatalogue
  <2> QED
    BY <2>3, <2>4
<1>5. ModelIsClosed
  BY <1>4 DEF ModelIsClosed, RelationsStay
<1>6. NothingGoesUnreported
  BY <1>3 DEF NothingGoesUnreported, TablesAsSeen, ColumnsAsSeen, KeysAsSeen, IndexesAsSeen,
              TriggersAsSeen
<1> QED
  BY <1>5, <1>6

-----------------------------------------------------------------------------
(* The invariant holds of every import. (_inspect_postgres)                *)
THEOREM ImportInvariance == ImportSpec => []ImportIInv
BY ImportInitIInv, ImportNextIInv, PTL DEF ImportSpec

(* Whatever other sessions do to the structure meanwhile, an import ends   *)
(* with a model whose relations stay inside it and, under repeatable read, *)
(* holds or reports all there was. (_inspect_postgres)                     *)
THEOREM ImportKeepsFaith == ImportSpec => []ImportIsFaithful
BY ImportInvariance, ImportIInvGives, PTL
=============================================================================
