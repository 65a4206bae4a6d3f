---------------------------- MODULE ConfigStore -----------------------------
(***************************************************************************)
(* One entry of the config bucket (src/idmap): WriteConfig, ReadConfig and *)
(* DeleteConfig, a transaction on each database, and the goroutine that    *)
(* copies the legacy database meanwhile, verifies the copy and repairs it. *)
(*                                                                         *)
(* The steps are those of one caller; the module that has the caller says  *)
(* in which order they come.  An installation without a legacy database is *)
(* one whose migration is complete.  Verification opens its snapshots of   *)
(* the two databases at once; it may fail for entries that are not this    *)
(* one.                                                                    *)
(***************************************************************************)
EXTENDS Integers

CONSTANTS Values, None

ASSUME NoneAssumption == None \notin Values

VARIABLES
  newConfig, oldConfig,  \* the entry in identityDB and in the legacy database
  complete,              \* the marker of the migration
  worker, batch,         \* backgroundMigration, and what it read of the legacy database
  torn,                  \* history: the last write reached identityDB only
  moved,                 \* history: changed since the last write, by nobody who writes
  deleted, missed        \* history: deleted since, and where the reader does not look first

store     == <<newConfig, oldConfig, complete>>
migration == <<worker, batch>>
past      == <<torn, moved, deleted, missed>>
storeVars == <<store, migration, past>>

StoreInit ==
  /\ \/ complete = FALSE /\ newConfig = None /\ oldConfig \in Values \cup {None}
     \/ complete = TRUE /\ newConfig \in Values \cup {None} /\ oldConfig = None
  /\ worker = IF complete THEN "done" ELSE "read"
  /\ batch = None
  /\ torn = FALSE /\ moved = FALSE /\ deleted = FALSE /\ missed = FALSE

-----------------------------------------------------------------------------
\* WriteConfig: first identityDB ...
WriteNew(v) == /\ newConfig' = v
               /\ torn' = ~complete
               /\ moved' = FALSE /\ deleted' = FALSE /\ missed' = FALSE
               /\ UNCHANGED <<oldConfig, complete, migration>>

\* The database WriteConfig, ReadConfig and DeleteConfig then turn to looks at the
\* marker once more (configAndUserInfoDB).
Legacy == IF complete THEN newConfig ELSE oldConfig

\* ... then, if the migration was not complete, that database, where an error is not
\* looked at.
WriteOld(v) ==
  \/ /\ ~complete
     /\ oldConfig' = v
     /\ torn' = FALSE
     /\ UNCHANGED <<newConfig, complete, migration, moved, deleted, missed>>
  \/ /\ complete
     /\ newConfig' = v
     /\ torn' = FALSE /\ moved' = FALSE /\ deleted' = FALSE /\ missed' = FALSE
     /\ UNCHANGED <<oldConfig, complete, migration>>
  \/ UNCHANGED storeVars

\* Definitions whose names begin with M are mutants: a plausible bug each, which
\* the runs are shown to notice.  This one deletes from the other database.
MDeleteConfig ==
  /\ IF complete THEN oldConfig' = None /\ UNCHANGED newConfig
     ELSE newConfig' = None /\ UNCHANGED oldConfig
  /\ moved' = TRUE /\ deleted' = TRUE /\ UNCHANGED missed
  /\ UNCHANGED <<complete, migration, torn>>

\* DeleteConfig deletes from one database, the legacy one during the migration.
DeleteConfig ==
  /\ IF complete THEN newConfig' = None /\ UNCHANGED oldConfig
     ELSE oldConfig' = None /\ UNCHANGED newConfig
  /\ moved' = TRUE /\ deleted' = TRUE
  /\ missed' = (~complete /\ (newConfig # None \/ worker = "write"))
  /\ UNCHANGED <<complete, migration, torn>>

-----------------------------------------------------------------------------
\* backgroundMigration

Work(at, next) == worker = at /\ worker' = next

ReadBatch == /\ Work("read", "write")
             /\ batch' = oldConfig
             /\ UNCHANGED <<store, past>>

\* Mutant: what is there already is overwritten.
MWriteBatch == /\ Work("write", "verify")
               /\ newConfig' = IF batch # None THEN batch ELSE newConfig
               /\ UNCHANGED <<oldConfig, complete, batch, past>>

\* Only what is not there yet is written.
WriteBatch == /\ Work("write", "verify")
              /\ newConfig' = IF newConfig = None THEN batch ELSE newConfig
              /\ UNCHANGED <<oldConfig, complete, batch, past>>

Agree == oldConfig \in {None, newConfig}

Verify == /\ \/ Agree /\ Work("verify", "mark")
             \/ Work("verify", "repair")
          /\ UNCHANGED <<store, batch, past>>

\* The legacy value wins.
Repair == /\ Work("repair", "reverify")
          /\ newConfig' = IF oldConfig = None THEN newConfig ELSE oldConfig
          /\ moved' = (moved \/ newConfig' # newConfig)
          /\ UNCHANGED <<oldConfig, complete, batch, torn, deleted, missed>>

\* If it fails again, the databases are left for the operator.
Reverify == /\ \/ Agree /\ Work("reverify", "mark")
               \/ Work("reverify", "stuck")
            /\ UNCHANGED <<store, batch, past>>

MarkComplete == /\ Work("mark", "done")
                /\ complete' = TRUE
                /\ UNCHANGED <<newConfig, oldConfig, batch, past>>

MigrationNext == ReadBatch \/ WriteBatch \/ Verify \/ Repair \/ Reverify \/ MarkComplete

\* A restart: the migration starts again unless it was complete.
StoreRestart == /\ worker' = IF complete THEN "done" ELSE "read"
                /\ batch' = None
                /\ UNCHANGED <<store, past>>

-----------------------------------------------------------------------------
StoreTypeOK ==
  /\ newConfig \in Values \cup {None} /\ oldConfig \in Values \cup {None}
  /\ complete \in BOOLEAN
  /\ worker \in {"read", "write", "verify", "repair", "reverify", "mark", "done", "stuck"}
  /\ batch \in Values \cup {None}
  /\ torn \in BOOLEAN /\ moved \in BOOLEAN /\ deleted \in BOOLEAN /\ missed \in BOOLEAN

\* The migration takes the place of a written value only while the write is torn (a
\* crash or an error kept it from the legacy database, or it is not there yet), or to
\* undo that.
RevertsOnlyTorn ==
  [][worker' # worker /\ newConfig # None /\ newConfig' # newConfig => torn \/ moved]_storeVars

\* What was deleted is found again only where the migration had copied it, or was
\* about to.
DeletedIsGone == deleted /\ ~missed => newConfig = None /\ Legacy = None
=============================================================================
