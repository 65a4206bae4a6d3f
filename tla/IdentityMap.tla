---------------------------- MODULE IdentityMap -----------------------------
(***************************************************************************)
(* The identity map of src/idmap (service.go, new_service.go): OpenID <->  *)
(* virtual id ("row"), kept in idmap-identity.db, with the legacy idmap.db *)
(* that a background migration empties into it while calls go on.          *)
(*                                                                         *)
(* One bbolt transaction is one step, so a call that opens several         *)
(* (write the new database, then the legacy one) can be interleaved with   *)
(* other calls, with the migration and with a crash between them.  Both    *)
(* databases are on disk and survive a crash; callers and migration do not.*)
(*                                                                         *)
(* Abstractions: idmap_isolation is off (its default), so a key is the     *)
(* OpenID itself; ids have the 32 characters of an OpenID; the buckets     *)
(* config and UserInfo migrate the same way and appear only as their part  *)
(* in the verdict of the verification (OtherBuckets).                      *)
(***************************************************************************)
EXTENDS Integers, Sequences, FiniteSets

CONSTANTS
  OpenIds,      \* real ids
  KeyOrder,     \* OpenIds as a sequence: the order of bbolt's cursor
  MaxRow,       \* bound: virtual ids are 0..MaxRow; 0 is the target of an unbind
  Counter,      \* the key "currentRow", a neighbour of the OpenIDs in the bucket
  None,         \* no such key
  Callers,      \* goroutines: gateway events, commands, HTTP and gRPC requests
  Ops,          \* the calls they make
  HashId,       \* config hash_id: derive rows from the OpenID, or count up
  HashRows,     \* with hash_id, the rows GenerateRowID yields, 9 digits first
  Legacies,     \* the legacy databases to start from: tables OpenID -> row,
                \* with the counter; None stands for an installation without one
  BatchSize,    \* entries per migration batch (100 in the code)
  OtherBuckets, \* verdicts of the verification on config and UserInfo
  MaxCrashes    \* bound: crashes and restarts of a behaviour

Rows  == 0..MaxRow
Names == OpenIds \cup {Counter}

ASSUME OpenIdsAssumption ==
  /\ IsFiniteSet(OpenIds)
  /\ Counter \notin OpenIds
  /\ None \notin Names
  /\ None \notin Int
ASSUME KeyOrderAssumption ==
  /\ KeyOrder \in Seq(OpenIds)
  /\ \A a \in OpenIds : \E p \in 1..Len(KeyOrder) : KeyOrder[p] = a
ASSUME BoundsAssumption == MaxRow \in Nat /\ BatchSize \in Nat \ {0} /\ MaxCrashes \in Nat
ASSUME OtherBucketsAssumption == OtherBuckets \subseteq BOOLEAN
ASSUME HashAssumption == HashId \in BOOLEAN /\ HashRows \in [OpenIds -> Seq(Rows \ {0})]
ASSUME LegacyAssumption ==
  \A l \in Legacies \ {None} : l \in [Names -> Rows \cup {None}]

VARIABLES
  newFwd, newRev,      \* bucket ids of idmap-identity.db: name -> row, row -> name
  oldFwd, oldRev,      \* bucket ids of idmap.db
  hasOld,              \* idmap.db exists (db # nil)
  marker,              \* the key _migration_complete_v1 of the new database
  up,                  \* the process runs
  mig,                 \* where the migration goroutine is
  cursor,              \* its cursor: a position in the order of the legacy keys
  batchFwd, batchRev,  \* the entries it holds in memory
  pc, arg,             \* of each caller: its next transaction, its arguments
  issued,              \* history: the virtual ids that each OpenID was given
  crashes              \* bound: crashes so far

newDB  == <<newFwd, newRev, marker>>
oldDB  == <<oldFwd, oldRev, hasOld>>
worker == <<mig, cursor, batchFwd, batchRev>>
calls  == <<pc, arg>>
vars   == <<newDB, oldDB, up, worker, calls, issued, crashes>>

NoFwd == [n \in Names |-> None]
NoRev == [r \in Rows |-> None]
Arg(id, from, to) == [id |-> id, from |-> from, to |-> to]
NoArg == Arg(None, 0, 0)

-----------------------------------------------------------------------------
\* Lookups.  A bucket is scanned in key order; "currentRow" sorts behind the
\* hexadecimal OpenIDs and is not skipped.

KeyAt(p)    == IF p <= Len(KeyOrder) THEN KeyOrder[p] ELSE Counter
Holders(v)  == {p \in 1..Len(KeyOrder) + 1 : newFwd[KeyAt(p)] = v}
First(S)    == CHOOSE p \in S : \A q \in S : p <= q
ScanForward(v) == IF Holders(v) = {} THEN None ELSE KeyAt(First(Holders(v)))

Else(x, y) == IF x # None THEN x ELSE y

OldLookup(v) == IF hasOld THEN oldRev[v] ELSE None

\* Definitions whose names begin with M are mutants: a plausible bug each, which
\* the runs are shown to notice.  This one drops the scan.
MRetrieveRowByIDv2(v) == newRev[v]

\* The lookup of the event and action paths: the new database only.
RetrieveRowByIDv2(v) == Else(newRev[v], ScanForward(v))

DuringMigration == hasOld /\ ~marker

-----------------------------------------------------------------------------
\* The virtual id for an OpenID that has none, and the table it is taken from.

\* Mutant: the search for a free row starts at ten digits.
MFree(a, rev) == {k \in DOMAIN HashRows[a] : k > 1 /\ rev[HashRows[a][k]] = None}

Free(a, rev) == {k \in DOMAIN HashRows[a] : rev[HashRows[a][k]] = None}

NewRows(a, fwd, rev) ==
  IF HashId
  THEN {HashRows[a][k] : k \in {j \in Free(a, rev) : \A i \in Free(a, rev) : j <= i}}
  ELSE Rows \cap {IF fwd[Counter] = None THEN 1 ELSE fwd[Counter] + 1}

WithRow(fwd, a, r) ==
  IF HashId THEN [fwd EXCEPT ![a] = r] ELSE [fwd EXCEPT ![a] = r, ![Counter] = r]

Init ==
  /\ \E l \in Legacies :
       /\ hasOld = (l # None)
       /\ oldFwd = IF l = None THEN NoFwd ELSE l
       /\ oldRev = [r \in Rows |->
                      IF l # None /\ \E a \in OpenIds : l[a] = r
                      THEN CHOOSE a \in OpenIds : l[a] = r ELSE None]
       /\ issued = [a \in OpenIds |->
                      IF l # None /\ l[a] # None THEN {l[a]} \ {0} ELSE {}]
  /\ newFwd = NoFwd /\ newRev = NoRev
  /\ marker = FALSE
  /\ up = FALSE
  /\ mig = "off" /\ cursor = 1 /\ batchFwd = NoFwd /\ batchRev = NoRev
  /\ pc = [c \in Callers |-> "idle"]
  /\ arg = [c \in Callers |-> NoArg]
  /\ crashes = 0

-----------------------------------------------------------------------------
\* Calls

Call(c, op, entry, a) == /\ up
                         /\ op \in Ops
                         /\ pc[c] = "idle"
                         /\ pc' = [pc EXCEPT ![c] = entry]
                         /\ arg' = [arg EXCEPT ![c] = a]
                         /\ UNCHANGED <<newDB, oldDB, up, worker, issued, crashes>>

Advance(c, at, next) == /\ pc[c] = at
                        /\ pc' = [pc EXCEPT ![c] = next]
                        /\ UNCHANGED <<up, worker, crashes>>

Return(c, at) == Advance(c, at, "idle") /\ arg' = [arg EXCEPT ![c] = NoArg]

\* storeIdentity (StoreIDv2 and every event that names a user or a group)
CallStore(c, a) == Call(c, "store", "store", Arg(a, 0, 0))

Known(a) == newFwd[a] # None /\ newFwd[a] # 0

\* The transaction on the new database.  A row of 0 is what an unbind used to
\* leave behind: it is cleared and a new row is taken.  Without a free row the
\* transaction is rolled back and the call returns an error (MaxRow is also the
\* bound of the counter).
StoreIdentity(c) ==
  LET a       == arg[c].id
      cleared == IF newFwd[a] = 0 THEN [newRev EXCEPT ![0] = None] ELSE newRev
      rows    == NewRows(a, newFwd, cleared)
  IN /\ pc[c] = "store"
     /\ \/ /\ Known(a)
           /\ Advance(c, "store", "dual")
           /\ arg' = [arg EXCEPT ![c] = Arg(a, 0, newFwd[a])]
           /\ issued' = [issued EXCEPT ![a] = @ \cup {newFwd[a]}]
           /\ UNCHANGED <<newFwd, newRev>>
        \/ /\ ~Known(a)
           /\ \E r \in rows :
                /\ Advance(c, "store", "dual")
                /\ newFwd' = WithRow(newFwd, a, r)
                /\ newRev' = [cleared EXCEPT ![r] = a]
                /\ arg' = [arg EXCEPT ![c] = Arg(a, 0, r)]
                /\ issued' = [issued EXCEPT ![a] = @ \cup {r}]
        \/ /\ ~Known(a) /\ rows = {}
           /\ Return(c, "store")
           /\ UNCHANGED <<newFwd, newRev, issued>>
     /\ UNCHANGED <<marker, oldDB>>

\* dualWriteToOldDB, skipped without a legacy database and after the migration.
DualWrite(c) ==
  /\ Return(c, "dual")
  /\ IF DuringMigration
     THEN /\ oldFwd' = [oldFwd EXCEPT ![arg[c].id] = arg[c].to]
          /\ oldRev' = [oldRev EXCEPT ![0] = None, ![arg[c].to] = arg[c].id]
     ELSE UNCHANGED <<oldFwd, oldRev>>
  /\ UNCHANGED <<newDB, hasOld, issued>>

\* StoreID, the lotus server's entry: during the migration it allocates in the
\* legacy database and copies the result over (newDBStore).  The lookup it does
\* first takes the OpenID for a virtual id and finds nothing.
CallStoreID(c, a) ==
  Call(c, "storeid", IF DuringMigration THEN "oldstore" ELSE "store",
       Arg(a, 0, 0))

StoreInOldDB(c) ==
  LET a    == arg[c].id
      rows == NewRows(a, oldFwd, oldRev)
  IN /\ pc[c] = "oldstore"
     /\ \/ /\ oldFwd[a] # None
           /\ Advance(c, "oldstore", "copy")
           /\ arg' = [arg EXCEPT ![c] = Arg(a, 0, oldFwd[a])]
           /\ UNCHANGED <<oldFwd, oldRev>>
        \/ /\ oldFwd[a] = None
           /\ \E r \in rows :
                /\ Advance(c, "oldstore", "copy")
                /\ oldFwd' = WithRow(oldFwd, a, r)
                /\ oldRev' = [oldRev EXCEPT ![r] = a]
                /\ arg' = [arg EXCEPT ![c] = Arg(a, 0, r)]
        \/ /\ oldFwd[a] = None /\ rows = {}
           /\ Return(c, "oldstore")
           /\ UNCHANGED <<oldFwd, oldRev>>
     /\ UNCHANGED <<newDB, hasOld, issued>>

NewDBStore(c) ==
  LET a == arg[c].id
      r == arg[c].to
  IN /\ Return(c, "copy")
     /\ IF newFwd[a] = None
        THEN /\ newFwd' = [newFwd EXCEPT ![a] = r]
             /\ newRev' = [newRev EXCEPT ![r] = a]
        ELSE UNCHANGED <<newFwd, newRev>>
     /\ issued' = [issued EXCEPT ![a] = @ \cup ({r} \ {0})]
     /\ UNCHANGED <<marker, oldDB>>

\* UpdateVirtualValue(v, w): the bind command, the bind-by-image and /getid type
\* 5.  w = 0 unbinds.
CallUpdate(c, v, w) ==
  Call(c, IF w = 0 THEN "unbind" ELSE "bind", "find",
       Arg(None, v, w))

\* Mutant: swaps the two virtual ids' places with the OpenID's.
MLookUp(c, at, id, found, otherwise) ==
  LET next == IF id = None THEN otherwise ELSE found
  IN /\ IF next = "idle" THEN Return(c, at)
        ELSE Advance(c, at, next) /\ arg' = [arg EXCEPT ![c] = Arg(arg[c].from, id, arg[c].to)]
     /\ UNCHANGED <<newDB, oldDB, issued>>

\* A lookup that hands what it found to the next step, or goes on searching.
LookUp(c, at, id, found, otherwise) ==
  LET next == IF id = None THEN otherwise ELSE found
  IN /\ IF next = "idle" THEN Return(c, at)
        ELSE Advance(c, at, next) /\ arg' = [arg EXCEPT ![c] = Arg(id, arg[c].from, arg[c].to)]
     /\ UNCHANGED <<newDB, oldDB, issued>>

\* An unbind skips the check that the new row is free.
AfterFind(c) == IF arg[c].to = 0 THEN "rebind" ELSE "exists"

\* The OpenID to move: the legacy database's row, the new one's, or a scan.
FindInOldDB(c)   == LookUp(c, "find", OldLookup(arg[c].from), AfterFind(c), "findrow")
FindInNewDB(c)   == LookUp(c, "findrow", newRev[arg[c].from], AfterFind(c), "findscan")
FindByScan(c)    == LookUp(c, "findscan", ScanForward(arg[c].from), AfterFind(c), "idle")

\* Mutants: the target's holder is not looked for; the old row is not deleted.
MCheckExists(c) ==
  Advance(c, "exists", "rebind") /\ UNCHANGED <<arg, newDB, oldDB, issued>>

MMovedRow(rev, c) ==
  IF arg[c].to = 0 THEN rev ELSE [rev EXCEPT ![arg[c].to] = arg[c].id]

CheckExists(c) ==
  /\ IF newRev[arg[c].to] # None THEN Return(c, "exists")
     ELSE Advance(c, "exists", "rebind") /\ UNCHANGED arg
  /\ UNCHANGED <<newDB, oldDB, issued>>

Moved(fwd, c) == IF arg[c].to = 0 THEN fwd ELSE [fwd EXCEPT ![arg[c].id] = arg[c].to]

MovedRow(rev, c) ==
  IF arg[c].to = 0 THEN [rev EXCEPT ![arg[c].from] = None]
  ELSE [rev EXCEPT ![arg[c].from] = None, ![arg[c].to] = arg[c].id]

RebindNew(c) == /\ Advance(c, "rebind", "rebindold")
                /\ newFwd' = Moved(newFwd, c)
                /\ newRev' = MovedRow(newRev, c)
                /\ UNCHANGED <<arg, marker, oldDB, issued>>

RebindOld(c) == /\ Return(c, "rebindold")
                /\ IF DuringMigration
                   THEN oldFwd' = Moved(oldFwd, c) /\ oldRev' = MovedRow(oldRev, c)
                   ELSE UNCHANGED <<oldFwd, oldRev>>
                /\ UNCHANGED <<newDB, hasOld, issued>>

\* retrieveIdentity (RetrieveRealValuev2, ResolveOriginalID): a row that only the
\* legacy database or the scan knows is written back.
CallResolve(c, v) == Call(c, "resolve", "resolve", Arg(None, v, 0))

RetrieveIdentity(c) ==
  LookUp(c, "resolve", None, "idle",
         IF newRev[arg[c].from] = None /\ hasOld THEN "again" ELSE "idle")

\* lazyMigrateIdentity: the new row again, the legacy row, or a scan.  A hit on
\* the counter's key is returned but is too short to be written back.
LazyFromNewDB(c) == LookUp(c, "again", newRev[arg[c].from], "writeback", "lazyold")
LazyFromOldDB(c) == LookUp(c, "lazyold", OldLookup(arg[c].from), "writeback", "lazyscan")
LazyByScan(c)    ==
  LET id == ScanForward(arg[c].from)
  IN LookUp(c, "lazyscan", id, IF id = Counter THEN "idle" ELSE "writeback", "idle")

WriteBackIdentity(c) ==
  /\ Return(c, "writeback")
  /\ newFwd' = [newFwd EXCEPT ![arg[c].id] = arg[c].from]
  /\ newRev' = [newRev EXCEPT ![arg[c].from] = arg[c].id]
  /\ UNCHANGED <<marker, oldDB, issued>>

Begin(c) == \/ \E a \in OpenIds : CallStore(c, a) \/ CallStoreID(c, a)
            \/ \E v, w \in Rows : CallUpdate(c, v, w)
            \/ \E v \in Rows : CallResolve(c, v)

Search(c) == \/ FindInOldDB(c) \/ FindInNewDB(c) \/ FindByScan(c)
             \/ CheckExists(c)
             \/ RetrieveIdentity(c)
             \/ LazyFromNewDB(c) \/ LazyFromOldDB(c) \/ LazyByScan(c)

Write(c) == \/ StoreIdentity(c)
            \/ DualWrite(c)
            \/ StoreInOldDB(c)
            \/ NewDBStore(c)
            \/ RebindNew(c)
            \/ RebindOld(c)
            \/ WriteBackIdentity(c)

CallerNext(c) == Begin(c) \/ Search(c) \/ Write(c)

-----------------------------------------------------------------------------
\* The background migration

Migrate(at, next) == /\ up
                     /\ mig = at
                     /\ mig' = next
                     /\ UNCHANGED <<oldDB, up, calls, issued, crashes>>

\* Mutants: the mark is set before the copy; the counter is left behind.
MCheckMarker == /\ Migrate("check", IF marker THEN "done" ELSE "mark")
                /\ cursor' = 1
                /\ UNCHANGED <<newDB, batchFwd, batchRev>>

MCounterCopied == newFwd

\* isMigrationComplete
CheckMarker == /\ Migrate("check", IF marker THEN "done" ELSE "sync")
               /\ cursor' = 1
               /\ UNCHANGED <<newDB, batchFwd, batchRev>>

\* Both StartMigration and migrateBucket copy the counter, if there is none yet.
CounterCopied ==
  [newFwd EXCEPT ![Counter] =
     IF hasOld /\ newFwd[Counter] = None THEN oldFwd[Counter] ELSE newFwd[Counter]]

SyncCounter == /\ Migrate("sync", "read")
               /\ newFwd' = CounterCopied
               /\ UNCHANGED <<newRev, marker, cursor, batchFwd, batchRev>>

\* Positions of the cursor: the OpenIDs, the counter, the rows.
CounterAt    == Len(KeyOrder) + 1
LastPosition == CounterAt + MaxRow + 1
RowAt(p)     == p - CounterAt - 1
PresentAt(p) == IF p <= CounterAt THEN oldFwd[KeyAt(p)] # None
                ELSE oldRev[RowAt(p)] # None
Ahead        == {p \in cursor..LastPosition : PresentAt(p)}

\* The counter is skipped without using up the batch.
Entries      == Ahead \ {CounterAt}
NextBatch    == {p \in Entries : Cardinality({q \in Entries : q < p}) < BatchSize}

\* What a full batch leaves for the next one, the counter's key included.
Left == {p \in Ahead : Cardinality(NextBatch) = BatchSize /\ \A q \in NextBatch : q < p}

\* Mutant: the cursor keeps the last key that was read, to which the next Seek goes back.
MReadBatch ==
  /\ Migrate("read", "write")
  /\ batchFwd' = [n \in Names |->
       IF \E p \in NextBatch : p < CounterAt /\ KeyAt(p) = n THEN oldFwd[n] ELSE None]
  /\ batchRev' = [r \in Rows |->
       IF \E p \in NextBatch : p > CounterAt /\ RowAt(p) = r THEN oldRev[r] ELSE None]
  /\ cursor' = IF Left = {} THEN LastPosition + 1
               ELSE CHOOSE p \in NextBatch : \A q \in NextBatch : q <= p
  /\ UNCHANGED newDB

\* readOldDBBatch: one read transaction; the cursor moves to the first key that
\* the batch leaves, or past the end.
ReadBatch ==
  /\ Migrate("read", "write")
  /\ batchFwd' = [n \in Names |->
       IF \E p \in NextBatch : p < CounterAt /\ KeyAt(p) = n THEN oldFwd[n] ELSE None]
  /\ batchRev' = [r \in Rows |->
       IF \E p \in NextBatch : p > CounterAt /\ RowAt(p) = r THEN oldRev[r] ELSE None]
  /\ cursor' = IF Left = {} THEN LastPosition + 1 ELSE First(Left)
  /\ UNCHANGED newDB

\* Mutant: a batch replaces the bucket.
MWriteBatch ==
  /\ Migrate("write", IF cursor > LastPosition THEN "verify" ELSE "read")
  /\ newFwd' = batchFwd /\ newRev' = batchRev
  /\ batchFwd' = NoFwd /\ batchRev' = NoRev
  /\ UNCHANGED <<marker, cursor>>

\* writeBatchToNewDB: keys that exist by now are left alone.
WriteBatch ==
  /\ Migrate("write", IF cursor > LastPosition THEN "verify" ELSE "read")
  /\ newFwd' = [n \in Names |-> Else(newFwd[n], batchFwd[n])]
  /\ newRev' = [r \in Rows |-> Else(newRev[r], batchRev[r])]
  /\ batchFwd' = NoFwd /\ batchRev' = NoRev
  /\ UNCHANGED <<marker, cursor>>

\* verifyBucket opens a read transaction on the new database, then one on the
\* legacy database, and compares every legacy entry but the counter.
OpenSnapshot(at, next) == /\ Migrate(at, next)
                          /\ batchFwd' = newFwd
                          /\ batchRev' = newRev
                          /\ UNCHANGED <<newDB, cursor>>

Agree == /\ \A a \in OpenIds : oldFwd[a] # None => batchFwd[a] = oldFwd[a]
         /\ \A r \in Rows : oldRev[r] # None => batchRev[r] = oldRev[r]

\* The other two buckets have a say in the verdict.
Compare(at, otherwise) == /\ \E others \in OtherBuckets :
                               Migrate(at, IF Agree /\ others THEN "mark" ELSE otherwise)
                          /\ batchFwd' = NoFwd /\ batchRev' = NoRev
                          /\ UNCHANGED <<newDB, cursor>>

Verify        == OpenSnapshot("verify", "compare")
CompareFirst  == Compare("compare", "repair")
VerifyAgain   == OpenSnapshot("reverify", "recompare")
CompareAgain  == Compare("recompare", "stuck")

\* repairBucket: the legacy entries overwrite the new ones, in one transaction.
Repair ==
  /\ Migrate("repair", "reverify")
  /\ newFwd' = [n \in Names |->
       IF n # Counter /\ oldFwd[n] # None THEN oldFwd[n] ELSE newFwd[n]]
  /\ newRev' = [r \in Rows |-> IF oldRev[r] # None THEN oldRev[r] ELSE newRev[r]]
  /\ UNCHANGED <<marker, cursor, batchFwd, batchRev>>

MarkComplete == /\ Migrate("mark", "done")
                /\ marker' = TRUE
                /\ UNCHANGED <<newFwd, newRev, cursor, batchFwd, batchRev>>

MigrationNext == \/ CheckMarker \/ SyncCounter \/ ReadBatch \/ WriteBatch
                 \/ Verify \/ CompareFirst \/ Repair \/ VerifyAgain \/ CompareAgain
                 \/ MarkComplete

-----------------------------------------------------------------------------
\* The process

\* InitializeDB and StartMigration: the counter is copied before anything else
\* runs, then the migration goroutine is started.
Start ==
  /\ ~up
  /\ up' = TRUE
  /\ newFwd' = CounterCopied
  /\ mig' = IF hasOld THEN "check" ELSE "off"
  /\ UNCHANGED <<newRev, marker, oldDB, cursor, batchFwd, batchRev, calls, issued, crashes>>

Crash ==
  /\ up
  /\ crashes < MaxCrashes
  /\ crashes' = crashes + 1
  /\ up' = FALSE
  /\ mig' = "off" /\ cursor' = 1 /\ batchFwd' = NoFwd /\ batchRev' = NoRev
  /\ pc' = [c \in Callers |-> "idle"]
  /\ arg' = [c \in Callers |-> NoArg]
  /\ UNCHANGED <<newDB, oldDB, issued>>

\* What finalizeOldDB's log invites the operator to do: stop, delete idmap.db.
DeleteOldDB ==
  /\ ~up /\ marker /\ hasOld
  /\ hasOld' = FALSE
  /\ oldFwd' = NoFwd /\ oldRev' = NoRev
  /\ UNCHANGED <<newDB, up, worker, calls, issued, crashes>>

Next == \/ \E c \in Callers : CallerNext(c)
        \/ MigrationNext
        \/ Start \/ Crash \/ DeleteOldDB

Spec == Init /\ [][Next]_vars

\* Goroutines are scheduled; the operator restarts the process.
Fairness == WF_vars(MigrationNext) /\ WF_vars(Start)

FairSpec == Spec /\ Fairness

-----------------------------------------------------------------------------
TypeOK ==
  /\ newFwd \in [Names -> Rows \cup {None}] /\ oldFwd \in [Names -> Rows \cup {None}]
  /\ newRev \in [Rows -> Names \cup {None}] /\ oldRev \in [Rows -> Names \cup {None}]
  /\ hasOld \in BOOLEAN /\ marker \in BOOLEAN /\ up \in BOOLEAN
  /\ mig \in {"off", "check", "sync", "read", "write", "verify", "compare", "repair",
               "reverify", "recompare", "mark", "done", "stuck"}
  /\ cursor \in Nat \ {0}
  /\ batchFwd \in [Names -> Rows \cup {None}] /\ batchRev \in [Rows -> Names \cup {None}]
  /\ pc \in [Callers -> {"idle", "store", "dual", "oldstore", "copy",
                         "find", "findrow", "findscan", "exists", "rebind", "rebindold",
                         "resolve", "again", "lazyold", "lazyscan", "writeback"}]
  /\ arg \in [Callers -> [id : Names \cup {None}, from : Rows, to : Rows]]
  /\ issued \in [OpenIds -> SUBSET Rows]
  /\ crashes \in 0..MaxCrashes

\* An OpenID that has an entry never loses it again, whatever runs concurrently.
EntriesStay == [][\A a \in OpenIds : newFwd[a] # None => newFwd'[a] # None]_vars

\* Once the migration is marked complete the legacy file may be deleted: every
\* OpenID that was ever given a virtual id, by the legacy installation or since,
\* has an entry in the new database, whatever crashed or raced before.
NoIdentityLost ==
  marker => \A a \in OpenIds : issued[a] # {} => newFwd[a] # None

\* There never was a legacy database.
FreshInstall == ~hasOld /\ ~marker

\* A virtual id that OneBot clients were shown leads their actions back to the
\* same OpenID.  Where a legacy database is migrated while bind commands run, the
\* two databases can disagree about a moved row; without it, or without binds,
\* they cannot.
Undisturbed == FreshInstall \/ Ops \cap {"bind", "unbind"} = {}

RoundTrip ==
  Undisturbed => \A a \in OpenIds : Known(a) => RetrieveRowByIDv2(newFwd[a]) = a

\* No reverse row outlives its binding: who is found under a virtual id has it.
ReverseConsistent ==
  Undisturbed => \A v \in Rows \ {0} : newRev[v] # None => newFwd[newRev[v]] = v

\* Two OpenIDs never share a virtual id.
DistinctIds ==
  \A a, b \in OpenIds : a # b /\ Known(a) => newFwd[a] # newFwd[b]

\* Without bind commands an OpenID keeps the virtual id it was given first, the
\* legacy installation's included (docs/idmap.md:113).
OneVirtualId == \A a \in OpenIds : Cardinality(issued[a]) <= 1

\* Where nothing is migrated, nothing but a bind command moves an OpenID from the
\* virtual id it has to another one: no lookup does, and no registration.  And a bind
\* from v moves the OpenID that has v, not one that had it earlier, and never takes w
\* from an OpenID that has it.
OnlyBindsMove ==
  [][FreshInstall =>
       /\ \A a \in OpenIds :
            Known(a) /\ newFwd'[a] # newFwd[a] => \E c \in Callers : RebindNew(c)
       /\ \A c \in Callers :
            RebindNew(c) => /\ newFwd[arg[c].id] = arg[c].from
                            /\ \A a \in OpenIds \ {arg[c].id} : newFwd[a] # arg[c].to]_vars

\* A verification compares with a snapshot that a registration has overtaken: an OpenID
\* that the snapshot lacks is in both databases by now.
Overtaken(at) ==
  mig = at /\ \E a \in OpenIds : /\ batchFwd[a] = None
                               /\ oldFwd[a] # None /\ newFwd[a] = oldFwd[a]

\* With ids derived from the OpenID, whatever is registered and looked up meanwhile, a
\* migration that is started ends with the mark, unless the process dies or registrations
\* overtake the first verification and, after the repair, the second one too; then there
\* is no mark until a restart (new_service.go:658-664).
MigrationCompletes ==
  \A at \in {"compare", "recompare"} : mig = "check" ~> mig = "done" \/ ~up \/ Overtaken(at)
=============================================================================
