------------------------ MODULE IdentityMapProofs --------------------------
(***************************************************************************)
(* For any number of OpenIDs, rows, callers and crashes, any legacy        *)
(* database and either way of choosing ids: no OpenID's entry vanishes     *)
(* from the new database, and once the migration is marked complete every  *)
(* OpenID that was ever given a virtual id has an entry there.             *)
(*                                                                         *)
(* NoIdentityLost is not inductive: it needs to know where an identity is  *)
(* while the mark is not set (Kept), that the verification's snapshot only *)
(* shrinks against the live database (SnapshotInv), and that the verdict   *)
(* stays true until the mark is written (Covered).                         *)
(*                                                                         *)
(* For an installation that never had a legacy database, and any number of *)
(* registrations and lookups at the same time: the map is one to one, and  *)
(* does not change its mind.  With ids derived from the OpenID and one     *)
(* caller, the same map under bind commands: only they move an OpenID.     *)
(*                                                                         *)
(* While a legacy database is migrated, without binds: every row in any of *)
(* the tables, in a batch or in a caller's hands belongs to the OpenID it  *)
(* is filed under (OwnInv).  Where rows are counted, all of them are at    *)
(* most the counter that the next one is taken from (CountedInv), so no    *)
(* two OpenIDs share one.  Where they are derived from the OpenID, no      *)
(* reverse row is in the new database ahead of its entry, because a batch  *)
(* takes the keys in order and calls write the new database first          *)
(* (HashedInv), so nobody's virtual id changes.                            *)
(***************************************************************************)
EXTENDS IdentityMap, FiniteSetTheorems, WellFoundedInduction, TLAPS

\* Who has an id to store knows for which OpenID.
ArgInv == \A c \in Callers :
            pc[c] \in {"store", "dual", "oldstore", "copy"} => arg[c].id \in OpenIds

\* An OpenID with a virtual id is in one of the databases.
Kept == \A a \in OpenIds : issued[a] # {} => newFwd[a] # None \/ oldFwd[a] # None

\* What the verification saw in the new database is still there.
SnapshotInv ==
  mig \in {"compare", "recompare"} =>
    \A a \in OpenIds : batchFwd[a] # None => newFwd[a] # None

\* From the verdict on, the new database alone is enough.
Covered ==
  mig = "mark" \/ marker =>
    \A a \in OpenIds : issued[a] # {} => newFwd[a] # None

IInv == TypeOK /\ ArgInv /\ Kept /\ SnapshotInv /\ Covered

-----------------------------------------------------------------------------
\* Operators

\* A nonempty set of naturals has a least element, so First names one.
LEMMA LeastExists ==
  ASSUME NEW T, T \subseteq Nat, T # {} PROVE \E x \in T : \A y \in T : x <= y
<1> DEFINE R == {ss \in Nat \X Nat : ss[1] < ss[2]}
<1>1. IsWellFoundedOn(R, Nat)
  BY NatLessThanWellFounded DEF OpToRel
<1> HIDE DEF R
<1>2. PICK x \in T : \A y \in T : ~ (<<y, x>> \in R)
  BY <1>1, WFMin
<1>3. ASSUME NEW y \in T PROVE x <= y
  <2>1. x \in Nat /\ y \in Nat
    OBVIOUS
  <2>2. ~ (y < x)
    BY <1>2, <2>1 DEF R
  <2> QED
    BY <2>1, <2>2
<1> QED
  BY <1>3

LEMMA FirstIsLeast ==
  ASSUME NEW T, T \subseteq Nat, NEW k \in T PROVE First(T) \in T /\ First(T) <= k
<1>1. PICK x \in T : \A y \in T : x <= y
  BY LeastExists
<1> QED
  BY <1>1 DEF First

LEMMA LeastNatural ==
  ASSUME NEW T, T \subseteq Nat, T # {}
  PROVE  First(T) \in T
BY FirstIsLeast

\* A finite one has a greatest element too: the least distance to a bound above it.
LEMMA GreatestExists ==
  ASSUME NEW T, T \subseteq Nat, T # {}, NEW top \in Nat, \A x \in T : x <= top
  PROVE  \E x \in T : \A y \in T : y <= x
<1> DEFINE D == {d \in Nat : \E x \in T : d = top - x}
<1>1. \A x \in T : x \in Nat /\ top - x \in D
  OBVIOUS
<1>2. PICK d \in D : \A e \in D : d <= e
  BY <1>1, LeastExists
<1>3. PICK x \in T : d = top - x
  OBVIOUS
<1>4. ASSUME NEW y \in T PROVE y <= x
  <2>1. x \in Nat /\ y \in Nat /\ d <= top - y
    BY <1>1, <1>2
  <2> QED
    BY <1>3, <2>1
<1> QED
  BY <1>4

\* The scan over the forward entries finds an entry with the row, or nothing.
LEMMA ScanFindsHolder ==
  ASSUME TypeOK, NEW v \in Rows
  PROVE  ScanForward(v) # None => ScanForward(v) \in Names /\ newFwd[ScanForward(v)] = v
<1> SUFFICES ASSUME Holders(v) # {}
             PROVE  ScanForward(v) \in Names /\ newFwd[ScanForward(v)] = v
  BY DEF ScanForward
<1>1. Len(KeyOrder) \in Nat
  BY KeyOrderAssumption
<1>2. First(Holders(v)) \in Holders(v)
  BY <1>1, LeastNatural DEF Holders
<1>3. \A p \in 1..Len(KeyOrder) + 1 : KeyAt(p) \in Names
  BY <1>1, KeyOrderAssumption DEF KeyAt, Names
<1> QED
  BY <1>2, <1>3 DEF ScanForward, Holders

\* A row for a new identity is in range.
LEMMA NewRowsAreRows ==
  ASSUME NEW a \in OpenIds, NEW fwd, NEW rev
  PROVE  NewRows(a, fwd, rev) \subseteq Rows
<1>1. ASSUME NEW k \in DOMAIN HashRows[a] PROVE HashRows[a][k] \in Rows
  BY HashAssumption
<1> QED
  BY <1>1 DEF NewRows, Free

-----------------------------------------------------------------------------
\* Type correctness

LEMMA ConstantTypes == /\ 0 \in Rows /\ Counter \in Names /\ None \notin Names
                       /\ OpenIds \subseteq Names /\ None \notin Rows
                       /\ Rows \subseteq Nat
BY OpenIdsAssumption, BoundsAssumption DEF Rows, Names

LEMMA InitType == Init => TypeOK /\ ArgInv
<1> SUFFICES ASSUME Init PROVE TypeOK /\ ArgInv
  OBVIOUS
<1> USE ConstantTypes DEF Init
<1>1. PICK l \in Legacies :
        /\ oldFwd = IF l = None THEN NoFwd ELSE l
        /\ oldRev = [r \in Rows |->
                       IF l # None /\ \E a \in OpenIds : l[a] = r
                       THEN CHOOSE a \in OpenIds : l[a] = r ELSE None]
        /\ issued = [a \in OpenIds |->
                       IF l # None /\ l[a] # None THEN {l[a]} \ {0} ELSE {}]
  OBVIOUS
<1>2. l # None => l \in [Names -> Rows \cup {None}]
  BY LegacyAssumption
<1>3. oldFwd \in [Names -> Rows \cup {None}]
  BY <1>1, <1>2 DEF NoFwd
<1>4. oldRev \in [Rows -> Names \cup {None}]
  BY <1>1
<1>5. issued \in [OpenIds -> SUBSET Rows]
  BY <1>1, <1>2
<1>6. crashes \in 0..MaxCrashes
  BY BoundsAssumption
<1>7. cursor \in Nat \ {0}
  OBVIOUS
<1> QED
  BY <1>3, <1>4, <1>5, <1>6, <1>7 DEF TypeOK, ArgInv, NoFwd, NoRev, NoArg, Arg

\* A call and a search change their caller's program counter and arguments only.
LEMMA BeginType ==
  ASSUME TypeOK, ArgInv, NEW c \in Callers, Begin(c)
  PROVE  TypeOK' /\ ArgInv'
<1> USE ConstantTypes DEF TypeOK, ArgInv
<1>1. ASSUME NEW op,
             NEW entry \in {"store", "oldstore", "find", "resolve"},
             NEW id \in Names \cup {None}, NEW v \in Rows, NEW w \in Rows,
             entry \in {"store", "oldstore"} => id \in OpenIds,
             Call(c, op, entry, Arg(id, v, w))
      PROVE  TypeOK' /\ ArgInv'
  <2>1. Arg(id, v, w) \in [id : Names \cup {None}, from : Rows, to : Rows]
        /\ Arg(id, v, w).id = id
    BY DEF Arg
  <2> HIDE DEF Arg
  <2> QED
    BY <1>1, <2>1 DEF Call, newDB, oldDB, worker
<1>2. ASSUME NEW a \in OpenIds, CallStore(c, a) PROVE TypeOK' /\ ArgInv'
  BY <1>1, <1>2 DEF CallStore
<1>3. ASSUME NEW a \in OpenIds, CallStoreID(c, a) PROVE TypeOK' /\ ArgInv'
  BY <1>1, <1>3 DEF CallStoreID
<1>4. ASSUME NEW v \in Rows, NEW w \in Rows, CallUpdate(c, v, w)
      PROVE  TypeOK' /\ ArgInv'
  BY <1>1, <1>4 DEF CallUpdate
<1>5. ASSUME NEW v \in Rows, CallResolve(c, v) PROVE TypeOK' /\ ArgInv'
  BY <1>1, <1>5 DEF CallResolve
<1> QED
  BY <1>2, <1>3, <1>4, <1>5 DEF Begin

Searching == {"find", "findrow", "findscan", "exists", "rebind",
              "resolve", "again", "lazyold", "lazyscan", "writeback", "idle"}

LEMMA SearchType ==
  ASSUME TypeOK, ArgInv, NEW c \in Callers, Search(c)
  PROVE  TypeOK' /\ ArgInv' /\ UNCHANGED <<newDB, oldDB, issued, worker, up>>
<1> USE ConstantTypes DEF TypeOK, ArgInv
<1>0. arg[c].from \in Rows /\ arg[c] \in [id : Names \cup {None}, from : Rows, to : Rows]
  OBVIOUS
<1>1. ASSUME NEW at, NEW id \in Names \cup {None},
             NEW found \in Searching, NEW otherwise \in Searching,
             LookUp(c, at, id, found, otherwise)
      PROVE  TypeOK' /\ ArgInv' /\ UNCHANGED <<newDB, oldDB, issued, worker, up>>
  <2>1. PICK next \in Searching :
          IF next = "idle" THEN Return(c, at)
          ELSE Advance(c, at, next) /\ arg' = [arg EXCEPT ![c] = Arg(id, arg[c].from, arg[c].to)]
    BY <1>1 DEF LookUp
  <2>2. Arg(id, arg[c].from, arg[c].to) \in [id : Names \cup {None}, from : Rows, to : Rows]
    BY <1>0 DEF Arg
  <2>3. NoArg \in [id : Names \cup {None}, from : Rows, to : Rows]
    BY DEF Arg, NoArg
  <2>4. PICK b \in [id : Names \cup {None}, from : Rows, to : Rows] :
          Advance(c, at, next) /\ arg' = [arg EXCEPT ![c] = b]
    BY <2>1, <2>2, <2>3 DEF Return
  <2> QED
    BY <1>1, <2>4 DEF LookUp, Advance, Searching, newDB, oldDB, worker
<1>2. ScanForward(arg[c].from) \in Names \cup {None}
  BY <1>0, ScanFindsHolder
<1>3. OldLookup(arg[c].from) \in Names \cup {None}
  BY <1>0 DEF OldLookup
<1>4. newRev[arg[c].from] \in Names \cup {None}
  BY <1>0
<1>5. AfterFind(c) \in Searching
  BY DEF AfterFind, Searching
<1>6. CASE CheckExists(c)
  BY <1>6, <1>0 DEF CheckExists, Return, Advance, NoArg, Arg, newDB, oldDB, worker
<1> USE DEF Searching
<1>7. CASE FindInOldDB(c) \/ FindInNewDB(c) \/ FindByScan(c)
  <2> USE DEF FindInOldDB, FindInNewDB, FindByScan
  <2>1. PICK at \in {"find", "findrow", "findscan"} :
          \E id \in Names \cup {None}, found, otherwise \in Searching :
            LookUp(c, at, id, found, otherwise)
    <3> HIDE DEF TypeOK, ArgInv
    <3>1. CASE FindInOldDB(c)
      BY <1>3, <1>5, <3>1
    <3>2. CASE FindInNewDB(c)
      BY <1>4, <1>5, <3>2
    <3>3. CASE FindByScan(c)
      BY <1>2, <1>5, <3>3
    <3> QED
      BY <1>7, <3>1, <3>2, <3>3
  <2> HIDE DEF TypeOK, ArgInv, Searching
  <2> QED
    BY <1>1, <2>1
<1>8. CASE RetrieveIdentity(c)
  <2>1. (IF newRev[arg[c].from] = None /\ hasOld THEN "again" ELSE "idle") \in Searching
    OBVIOUS
  <2> QED
    BY <1>1, <1>8, <2>1 DEF RetrieveIdentity
<1>9. CASE LazyFromNewDB(c) \/ LazyFromOldDB(c)
  BY <1>1, <1>3, <1>4, <1>9 DEF LazyFromNewDB, LazyFromOldDB
<1>10. CASE LazyByScan(c)
  <2>1. (IF ScanForward(arg[c].from) = Counter THEN "idle" ELSE "writeback") \in Searching
    OBVIOUS
  <2> QED
    BY <1>1, <1>2, <1>10, <2>1 DEF LazyByScan
<1> QED
  BY <1>6, <1>7, <1>8, <1>9, <1>10 DEF Search

Args == [id : Names \cup {None}, from : Rows, to : Rows]

LEMMA WriteType ==
  ASSUME TypeOK, ArgInv, NEW c \in Callers, Write(c)
  PROVE  TypeOK' /\ ArgInv'
<1> USE ConstantTypes DEF TypeOK, ArgInv, oldDB
<1> DEFINE a == arg[c].id
<1>1. arg[c] \in Args /\ a \in Names \cup {None} /\ arg[c].from \in Rows /\ arg[c].to \in Rows
  BY DEF Args
<1>2. NoArg \in Args
  BY DEF Arg, NoArg, Args
<1>3. ASSUME a \in OpenIds, NEW r \in Rows
      PROVE  Arg(a, 0, r) \in Args /\ Arg(a, 0, r).id = a
  BY <1>3 DEF Arg, Args
<1>4. ASSUME NEW at, Return(c, at)
      PROVE  /\ pc' \in [Callers -> {"idle", "store", "dual", "oldstore", "copy",
                         "find", "findrow", "findscan", "exists", "rebind", "rebindold",
                         "resolve", "again", "lazyold", "lazyscan", "writeback"}]
             /\ arg' \in [Callers -> Args] /\ ArgInv' /\ UNCHANGED <<worker, up, crashes>>
  BY <1>2, <1>4 DEF Return, Advance, Args, worker
<1>5. ASSUME a \in OpenIds, NEW fwd \in [Names -> Rows \cup {None}], NEW r \in Rows
      PROVE  WithRow(fwd, a, r) \in [Names -> Rows \cup {None}]
  BY <1>5 DEF WithRow
<1>6. CASE StoreIdentity(c)
  <2> DEFINE cleared == IF newFwd[a] = 0 THEN [newRev EXCEPT ![0] = None] ELSE newRev
             rows    == NewRows(a, newFwd, cleared)
  <2>1. a \in OpenIds /\ pc[c] = "store"
    BY <1>6 DEF StoreIdentity
  <2>2. rows \subseteq Rows
    BY <2>1, NewRowsAreRows
  <2>3. cleared \in [Rows -> Names \cup {None}]
    OBVIOUS
  <2>4. CASE /\ Known(a)
             /\ Advance(c, "store", "dual")
             /\ arg' = [arg EXCEPT ![c] = Arg(a, 0, newFwd[a])]
             /\ issued' = [issued EXCEPT ![a] = @ \cup {newFwd[a]}]
             /\ UNCHANGED <<newFwd, newRev, marker, oldDB>>
    <3>1. newFwd[a] \in Rows
      BY <2>1, <2>4 DEF Known
    <3> QED
      BY <1>3, <2>1, <2>4, <3>1 DEF Advance, worker, Args
  <2> HIDE DEF cleared, rows
  <2>5. ASSUME NEW r \in Rows,
               /\ Advance(c, "store", "dual")
               /\ newFwd' = WithRow(newFwd, a, r)
               /\ newRev' = [cleared EXCEPT ![r] = a]
               /\ arg' = [arg EXCEPT ![c] = Arg(a, 0, r)]
               /\ issued' = [issued EXCEPT ![a] = @ \cup {r}]
               /\ UNCHANGED <<marker, oldDB>>
        PROVE  TypeOK' /\ ArgInv'
    <3>1. newFwd' \in [Names -> Rows \cup {None}]
      BY <1>5, <2>1, <2>5
    <3>2. newRev' \in [Rows -> Names \cup {None}]
      BY <2>1, <2>3, <2>5
    <3> QED
      BY <1>3, <2>1, <2>5, <3>1, <3>2 DEF Advance, worker, Args
  <2>6. CASE Return(c, "store") /\ UNCHANGED <<newFwd, newRev, issued, marker, oldDB>>
    BY <1>4, <2>6 DEF worker, Args
  <2> QED
    BY <1>6, <2>2, <2>4, <2>5, <2>6 DEF StoreIdentity, rows, cleared
<1>7. CASE DualWrite(c)
  BY <1>1, <1>4, <1>7 DEF DualWrite, newDB, worker, Args
<1>8. CASE StoreInOldDB(c)
  <2> DEFINE rows == NewRows(a, oldFwd, oldRev)
  <2>1. a \in OpenIds /\ pc[c] = "oldstore"
    BY <1>8 DEF StoreInOldDB
  <2>2. rows \subseteq Rows
    BY <2>1, NewRowsAreRows
  <2> HIDE DEF rows
  <2>3. ASSUME NEW r \in Rows,
               /\ Advance(c, "oldstore", "copy")
               /\ oldFwd' = WithRow(oldFwd, a, r) \/ UNCHANGED oldFwd
               /\ oldRev' = [oldRev EXCEPT ![r] = a] \/ UNCHANGED oldRev
               /\ arg' = [arg EXCEPT ![c] = Arg(a, 0, r)]
               /\ UNCHANGED <<newDB, hasOld, issued>>
        PROVE  TypeOK' /\ ArgInv'
    <3>1. oldFwd' \in [Names -> Rows \cup {None}]
      BY <1>5, <2>1, <2>3
    <3>2. oldRev' \in [Rows -> Names \cup {None}]
      BY <2>1, <2>3
    <3> QED
      BY <1>3, <2>1, <2>3, <3>1, <3>2 DEF Advance, worker, Args, newDB
  <2>4. CASE Return(c, "oldstore") /\ UNCHANGED <<newDB, hasOld, issued, oldFwd, oldRev>>
    BY <1>4, <2>4 DEF worker, Args, newDB
  <2>5. oldFwd[a] # None => oldFwd[a] \in Rows
    BY <2>1
  <2> QED
    BY <1>8, <2>2, <2>3, <2>4, <2>5 DEF StoreInOldDB, rows
<1>9. CASE NewDBStore(c)
  <2>1. a \in OpenIds
    BY <1>9 DEF NewDBStore, Return, Advance
  <2> QED
    BY <1>1, <1>4, <1>9, <2>1 DEF NewDBStore, worker, Args
<1>10. CASE RebindNew(c)
  <2>1. Moved(newFwd, c) \in [Names -> Rows \cup {None}]
    BY <1>1 DEF Moved
  <2>2. MovedRow(newRev, c) \in [Rows -> Names \cup {None}]
    BY <1>1 DEF MovedRow
  <2> QED
    BY <1>10, <2>1, <2>2 DEF RebindNew, Advance, worker
<1>11. CASE RebindOld(c)
  BY <1>1, <1>4, <1>11 DEF RebindOld, Moved, MovedRow, newDB, worker, Args
<1>12. CASE WriteBackIdentity(c)
  BY <1>1, <1>4, <1>12 DEF WriteBackIdentity, worker, Args
<1> QED
  BY <1>6, <1>7, <1>8, <1>9, <1>10, <1>11, <1>12 DEF Write

LEMMA MigrationType ==
  ASSUME TypeOK, ArgInv, MigrationNext
  PROVE  TypeOK' /\ ArgInv'
<1> USE ConstantTypes DEF TypeOK, ArgInv, Migrate, oldDB, calls, newDB
<1>1. Len(KeyOrder) \in Nat /\ MaxRow \in Nat
  BY KeyOrderAssumption, BoundsAssumption
<1>2. CASE CheckMarker \/ SyncCounter \/ MarkComplete
  <2>1. CASE CheckMarker
    BY <2>1 DEF CheckMarker
  <2>2. CASE SyncCounter
    BY <2>2 DEF SyncCounter, CounterCopied
  <2>3. CASE MarkComplete
    BY <2>3 DEF MarkComplete
  <2> QED
    BY <1>2, <2>1, <2>2, <2>3
<1>3. CASE ReadBatch
  <2>1. LastPosition + 1 \in Nat \ {0}
    BY <1>1 DEF LastPosition, CounterAt
  <2>2. Left \subseteq Nat \ {0}
    BY <2>1 DEF Left, Ahead
  <2>3. cursor' \in Nat \ {0}
    BY <1>3, <2>1, <2>2, LeastNatural DEF ReadBatch
  <2> QED
    BY <1>3, <2>3 DEF ReadBatch
<1>4. CASE WriteBatch
  BY <1>4 DEF WriteBatch, Else, NoFwd, NoRev
<1>5. CASE Verify \/ VerifyAgain
  BY <1>5 DEF Verify, VerifyAgain, OpenSnapshot
<1>6. CASE CompareFirst \/ CompareAgain
  BY <1>6 DEF CompareFirst, CompareAgain, Compare, NoFwd, NoRev
<1>7. CASE Repair
  BY <1>7 DEF Repair
<1> QED
  BY <1>2, <1>3, <1>4, <1>5, <1>6, <1>7 DEF MigrationNext

LEMMA TypeStep == TypeOK /\ ArgInv /\ [Next]_vars => TypeOK' /\ ArgInv'
<1> SUFFICES ASSUME TypeOK, ArgInv, [Next]_vars PROVE TypeOK' /\ ArgInv'
  OBVIOUS
<1>1. CASE UNCHANGED vars
  BY <1>1 DEF vars, newDB, oldDB, worker, calls, TypeOK, ArgInv
<1>2. CASE \E c \in Callers : CallerNext(c)
  BY <1>2, BeginType, SearchType, WriteType DEF CallerNext
<1>3. CASE MigrationNext
  BY <1>3, MigrationType
<1> USE ConstantTypes DEF TypeOK, ArgInv, newDB, oldDB, worker, calls
<1>4. CASE Start
  BY <1>4 DEF Start, CounterCopied
<1>5. CASE Crash
  <2>1. crashes' \in 0..MaxCrashes
    BY <1>5, BoundsAssumption DEF Crash
  <2>2. arg' \in [Callers -> [id : Names \cup {None}, from : Rows, to : Rows]]
    BY <1>5 DEF Crash, NoArg, Arg
  <2>3. batchFwd' \in [Names -> Rows \cup {None}] /\ batchRev' \in [Rows -> Names \cup {None}]
    BY <1>5 DEF Crash, NoFwd, NoRev
  <2>4. pc' = [d \in Callers |-> "idle"] /\ mig' = "off" /\ up' = FALSE
        /\ UNCHANGED <<newFwd, newRev, marker, oldFwd, oldRev, hasOld, issued>>
    BY <1>5 DEF Crash
  <2>5. cursor' \in Nat \ {0}
    BY <1>5 DEF Crash
  <2> QED
    BY <2>1, <2>2, <2>3, <2>4, <2>5
<1>6. CASE DeleteOldDB
  BY <1>6 DEF DeleteOldDB, NoFwd, NoRev
<1> QED
  BY <1>1, <1>2, <1>3, <1>4, <1>5, <1>6 DEF Next

-----------------------------------------------------------------------------
\* What a step does to the identities

\* storeIdentity finds the entry, adds one, or fails.
LEMMA StoreIdentityEffect ==
  ASSUME TypeOK, ArgInv, NEW c \in Callers, StoreIdentity(c)
  PROVE  /\ arg[c].id \in OpenIds
         /\ \/ UNCHANGED <<newFwd, issued>>
            \/ /\ newFwd[arg[c].id] # None
               /\ UNCHANGED newFwd
               /\ issued' = [issued EXCEPT ![arg[c].id] = @ \cup {newFwd[arg[c].id]}]
            \/ \E r \in Rows :
                 /\ newFwd' = WithRow(newFwd, arg[c].id, r)
                 /\ issued' = [issued EXCEPT ![arg[c].id] = @ \cup {r}]
<1> DEFINE cleared == IF newFwd[arg[c].id] = 0 THEN [newRev EXCEPT ![0] = None] ELSE newRev
           rows    == NewRows(arg[c].id, newFwd, cleared)
<1>1. arg[c].id \in OpenIds
  BY DEF StoreIdentity, ArgInv
<1>2. rows \subseteq Rows
  BY <1>1, NewRowsAreRows
<1> HIDE DEF cleared, rows
<1> QED
  BY <1>1, <1>2 DEF StoreIdentity, Known, rows, cleared

\* What a search leaves its caller with.
LEMMA SearchEffect ==
  ASSUME TypeOK, NEW c \in Callers, Search(c)
  PROVE  /\ UNCHANGED <<newFwd, newRev, marker, oldFwd, oldRev, hasOld, issued, up, mig, cursor,
                        batchFwd, batchRev, crashes>>
         /\ \A d \in Callers \ {c} : pc'[d] = pc[d] /\ arg'[d] = arg[d]
         /\ \/ pc'[c] = "idle"
            \/ /\ pc[c] \in {"find", "findrow"} /\ pc'[c] \in {"findrow", "findscan"}
               /\ arg'[c].to = arg[c].to
            \/ /\ pc[c] \in {"find", "findrow", "findscan"} /\ pc'[c] = AfterFind(c)
               /\ arg'[c].to = arg[c].to /\ arg'[c].from = arg[c].from
               /\ arg'[c].id \in Names
               /\ \/ arg'[c].id = OldLookup(arg[c].from)
                  \/ arg'[c].id = newRev[arg[c].from]
                  \/ newFwd[arg'[c].id] = arg[c].from
            \/ /\ pc[c] = "exists" /\ pc'[c] = "rebind" /\ arg'[c] = arg[c]
               /\ newRev[arg[c].to] = None
            \/ hasOld /\ pc[c] = "resolve" /\ pc'[c] = "again"
            \/ pc[c] \in {"again", "lazyold"} /\ pc'[c] \in {"lazyold", "lazyscan"}
            \/ /\ pc[c] \in {"again", "lazyold", "lazyscan"} /\ pc'[c] = "writeback"
               /\ arg'[c].from = arg[c].from /\ arg'[c].id \in Names
               /\ \/ arg'[c].id = OldLookup(arg[c].from)
                  \/ arg'[c].id = newRev[arg[c].from]
                  \/ arg'[c].id # Counter /\ newFwd[arg'[c].id] = arg[c].from
<1> USE ConstantTypes DEF TypeOK
<1>0. arg[c] \in Args /\ arg[c].from \in Rows
  BY DEF Args
<1>1. ASSUME NEW at, NEW id, NEW found, NEW otherwise, LookUp(c, at, id, found, otherwise)
      PROVE  /\ UNCHANGED <<newFwd, newRev, marker, oldFwd, oldRev, hasOld, issued, up, mig,
                            cursor, batchFwd, batchRev, crashes>>
             /\ \A d \in Callers \ {c} : pc'[d] = pc[d] /\ arg'[d] = arg[d]
             /\ pc[c] = at /\ pc'[c] = IF id = None THEN otherwise ELSE found
             /\ pc'[c] # "idle" => /\ arg'[c].id = id /\ arg'[c].from = arg[c].from
                                   /\ arg'[c].to = arg[c].to
  BY <1>1 DEF LookUp, Return, Advance, Arg, newDB, oldDB, worker
<1>2. CASE FindInOldDB(c)
  <2>1. OldLookup(arg[c].from) \in Names \cup {None}
    BY <1>0 DEF OldLookup
  <2> QED
    BY <1>1, <1>2, <2>1 DEF FindInOldDB, AfterFind
<1>3. CASE FindInNewDB(c)
  <2>1. newRev[arg[c].from] \in Names \cup {None}
    BY <1>0
  <2> QED
    BY <1>1, <1>3, <2>1 DEF FindInNewDB, AfterFind
<1>4. CASE FindByScan(c)
  <2>1. ScanForward(arg[c].from) # None =>
          ScanForward(arg[c].from) \in Names /\ newFwd[ScanForward(arg[c].from)] = arg[c].from
    BY <1>0, ScanFindsHolder
  <2> QED
    BY <1>1, <1>4, <2>1 DEF FindByScan, AfterFind
<1>5. CASE CheckExists(c)
  BY <1>5 DEF CheckExists, Return, Advance, newDB, oldDB, worker
<1>6. CASE RetrieveIdentity(c)
  BY <1>1, <1>6 DEF RetrieveIdentity
<1>7. CASE LazyFromNewDB(c)
  <2>1. newRev[arg[c].from] \in Names \cup {None}
    BY <1>0
  <2> QED
    BY <1>1, <1>7, <2>1 DEF LazyFromNewDB
<1>8. CASE LazyFromOldDB(c)
  <2>1. OldLookup(arg[c].from) \in Names \cup {None}
    BY <1>0 DEF OldLookup
  <2> QED
    BY <1>1, <1>8, <2>1 DEF LazyFromOldDB
<1>9. CASE LazyByScan(c)
  <2>1. ScanForward(arg[c].from) # None =>
          ScanForward(arg[c].from) \in Names /\ newFwd[ScanForward(arg[c].from)] = arg[c].from
    BY <1>0, ScanFindsHolder
  <2> QED
    BY <1>1, <1>9, <2>1 DEF LazyByScan
<1> QED
  BY <1>2, <1>3, <1>4, <1>5, <1>6, <1>7, <1>8, <1>9 DEF Search

\* No step takes an OpenID's entry out of the new database.
LEMMA EntryStays ==
  ASSUME TypeOK, ArgInv, [Next]_vars, NEW a \in OpenIds, newFwd[a] # None
  PROVE  newFwd'[a] # None
<1> USE ConstantTypes, OpenIdsAssumption DEF TypeOK, newDB, oldDB
<1>1. CASE UNCHANGED vars
  BY <1>1 DEF vars
<1>2. ASSUME NEW c \in Callers, Begin(c) PROVE newFwd'[a] # None
  BY <1>2 DEF Begin, CallStore, CallStoreID, CallUpdate, CallResolve, Call
<1>3. ASSUME NEW c \in Callers, Search(c) PROVE newFwd'[a] # None
  BY <1>3, SearchType
<1>4. ASSUME NEW c \in Callers, Write(c) PROVE newFwd'[a] # None
  <2>1. arg[c].to \in Rows /\ arg[c].from \in Rows
    OBVIOUS
  <2>2. CASE StoreIdentity(c)
    <3>1. ASSUME NEW r \in Rows, newFwd' = WithRow(newFwd, arg[c].id, r), arg[c].id \in OpenIds
          PROVE  newFwd'[a] # None
      BY <3>1 DEF WithRow
    <3> QED
      BY <2>2, <3>1, StoreIdentityEffect
  <2>3. CASE NewDBStore(c)
    BY <2>1, <2>3 DEF NewDBStore
  <2>4. CASE RebindNew(c)
    BY <2>1, <2>4 DEF RebindNew, Moved
  <2>5. CASE WriteBackIdentity(c)
    BY <2>1, <2>5 DEF WriteBackIdentity
  <2>6. CASE DualWrite(c) \/ StoreInOldDB(c) \/ RebindOld(c)
    BY <2>6 DEF DualWrite, StoreInOldDB, RebindOld
  <2> QED
    BY <1>4, <2>2, <2>3, <2>4, <2>5, <2>6 DEF Write
<1>5. CASE MigrationNext
  <2>1. CASE SyncCounter
    BY <2>1 DEF SyncCounter, CounterCopied
  <2>2. CASE WriteBatch
    BY <2>2 DEF WriteBatch, Else
  <2>3. CASE Repair
    BY <2>3 DEF Repair
  <2> QED
    BY <1>5, <2>1, <2>2, <2>3 DEF MigrationNext, CheckMarker, ReadBatch, Verify, VerifyAgain,
       OpenSnapshot, CompareFirst, CompareAgain, Compare, MarkComplete
<1>6. CASE Start \/ Crash \/ DeleteOldDB
  BY <1>6 DEF Start, CounterCopied, Crash, DeleteOldDB
<1> QED
  BY <1>1, <1>2, <1>3, <1>4, <1>5, <1>6 DEF Next, CallerNext

\* The legacy entry goes only with the legacy file, after the mark.
LEMMA OldEntryStays ==
  ASSUME TypeOK, ArgInv, [Next]_vars, NEW a \in OpenIds, oldFwd[a] # None
  PROVE  oldFwd'[a] # None \/ marker
<1> USE ConstantTypes, OpenIdsAssumption DEF TypeOK, newDB, oldDB
<1>1. CASE UNCHANGED vars
  BY <1>1 DEF vars
<1>2. ASSUME NEW c \in Callers, Begin(c) PROVE oldFwd'[a] # None
  BY <1>2 DEF Begin, CallStore, CallStoreID, CallUpdate, CallResolve, Call
<1>3. ASSUME NEW c \in Callers, Search(c) PROVE oldFwd'[a] # None
  BY <1>3, SearchType
<1>4. ASSUME NEW c \in Callers, Write(c) PROVE oldFwd'[a] # None
  <2>1. arg[c].to \in Rows /\ arg[c].from \in Rows
    OBVIOUS
  <2>2. CASE StoreInOldDB(c)
    <3>1. arg[c].id \in OpenIds
      BY <2>2 DEF StoreInOldDB, ArgInv
    <3>2. NewRows(arg[c].id, oldFwd, oldRev) \subseteq Rows
      BY <3>1, NewRowsAreRows
    <3> QED
      BY <2>2, <3>1, <3>2 DEF StoreInOldDB, WithRow
  <2>3. CASE DualWrite(c)
    BY <2>1, <2>3 DEF DualWrite
  <2>4. CASE RebindOld(c)
    BY <2>1, <2>4 DEF RebindOld, Moved
  <2>5. CASE StoreIdentity(c) \/ NewDBStore(c) \/ RebindNew(c) \/ WriteBackIdentity(c)
    BY <2>5 DEF StoreIdentity, NewDBStore, RebindNew, WriteBackIdentity
  <2> QED
    BY <1>4, <2>2, <2>3, <2>4, <2>5 DEF Write
<1>5. CASE MigrationNext
  BY <1>5 DEF MigrationNext, CheckMarker, SyncCounter, ReadBatch, WriteBatch, Verify,
     VerifyAgain, OpenSnapshot, CompareFirst, CompareAgain, Compare, Repair, MarkComplete, Migrate
<1>6. CASE Start \/ Crash \/ DeleteOldDB
  BY <1>6 DEF Start, Crash, DeleteOldDB
<1> QED
  BY <1>1, <1>2, <1>3, <1>4, <1>5, <1>6 DEF Next, CallerNext

\* Who is given its first virtual id has an entry in the new database by then.
LEMMA IssuedWithEntry ==
  ASSUME TypeOK, ArgInv, [Next]_vars, NEW a \in OpenIds, issued'[a] # {}
  PROVE  issued[a] # {} \/ newFwd'[a] # None
<1> USE ConstantTypes, OpenIdsAssumption DEF TypeOK, newDB, oldDB
<1>1. CASE UNCHANGED vars
  BY <1>1 DEF vars
<1>2. ASSUME NEW c \in Callers, Begin(c) PROVE issued'[a] = issued[a]
  BY <1>2 DEF Begin, CallStore, CallStoreID, CallUpdate, CallResolve, Call
<1>3. ASSUME NEW c \in Callers, Search(c) PROVE issued'[a] = issued[a]
  BY <1>3, SearchType
<1>4. ASSUME NEW c \in Callers, Write(c) PROVE issued[a] # {} \/ newFwd'[a] # None
  <2>1. CASE StoreIdentity(c)
    <3>1. arg[c].id \in OpenIds
      BY <2>1, StoreIdentityEffect
    <3>2. a # arg[c].id => issued'[a] = issued[a]
      BY <2>1, <3>1, StoreIdentityEffect
    <3>3. ASSUME NEW r \in Rows, newFwd' = WithRow(newFwd, arg[c].id, r), a = arg[c].id
          PROVE  newFwd'[a] # None
      BY <3>3, <3>1 DEF WithRow
    <3> QED
      BY <2>1, <3>2, <3>3, StoreIdentityEffect
  <2>2. CASE NewDBStore(c)
    BY <2>2 DEF NewDBStore
  <2>3. CASE DualWrite(c) \/ StoreInOldDB(c) \/ RebindNew(c) \/ RebindOld(c) \/ WriteBackIdentity(c)
    BY <2>3 DEF DualWrite, StoreInOldDB, RebindNew, RebindOld, WriteBackIdentity
  <2> QED
    BY <1>4, <2>1, <2>2, <2>3 DEF Write
<1>5. CASE MigrationNext
  BY <1>5 DEF MigrationNext, CheckMarker, SyncCounter, ReadBatch, WriteBatch, Verify,
     VerifyAgain, OpenSnapshot, CompareFirst, CompareAgain, Compare, Repair, MarkComplete, Migrate
<1>6. CASE Start \/ Crash \/ DeleteOldDB
  BY <1>6 DEF Start, Crash, DeleteOldDB
<1> QED
  BY <1>1, <1>2, <1>3, <1>4, <1>5, <1>6 DEF Next, CallerNext

-----------------------------------------------------------------------------
\* The invariant

LEMMA InitInvariant == Init => IInv
<1> SUFFICES ASSUME Init PROVE IInv
  OBVIOUS
<1>1. TypeOK /\ ArgInv
  BY InitType
<1>2. Kept
  <2> SUFFICES ASSUME NEW a \in OpenIds, issued[a] # {} PROVE oldFwd[a] # None
    BY DEF Kept
  <2>1. PICK l \in Legacies :
          /\ oldFwd = IF l = None THEN NoFwd ELSE l
          /\ issued = [b \in OpenIds |->
                         IF l # None /\ l[b] # None THEN {l[b]} \ {0} ELSE {}]
    BY DEF Init
  <2> QED
    BY <2>1
<1>3. SnapshotInv /\ Covered
  BY DEF Init, SnapshotInv, Covered
<1> QED
  BY <1>1, <1>2, <1>3 DEF IInv

\* The snapshot is taken from the live database, which only gains entries.
LEMMA SnapshotStep == IInv /\ [Next]_vars => SnapshotInv'
<1> SUFFICES ASSUME IInv, [Next]_vars, mig' \in {"compare", "recompare"},
                    NEW a \in OpenIds, batchFwd'[a] # None
             PROVE  newFwd'[a] # None
  BY DEF SnapshotInv
<1>1. newFwd[a] # None => newFwd'[a] # None
  BY EntryStays DEF IInv
<1>2. UNCHANGED worker => newFwd[a] # None
  BY DEF IInv, SnapshotInv, worker
<1> USE ConstantTypes DEF IInv, TypeOK
<1>3. CASE UNCHANGED vars
  BY <1>1, <1>2, <1>3 DEF vars
<1>4. ASSUME NEW c \in Callers, CallerNext(c) PROVE UNCHANGED worker
  <2>1. CASE Begin(c)
    BY <2>1 DEF Begin, CallStore, CallStoreID, CallUpdate, CallResolve, Call
  <2>2. CASE Search(c)
    BY <2>2, SearchType
  <2>3. CASE Write(c)
    BY <2>3 DEF Write, StoreIdentity, DualWrite, StoreInOldDB, NewDBStore, RebindNew,
                RebindOld, WriteBackIdentity, Return, Advance
  <2> QED
    BY <1>4, <2>1, <2>2, <2>3 DEF CallerNext
<1>5. CASE Verify \/ VerifyAgain
  BY <1>5 DEF Verify, VerifyAgain, OpenSnapshot, newDB
<1>6. CASE MigrationNext /\ ~(Verify \/ VerifyAgain)
  <2>1. mig' \notin {"compare", "recompare"}
    BY <1>6 DEF MigrationNext, CheckMarker, SyncCounter, ReadBatch, WriteBatch, CompareFirst,
                CompareAgain, Compare, Repair, MarkComplete, Migrate
  <2> QED
    BY <2>1
<1>7. CASE Start \/ Crash
  <2>1. mig' \notin {"compare", "recompare"}
    BY <1>7 DEF Start, Crash
  <2> QED
    BY <2>1
<1>8. CASE DeleteOldDB
  BY <1>1, <1>2, <1>8 DEF DeleteOldDB
<1> QED
  BY <1>1, <1>2, <1>3, <1>4, <1>5, <1>6, <1>7, <1>8 DEF Next

\* A positive verdict means that the snapshot has every legacy entry, and no
\* step after it gives out an id without an entry in the new database.
LEMMA CoveredStep == IInv /\ [Next]_vars => Covered'
<1> SUFFICES ASSUME IInv, [Next]_vars, mig' = "mark" \/ marker',
                    NEW a \in OpenIds, issued'[a] # {}
             PROVE  newFwd'[a] # None
  BY DEF Covered
<1>1. newFwd[a] # None => newFwd'[a] # None
  BY EntryStays DEF IInv
<1>2. issued[a] # {} \/ newFwd'[a] # None
  BY IssuedWithEntry DEF IInv
<1>3. CASE mig = "mark" \/ marker
  BY <1>1, <1>2, <1>3 DEF IInv, Covered
<1>4. CASE ~(mig = "mark" \/ marker)
  <2> USE DEF IInv, TypeOK
  <2>1. CompareFirst \/ CompareAgain
    <3>1. CASE UNCHANGED vars
      BY <1>4, <3>1 DEF vars, newDB, worker
    <3>2. ASSUME NEW c \in Callers, CallerNext(c) PROVE UNCHANGED <<mig, marker>>
      <4>1. CASE Begin(c)
        BY <4>1 DEF Begin, CallStore, CallStoreID, CallUpdate, CallResolve, Call, newDB, worker
      <4>2. CASE Search(c)
        BY <4>2, SearchType DEF newDB, worker
      <4>3. CASE Write(c)
        BY <4>3 DEF Write, StoreIdentity, DualWrite, StoreInOldDB, NewDBStore, RebindNew,
                    RebindOld, WriteBackIdentity, Return, Advance, newDB, worker
      <4> QED
        BY <3>2, <4>1, <4>2, <4>3 DEF CallerNext
    <3>3. CASE MigrationNext
      BY <1>4, <3>3 DEF MigrationNext, CheckMarker, SyncCounter, ReadBatch, WriteBatch, Verify,
                        VerifyAgain, OpenSnapshot, Repair, MarkComplete, Migrate, newDB
    <3>4. CASE Start \/ Crash \/ DeleteOldDB
      BY <1>4, <3>4 DEF Start, Crash, DeleteOldDB, newDB, worker
    <3> QED
      BY <1>4, <3>1, <3>2, <3>3, <3>4 DEF Next
  <2>2. /\ Agree
        /\ mig \in {"compare", "recompare"}
        /\ UNCHANGED <<newFwd, issued>>
    BY <1>4, <2>1 DEF CompareFirst, CompareAgain, Compare, Migrate, newDB
  <2>3. oldFwd[a] # None => newFwd[a] # None
    BY <2>2 DEF Agree, SnapshotInv
  <2> QED
    BY <1>1, <1>2, <2>2, <2>3 DEF Kept
<1> QED
  BY <1>3, <1>4

LEMMA KeptStep == IInv /\ [Next]_vars => Kept'
<1> SUFFICES ASSUME IInv, [Next]_vars, NEW a \in OpenIds, issued'[a] # {}
             PROVE  newFwd'[a] # None \/ oldFwd'[a] # None
  BY DEF Kept
<1>1. issued[a] # {} \/ newFwd'[a] # None
  BY IssuedWithEntry DEF IInv
<1>2. newFwd[a] # None => newFwd'[a] # None
  BY EntryStays DEF IInv
<1>3. oldFwd[a] # None => oldFwd'[a] # None \/ marker
  BY OldEntryStays DEF IInv
<1> QED
  BY <1>1, <1>2, <1>3 DEF IInv, Kept, Covered

LEMMA Invariance == Spec => []IInv
<1>1. IInv /\ [Next]_vars => IInv'
  BY TypeStep, SnapshotStep, CoveredStep, KeptStep DEF IInv
<1> QED
  BY InitInvariant, <1>1, PTL DEF Spec

-----------------------------------------------------------------------------
\* The variables stay in their domains.
THEOREM TypeCorrect == Spec => []TypeOK
BY Invariance, PTL DEF IInv

\* From the mark on, the legacy database may be deleted: whoever was ever given
\* a virtual id, by storeIdentity, by StoreID or by the legacy installation, has
\* an entry in the new database.
THEOREM NothingIsLost == Spec => []NoIdentityLost
<1>1. IInv => NoIdentityLost
  BY DEF IInv, Covered, NoIdentityLost
<1> QED
  BY Invariance, <1>1, PTL

\* Neither binds, unbinds, the migration nor its repair take an entry away.
THEOREM EntriesNeverVanish == Spec => EntriesStay
<1>1. IInv /\ [Next]_vars => [\A a \in OpenIds : newFwd[a] # None => newFwd'[a] # None]_vars
  BY EntryStays DEF IInv
<1> QED
  BY Invariance, <1>1, PTL DEF Spec, EntriesStay
-----------------------------------------------------------------------------
(* Registrations and lookups of an installation without a legacy database    *)

\* The two directions of the map agree, rows are above those given out, and what
\* an OpenID was given it still has.
OneToOne == \A a \in OpenIds, r \in Rows : newFwd[a] = r <=> newRev[r] = a
RowsGiven == /\ \A a \in OpenIds : newFwd[a] # 0 /\ issued[a] \subseteq {newFwd[a]}
             /\ \A r \in Rows : newRev[r] # Counter
             /\ ~HashId => \A a \in OpenIds : newFwd[a] # None =>
                             newFwd[Counter] # None /\ newFwd[a] <= newFwd[Counter]
NoLegacy == /\ ~hasOld /\ ~marker /\ mig = "off"
            /\ \A c \in Callers : pc[c] \in {"idle", "store", "dual", "resolve"}

FreshInv == NoLegacy /\ OneToOne /\ RowsGiven

Registers == {"store", "storeid", "resolve"}

LEMMA FreshInit == ASSUME Legacies = {None}, Init PROVE FreshInv
<1>1. ~hasOld /\ ~marker /\ mig = "off" /\ newFwd = NoFwd /\ newRev = NoRev
  BY DEF Init
<1>2. issued = [a \in OpenIds |-> {}] /\ pc = [c \in Callers |-> "idle"]
  BY DEF Init
<1>3. OneToOne
  BY <1>1, OpenIdsAssumption DEF OneToOne, NoFwd, NoRev, Names, Rows
<1>4. RowsGiven
  BY <1>1, <1>2, OpenIdsAssumption DEF RowsGiven, NoFwd, NoRev, Names
<1> QED
  BY <1>1, <1>2, <1>3, <1>4 DEF FreshInv, NoLegacy

\* With ids derived from the OpenID, the search for a row looks at the row.
LEMMA HashedRowFree ==
  ASSUME HashId, NEW a \in OpenIds, NEW rev, NEW r \in NewRows(a, newFwd, rev)
  PROVE  r \in Rows \ {0} /\ rev[r] = None
<1>1. PICK j \in Free(a, rev) : r = HashRows[a][j]
  BY DEF NewRows
<1>2. j \in DOMAIN HashRows[a] /\ rev[HashRows[a][j]] = None
  BY <1>1 DEF Free
<1>3. HashRows[a] \in Seq(Rows \ {0})
  BY HashAssumption
<1> QED
  BY <1>1, <1>2, <1>3

\* A row that is taken is free: nobody is found under it, nobody has it.
LEMMA NewRowFree ==
  ASSUME TypeOK, FreshInv, NEW a \in OpenIds, NEW r \in NewRows(a, newFwd, newRev)
  PROVE  /\ r \in Rows \ {0} /\ newRev[r] = None
         /\ ~HashId => \A b \in OpenIds : newFwd[b] # None => newFwd[b] <= r
<1>1. CASE HashId
  BY <1>1, HashedRowFree
<1>2. CASE ~HashId
  <2>1. r \in Rows /\ r = IF newFwd[Counter] = None THEN 1 ELSE newFwd[Counter] + 1
    BY <1>2 DEF NewRows
  <2>2. newFwd[Counter] \in Rows \cup {None} /\ \A b \in OpenIds : newFwd[b] \in Rows \cup {None}
    BY DEF TypeOK, Names
  <2>3. \A b \in OpenIds : newFwd[b] # None => newFwd[b] < r
    BY <1>2, <2>1, <2>2 DEF FreshInv, RowsGiven, Rows
  <2>4. r # 0
    BY <2>1, <2>2 DEF Rows
  <2>5. newRev[r] \in OpenIds \cup {None}
    BY <2>1 DEF TypeOK, Names, FreshInv, RowsGiven
  <2>6. \A b \in OpenIds : newFwd[b] # r
    BY <2>1, <2>3, OpenIdsAssumption DEF Rows
  <2>7. newRev[r] = None
    BY <2>1, <2>5, <2>6 DEF FreshInv, OneToOne
  <2>8. \A b \in OpenIds : newFwd[b] # None => newFwd[b] <= r
    BY <2>1, <2>2, <2>3 DEF Rows
  <2> QED
    BY <2>1, <2>4, <2>7, <2>8
<1> QED
  BY <1>1, <1>2

\* A pair that is new to both directions.
LEMMA PairAdded ==
  ASSUME TypeOK, OneToOne, NEW a \in OpenIds, NEW r \in Rows, newRev[r] = None,
         NEW old \in Rows \cup {None}, newFwd[a] = old,
         newFwd'[a] = r, \A b \in OpenIds \ {a} : newFwd'[b] = newFwd[b],
         newRev'[r] = a, old # None => newRev'[old] = None,
         \A q \in Rows \ {r, old} : newRev'[q] = newRev[q]
  PROVE  OneToOne' /\ r # old
<1> USE ConstantTypes
<1>1. r # old
  BY OpenIdsAssumption DEF OneToOne
<1> SUFFICES ASSUME NEW b \in OpenIds, NEW q \in Rows
             PROVE  newFwd'[b] = q <=> newRev'[q] = b
  BY <1>1 DEF OneToOne
<1>2. /\ newFwd[b] = q <=> newRev[q] = b
      /\ newFwd[b] = r <=> newRev[r] = b
      /\ newFwd[a] = q <=> newRev[q] = a
  BY DEF OneToOne
<1>3. old # None => newRev[old] = a
  BY DEF OneToOne
<1>4. b # None /\ a # None /\ q # None
  BY OpenIdsAssumption
<1>5. CASE q = r
  BY <1>2, <1>4, <1>5
<1>6. CASE q = old
  BY <1>1, <1>2, <1>3, <1>4, <1>6
<1>7. CASE q \notin {r, old}
  BY <1>2, <1>4, <1>7
<1> QED
  BY <1>5, <1>6, <1>7

LEMMA FreshStore ==
  ASSUME TypeOK, ArgInv, FreshInv, NEW c \in Callers, StoreIdentity(c)
  PROVE  OneToOne' /\ RowsGiven'
<1> DEFINE a == arg[c].id
<1>0. a \in OpenIds /\ newFwd[a] # 0
  BY DEF StoreIdentity, ArgInv, FreshInv, RowsGiven
<1>1. CASE UNCHANGED <<newFwd, newRev>> /\ issued' = [issued EXCEPT ![a] = @ \cup {newFwd[a]}]
  BY <1>0, <1>1 DEF FreshInv, OneToOne, RowsGiven, TypeOK
<1>2. CASE UNCHANGED <<newFwd, newRev, issued>>
  BY <1>2 DEF FreshInv, OneToOne, RowsGiven
<1>3. CASE /\ ~Known(a)
           /\ \E r \in NewRows(a, newFwd, newRev) :
                /\ newFwd' = WithRow(newFwd, a, r)
                /\ newRev' = [newRev EXCEPT ![r] = a]
                /\ issued' = [issued EXCEPT ![a] = @ \cup {r}]
  <2>1. PICK r \in NewRows(a, newFwd, newRev) :
                /\ newFwd' = WithRow(newFwd, a, r)
                /\ newRev' = [newRev EXCEPT ![r] = a]
                /\ issued' = [issued EXCEPT ![a] = @ \cup {r}]
    BY <1>3
  <2>2. /\ r \in Rows \ {0} /\ newRev[r] = None
        /\ ~HashId => \A b \in OpenIds : newFwd[b] # None => newFwd[b] <= r
    BY <1>0, NewRowFree
  <2>3. newFwd[a] = None
    BY <1>0, <1>3 DEF Known
  <2>4. /\ newFwd'[a] = r /\ \A b \in OpenIds \ {a} : newFwd'[b] = newFwd[b]
        /\ ~HashId => newFwd'[Counter] = r
    BY <1>0, <2>1, OpenIdsAssumption DEF WithRow, TypeOK, Names
  <2>5. newRev'[r] = a /\ \A q \in Rows \ {r} : newRev'[q] = newRev[q]
    BY <2>1, <2>2 DEF TypeOK
  <2>6. None \notin Rows /\ None \notin OpenIds /\ Counter # a
    BY <1>0, OpenIdsAssumption DEF Rows, Names
  <2>7. OneToOne'
    BY <1>0, <2>2, <2>3, <2>4, <2>5, PairAdded DEF FreshInv
  <2>8. \A b \in OpenIds : newFwd'[b] # 0 /\ issued'[b] \subseteq {newFwd'[b]}
    <3>1. issued[a] = {}
      BY <1>0, <2>3, <2>6 DEF FreshInv, RowsGiven, TypeOK
    <3>2. issued'[a] = {r} /\ \A b \in OpenIds \ {a} : issued'[b] = issued[b]
      BY <1>0, <2>1, <3>1 DEF TypeOK
    <3> QED
      BY <2>2, <2>4, <3>2 DEF FreshInv, RowsGiven
  <2>9. \A q \in Rows : newRev'[q] # Counter
    BY <2>5, <2>6 DEF FreshInv, RowsGiven
  <2>10. ~HashId => \A b \in OpenIds : newFwd'[b] # None =>
                      newFwd'[Counter] # None /\ newFwd'[b] <= newFwd'[Counter]
    BY <2>2, <2>4, <2>6 DEF Rows
  <2> QED
    BY <2>7, <2>8, <2>9, <2>10 DEF RowsGiven
<1> QED
  BY <1>0, <1>1, <1>2, <1>3 DEF StoreIdentity

\* Whoever is between two transactions has nothing to write there: without a legacy
\* database the second one does nothing, and no lookup writes back.
LEMMA FreshCaller ==
  ASSUME Ops \subseteq Registers, TypeOK, ArgInv, FreshInv, NEW c \in Callers, CallerNext(c)
  PROVE  FreshInv'
<1>0. pc[c] \in {"idle", "store", "dual", "resolve"} /\ ~hasOld /\ ~DuringMigration
  BY DEF FreshInv, NoLegacy, DuringMigration
<1>1. CASE Begin(c)
  <2>1. PICK next \in {"store", "resolve"} : pc' = [pc EXCEPT ![c] = next]
    BY <1>0, <1>1 DEF Begin, CallStore, CallStoreID, CallUpdate, CallResolve, Call, Registers
  <2>2. UNCHANGED <<newFwd, newRev, marker, hasOld, mig, issued>>
    BY <1>1 DEF Begin, CallStore, CallStoreID, CallUpdate, CallResolve, Call, newDB, oldDB, worker
  <2> QED
    BY <2>1, <2>2 DEF FreshInv, NoLegacy, OneToOne, RowsGiven
<1>2. CASE Search(c)
  <2>1. RetrieveIdentity(c)
    BY <1>0, <1>2 DEF Search, FindInOldDB, FindInNewDB, FindByScan, CheckExists, LazyFromNewDB,
                      LazyFromOldDB, LazyByScan, LookUp, Return, Advance
  <2>2. pc' = [pc EXCEPT ![c] = "idle"] /\ UNCHANGED <<newFwd, newRev, marker, hasOld, mig, issued>>
    BY <1>0, <2>1 DEF RetrieveIdentity, LookUp, Return, Advance, newDB, oldDB, worker
  <2> QED
    BY <2>2 DEF FreshInv, NoLegacy, OneToOne, RowsGiven
<1>3. CASE Write(c)
  <2>1. StoreIdentity(c) \/ DualWrite(c)
    BY <1>0, <1>3 DEF Write, StoreInOldDB, NewDBStore, RebindNew, RebindOld, WriteBackIdentity,
                      Return, Advance
  <2>2. OneToOne' /\ RowsGiven'
    <3>1. CASE StoreIdentity(c)
      BY <3>1, FreshStore
    <3>2. CASE DualWrite(c)
      BY <3>2 DEF DualWrite, newDB, FreshInv, OneToOne, RowsGiven
    <3> QED
      BY <2>1, <3>1, <3>2
  <2>3. PICK next \in {"idle", "dual"} : pc' = [pc EXCEPT ![c] = next]
    BY <2>1 DEF StoreIdentity, DualWrite, Return, Advance
  <2>4. UNCHANGED <<marker, hasOld, mig>>
    BY <2>1 DEF StoreIdentity, DualWrite, Return, Advance, newDB, oldDB, worker
  <2> QED
    BY <2>2, <2>3, <2>4 DEF FreshInv, NoLegacy
<1> QED
  BY <1>1, <1>2, <1>3 DEF CallerNext

LEMMA FreshStep ==
  ASSUME Ops \subseteq Registers, TypeOK, ArgInv, FreshInv, [Next]_vars PROVE FreshInv'
<1>0. ~hasOld /\ ~marker /\ mig = "off"
  BY DEF FreshInv, NoLegacy
<1>1. ~MigrationNext /\ ~DeleteOldDB
  BY <1>0 DEF MigrationNext, CheckMarker, SyncCounter, ReadBatch, WriteBatch, Verify, CompareFirst,
              Repair, VerifyAgain, CompareAgain, MarkComplete, OpenSnapshot, Compare, Migrate,
              DeleteOldDB
<1>2. CASE Start
  <2>1. newFwd' = newFwd /\ mig' = "off"
    BY <1>0, <1>2 DEF Start, CounterCopied, TypeOK, Names
  <2> QED
    BY <1>2, <2>1 DEF Start, oldDB, calls, FreshInv, NoLegacy, OneToOne, RowsGiven
<1>3. CASE Crash
  BY <1>3 DEF Crash, newDB, oldDB, FreshInv, NoLegacy, OneToOne, RowsGiven
<1>4. CASE UNCHANGED vars
  BY <1>4 DEF vars, newDB, oldDB, worker, calls, FreshInv, NoLegacy, OneToOne, RowsGiven
<1> QED
  BY <1>1, <1>2, <1>3, <1>4, FreshCaller DEF Next

LEMMA FreshInvariance ==
  ASSUME Legacies = {None}, Ops \subseteq Registers PROVE Spec => []FreshInv
<1>1. Init => FreshInv
  BY FreshInit
<1>2. IInv /\ FreshInv /\ [Next]_vars => FreshInv'
  BY FreshStep DEF IInv
<1> QED
  BY Invariance, <1>1, <1>2, PTL DEF Spec

\* However many events register users and look them up at the same time, and whatever
\* crashes, no two OpenIDs get one virtual id (storeIdentity, generateRowID).
THEOREM RegistrationsDistinct ==
  ASSUME Legacies = {None}, Ops \subseteq Registers PROVE Spec => []DistinctIds
<1>1. IInv /\ FreshInv => DistinctIds
  <2> SUFFICES ASSUME TypeOK, FreshInv, NEW a \in OpenIds, NEW b \in OpenIds, a # b, Known(a),
                      newFwd[a] = newFwd[b]
               PROVE  FALSE
    BY DEF DistinctIds, IInv
  <2>1. newFwd[a] \in Rows
    BY DEF Known, TypeOK, Names
  <2> QED
    BY <2>1 DEF FreshInv, OneToOne
<1> QED
  BY Invariance, FreshInvariance, <1>1, PTL

\* ... what an action names by its virtual id is the OpenID that has it ...
THEOREM RegistrationsRoundTrip ==
  ASSUME Legacies = {None}, Ops \subseteq Registers PROVE Spec => []RoundTrip
<1>1. IInv /\ FreshInv => RoundTrip
  <2> SUFFICES ASSUME TypeOK, FreshInv, NEW a \in OpenIds, Known(a)
               PROVE  RetrieveRowByIDv2(newFwd[a]) = a
    BY DEF RoundTrip, IInv
  <2>1. newFwd[a] \in Rows /\ a # None
    BY OpenIdsAssumption DEF Known, TypeOK, Names
  <2> QED
    BY <2>1 DEF FreshInv, OneToOne, RetrieveRowByIDv2, Else
<1> QED
  BY Invariance, FreshInvariance, <1>1, PTL

\* ... nobody is found under a virtual id that he does not have ...
THEOREM RegistrationsConsistent ==
  ASSUME Legacies = {None}, Ops \subseteq Registers PROVE Spec => []ReverseConsistent
<1>1. IInv /\ FreshInv => ReverseConsistent
  <2> SUFFICES ASSUME TypeOK, FreshInv, NEW v \in Rows \ {0}, newRev[v] # None
               PROVE  newFwd[newRev[v]] = v
    BY DEF ReverseConsistent, IInv
  <2>1. newRev[v] \in OpenIds
    BY DEF TypeOK, Names, FreshInv, RowsGiven
  <2> QED
    BY <2>1 DEF FreshInv, OneToOne
<1> QED
  BY Invariance, FreshInvariance, <1>1, PTL

\* ... and an OpenID keeps the virtual id it was given first.
THEOREM RegistrationsKeep ==
  ASSUME Legacies = {None}, Ops \subseteq Registers PROVE Spec => []OneVirtualId
<1>1. FreshInv => OneVirtualId
  <2> SUFFICES ASSUME FreshInv, NEW a \in OpenIds PROVE Cardinality(issued[a]) <= 1
    BY DEF OneVirtualId
  <2>1. issued[a] \subseteq {newFwd[a]}
    BY DEF FreshInv, RowsGiven
  <2>2. IsFiniteSet({newFwd[a]}) /\ Cardinality({newFwd[a]}) = 1
    BY FS_Singleton
  <2> QED
    BY <2>1, <2>2, FS_Subset
<1> QED
  BY FreshInvariance, <1>1, PTL

-----------------------------------------------------------------------------
(* Bind commands on an installation without a legacy database, one at a time  *)

\* No two calls overlap: binds of two commands at once can both find their row free.
OneCaller == \A c, d \in Callers : c = d

Finding == {"find", "findrow", "findscan", "exists", "rebind", "rebindold"}

\* A bind holds the OpenID that has the row it was asked to move, and the row to move it
\* to is free when it writes.
Bound ==
  /\ mig = "off" /\ OneToOne /\ newFwd[Counter] = None
  /\ \A a \in OpenIds : newFwd[a] # 0
  /\ \A r \in Rows : newRev[r] # Counter
  /\ \A c \in Callers :
       /\ pc[c] \in {"idle", "store", "dual", "resolve"} \cup Finding
       /\ pc[c] \in Finding => arg[c].to # 0
       /\ pc[c] \in {"exists", "rebind"} =>
            arg[c].id \in OpenIds /\ newFwd[arg[c].id] = arg[c].from
       /\ pc[c] = "rebind" => newRev[arg[c].to] = None

BoundInv == FreshInstall => Bound

LEMMA BoundInit == Init => BoundInv
<1> SUFFICES ASSUME Init, FreshInstall PROVE Bound
  BY DEF BoundInv
<1>1. /\ mig = "off" /\ newFwd = NoFwd /\ newRev = NoRev
      /\ pc = [c \in Callers |-> "idle"]
  BY DEF Init
<1>2. OneToOne
  BY <1>1, ConstantTypes, OpenIdsAssumption DEF OneToOne, NoFwd, NoRev
<1> QED
  BY <1>1, <1>2, ConstantTypes, OpenIdsAssumption DEF Bound, NoFwd, NoRev, Finding

\* What the calls of a fresh installation write: a registration gives a row to who has
\* none, a bind moves one; and what they find is true when they find it.
LEMMA BoundCaller ==
  ASSUME HashId, OneCaller, "unbind" \notin Ops, TypeOK, ArgInv, FreshInstall, Bound,
         NEW c \in Callers, CallerNext(c)
  PROVE  Bound' /\ \A a \in OpenIds : Known(a) /\ newFwd'[a] # newFwd[a] => RebindNew(c)
<1> USE ConstantTypes, OpenIdsAssumption DEF newDB, oldDB, worker
<1> DEFINE a == arg[c].id
           Mine == /\ pc'[c] \in {"idle", "store", "dual", "resolve"} \cup Finding
                   /\ pc'[c] \in Finding => arg'[c].to # 0
                   /\ pc'[c] \in {"exists", "rebind"} =>
                        arg'[c].id \in OpenIds /\ newFwd'[arg'[c].id] = arg'[c].from
                   /\ pc'[c] = "rebind" => newRev'[arg'[c].to] = None
           Maps == /\ OneToOne' /\ newFwd'[Counter] = None
                   /\ \A b \in OpenIds : newFwd'[b] # 0
                   /\ \A r \in Rows : newRev'[r] # Counter
<1>0. /\ arg[c].to \in Rows /\ arg[c].from \in Rows /\ ~hasOld /\ ~DuringMigration
      /\ pc[c] \in {"idle", "store", "dual", "resolve"} \cup Finding
      /\ pc[c] \in Finding => arg[c].to # 0
      /\ pc[c] \in {"exists", "rebind"} => a \in OpenIds /\ newFwd[a] = arg[c].from
      /\ pc[c] = "rebind" => newRev[arg[c].to] = None
  BY DEF TypeOK, FreshInstall, DuringMigration, Bound
<1>1. ASSUME Mine, Maps, mig' = mig PROVE Bound'
  BY <1>1 DEF Bound, OneCaller
<1>2. ASSUME UNCHANGED <<newFwd, newRev>> PROVE Maps
  BY <1>2 DEF Bound, OneToOne
<1> HIDE DEF Mine, Maps
<1>3. CASE Begin(c)
  <2>1. UNCHANGED <<newFwd, newRev, mig>>
    BY <1>3 DEF Begin, CallStore, CallStoreID, CallUpdate, CallResolve, Call
  <2>2. Mine
    <3>1. pc'[c] \in {"store", "resolve"} \/ (pc'[c] = "find" /\ arg'[c].to # 0)
      BY <1>0, <1>3 DEF Begin, CallStore, CallStoreID, CallUpdate, CallResolve, Call, Arg, TypeOK
    <3> QED
      BY <3>1 DEF Mine, Finding
  <2> QED
    BY <1>1, <1>2, <2>1, <2>2
<1>4. CASE Search(c)
  <2>1. UNCHANGED <<newFwd, newRev, mig>>
    BY <1>4, SearchEffect
  <2>2. Mine
    <3>1. CASE pc'[c] = "idle"
      BY <3>1 DEF Mine, Finding
    <3>2. CASE /\ pc[c] \in {"find", "findrow"} /\ pc'[c] \in {"findrow", "findscan"}
               /\ arg'[c].to = arg[c].to
      BY <1>0, <3>2 DEF Mine, Finding
    <3>3. CASE /\ pc[c] \in {"find", "findrow", "findscan"} /\ pc'[c] = AfterFind(c)
               /\ arg'[c].to = arg[c].to /\ arg'[c].from = arg[c].from
               /\ arg'[c].id \in Names
               /\ \/ arg'[c].id = OldLookup(arg[c].from)
                  \/ arg'[c].id = newRev[arg[c].from]
                  \/ newFwd[arg'[c].id] = arg[c].from
      <4>1. arg[c].to # 0 /\ pc'[c] = "exists"
        BY <1>0, <3>3 DEF Finding, AfterFind
      <4>2. arg'[c].id # OldLookup(arg[c].from)
        BY <1>0, <3>3 DEF OldLookup
      <4>3. arg'[c].id \in OpenIds /\ newFwd[arg'[c].id] = arg[c].from
        <5>1. CASE arg'[c].id = newRev[arg[c].from]
          <6>1. arg'[c].id \in OpenIds
            <7>1. newRev[arg[c].from] # Counter
              BY <1>0 DEF Bound
            <7> QED
              BY <3>3, <5>1, <7>1 DEF Names
          <6>2. \A b \in OpenIds : newFwd[b] = arg[c].from <=> newRev[arg[c].from] = b
            BY <1>0 DEF Bound, OneToOne
          <6> QED
            BY <5>1, <6>1, <6>2
        <5>2. CASE newFwd[arg'[c].id] = arg[c].from
          <6>1. arg'[c].id # Counter
            BY <1>0, <5>2 DEF Bound
          <6> QED
            BY <3>3, <5>2, <6>1 DEF Names
        <5> QED
          BY <3>3, <4>2, <5>1, <5>2
      <4> QED
        BY <2>1, <3>3, <4>1, <4>3 DEF Mine, Finding
    <3>4. CASE /\ pc[c] = "exists" /\ pc'[c] = "rebind" /\ arg'[c] = arg[c]
               /\ newRev[arg[c].to] = None
      BY <1>0, <2>1, <3>4 DEF Mine, Finding
    <3>5. CASE \/ hasOld /\ pc[c] = "resolve" /\ pc'[c] = "again"
               \/ pc[c] \in {"again", "lazyold", "lazyscan"}
      BY <1>0, <3>5 DEF Finding
    <3> QED
      BY <1>4, <3>1, <3>2, <3>3, <3>4, <3>5, SearchEffect
  <2> QED
    BY <1>1, <1>2, <2>1, <2>2
<1>5. CASE StoreIdentity(c)
  <2> DEFINE rows == NewRows(a, newFwd, newRev)
  <2>0. a \in OpenIds /\ newFwd[a] # 0
    BY <1>5 DEF StoreIdentity, ArgInv, Bound
  <2>1. Mine /\ mig' = mig
    BY <1>5 DEF StoreIdentity, Return, Advance, Mine, Finding, TypeOK
  <2>2. CASE UNCHANGED <<newFwd, newRev>>
    BY <1>1, <1>2, <2>1, <2>2
  <2>3. CASE ~Known(a) /\ \E r \in rows : /\ newFwd' = WithRow(newFwd, a, r)
                                          /\ newRev' = [newRev EXCEPT ![r] = a]
    <3>1. PICK r \in rows : newFwd' = WithRow(newFwd, a, r) /\ newRev' = [newRev EXCEPT ![r] = a]
      BY <2>3
    <3>2. r \in Rows \ {0} /\ newRev[r] = None
      BY <2>0, HashedRowFree
    <3>3. newFwd' = [newFwd EXCEPT ![a] = r]
      BY <3>1 DEF WithRow
    <3>4. newFwd[a] = None /\ newFwd'[a] = r /\ newRev'[r] = a
      BY <2>0, <2>3, <3>1, <3>2, <3>3 DEF Known, TypeOK
    <3>5. /\ \A b \in OpenIds \ {a} : newFwd'[b] = newFwd[b]
          /\ \A q \in Rows \ {r, None} : newRev'[q] = newRev[q]
          /\ newFwd'[Counter] = newFwd[Counter]
      BY <2>0, <3>1, <3>2, <3>3 DEF TypeOK
    <3>6. OneToOne'
      BY <2>0, <3>2, <3>4, <3>5, PairAdded DEF Bound
    <3>7. Maps
      BY <2>0, <3>2, <3>4, <3>5, <3>6 DEF Maps, Bound
    <3> QED
      BY <1>1, <2>1, <2>3, <3>5, <3>7
  <2> QED
    BY <1>5, <2>0, <2>2, <2>3 DEF StoreIdentity
<1>6. CASE RebindNew(c)
  <2> DEFINE from == arg[c].from
             to   == arg[c].to
  <2>1. /\ a \in OpenIds /\ newFwd[a] = from /\ newRev[to] = None /\ to # 0
        /\ to \in Rows /\ from \in Rows
    BY <1>0, <1>6 DEF RebindNew, Advance, Finding
  <2>2. newFwd' = [newFwd EXCEPT ![a] = to] /\ newRev' = [newRev EXCEPT ![from] = None, ![to] = a]
    BY <1>6, <2>1 DEF RebindNew, Moved, MovedRow
  <2>3. newRev[from] = a /\ from # to
    <3>1. \A b \in OpenIds : newFwd[b] = arg[c].from <=> newRev[arg[c].from] = b
      BY <1>0 DEF Bound, OneToOne
    <3> QED
      BY <2>1, <3>1
  <2>4. /\ newFwd'[a] = to /\ newRev'[to] = a /\ newRev'[from] = None
        /\ \A b \in OpenIds \ {a} : newFwd'[b] = newFwd[b]
        /\ \A q \in Rows \ {to, from} : newRev'[q] = newRev[q]
        /\ newFwd'[Counter] = newFwd[Counter]
    BY <2>1, <2>2, <2>3 DEF TypeOK
  <2>5. OneToOne'
    BY <2>1, <2>4, PairAdded DEF Bound
  <2>6. Maps
    <3>1. \A q \in Rows : newRev'[q] \in {newRev[q], a, None}
      BY <2>4
    <3>2. \A q \in Rows : newRev'[q] # Counter
      BY <2>1, <3>1 DEF Bound
    <3>3. \A b \in OpenIds : newFwd'[b] # 0
      BY <2>1, <2>4 DEF Bound
    <3> QED
      BY <2>4, <2>5, <3>2, <3>3 DEF Maps, Bound
  <2>7. Mine /\ mig' = mig
    BY <1>6, <2>1 DEF RebindNew, Advance, Mine, Finding, TypeOK
  <2> QED
    BY <1>1, <1>6, <2>6, <2>7
<1>7. CASE DualWrite(c) \/ RebindOld(c)
  <2>1. UNCHANGED <<newFwd, newRev, mig>> /\ pc'[c] = "idle"
    BY <1>7 DEF DualWrite, RebindOld, Return, Advance, TypeOK
  <2>2. Mine
    BY <2>1 DEF Mine, Finding
  <2> QED
    BY <1>1, <1>2, <2>1, <2>2
<1>8. ~(StoreInOldDB(c) \/ NewDBStore(c) \/ WriteBackIdentity(c))
  BY <1>0 DEF StoreInOldDB, NewDBStore, WriteBackIdentity, Return, Advance, Finding
<1> QED
  BY <1>3, <1>4, <1>5, <1>6, <1>7, <1>8 DEF CallerNext, Write

\* No migration runs, and starting or stopping changes nothing.
LEMMA BoundStep ==
  ASSUME HashId, OneCaller, "unbind" \notin Ops, TypeOK, ArgInv, BoundInv, [Next]_vars
  PROVE  /\ BoundInv'
         /\ FreshInstall => \A a \in OpenIds :
              Known(a) /\ newFwd'[a] # newFwd[a] => \E c \in Callers : RebindNew(c)
<1> USE ConstantTypes
<1>1. FreshInstall' => FreshInstall
  <2>1. CASE UNCHANGED vars
    BY <2>1 DEF vars, newDB, oldDB, FreshInstall
  <2>2. ASSUME NEW c \in Callers, CallerNext(c) PROVE UNCHANGED <<hasOld, marker>>
    <3>1. CASE Begin(c)
      BY <3>1 DEF Begin, CallStore, CallStoreID, CallUpdate, CallResolve, Call, newDB, oldDB
    <3>2. CASE Search(c)
      BY <3>2, SearchEffect
    <3>3. CASE Write(c)
      BY <3>3 DEF Write, StoreIdentity, DualWrite, StoreInOldDB, NewDBStore, RebindNew,
                  RebindOld, WriteBackIdentity, newDB, oldDB
    <3> QED
      BY <2>2, <3>1, <3>2, <3>3 DEF CallerNext
  <2>3. CASE MigrationNext
    BY <2>3 DEF MigrationNext, CheckMarker, SyncCounter, ReadBatch, WriteBatch, Verify,
       VerifyAgain, OpenSnapshot, CompareFirst, CompareAgain, Compare, Repair, MarkComplete,
       Migrate, newDB, oldDB, FreshInstall
  <2>4. CASE Start \/ Crash \/ DeleteOldDB
    BY <2>4 DEF Start, Crash, DeleteOldDB, newDB, oldDB, FreshInstall
  <2> QED
    BY <2>1, <2>2, <2>3, <2>4 DEF Next, FreshInstall
<1> SUFFICES ASSUME FreshInstall, Bound
             PROVE  Bound' /\ \A a \in OpenIds : Known(a) /\ newFwd'[a] # newFwd[a] =>
                                \E c \in Callers : RebindNew(c)
  BY <1>1 DEF BoundInv
<1>0. ~hasOld /\ ~marker /\ mig = "off"
  BY DEF Bound, FreshInstall
<1>2. CASE UNCHANGED vars
  BY <1>2 DEF vars, newDB, oldDB, worker, calls, Bound, OneToOne
<1>3. CASE \E c \in Callers : CallerNext(c)
  BY <1>3, BoundCaller
<1>4. ~MigrationNext /\ ~DeleteOldDB
  BY <1>0 DEF MigrationNext, CheckMarker, SyncCounter, ReadBatch, WriteBatch, Verify, CompareFirst,
              Repair, VerifyAgain, CompareAgain, MarkComplete, OpenSnapshot, Compare, Migrate,
              DeleteOldDB
<1>5. CASE Start
  <2>1. newFwd' = newFwd /\ mig' = "off"
    BY <1>0, <1>5 DEF Start, CounterCopied, TypeOK
  <2> QED
    <3>1. UNCHANGED <<newFwd, newRev, pc, arg>>
      BY <1>5, <2>1 DEF Start, calls
    <3>2. OneToOne'
      BY <3>1 DEF Bound, OneToOne
    <3> QED
      BY <1>0, <2>1, <3>1, <3>2 DEF Bound
<1>6. CASE Crash
  BY <1>6 DEF Crash, newDB, oldDB, Bound, OneToOne, Finding
<1> QED
  BY <1>2, <1>3, <1>4, <1>5, <1>6 DEF Next

LEMMA BoundInvariance ==
  ASSUME HashId, OneCaller, "unbind" \notin Ops PROVE Spec => []BoundInv
<1>1. IInv /\ BoundInv /\ [Next]_vars => BoundInv'
  BY BoundStep DEF IInv
<1> QED
  BY Invariance, BoundInit, <1>1, PTL DEF Spec

\* Where nothing is migrated, only a bind moves an OpenID from the virtual id it has, it
\* moves the one that has the row it was given, and takes no other OpenID's row: what it
\* checked two transactions ago still holds, as long as calls do not overlap.
THEOREM OnlyBindsMoveIds ==
  ASSUME HashId, OneCaller, "unbind" \notin Ops PROVE Spec => OnlyBindsMove
<1> DEFINE Step == FreshInstall =>
             /\ \A a \in OpenIds :
                  Known(a) /\ newFwd'[a] # newFwd[a] => \E c \in Callers : RebindNew(c)
             /\ \A c \in Callers :
                  RebindNew(c) => /\ newFwd[arg[c].id] = arg[c].from
                                  /\ \A a \in OpenIds \ {arg[c].id} : newFwd[a] # arg[c].to
<1>1. ASSUME IInv, BoundInv, [Next]_vars PROVE Step
  <2>1. ASSUME FreshInstall, NEW c \in Callers, RebindNew(c)
        PROVE  /\ newFwd[arg[c].id] = arg[c].from
               /\ \A a \in OpenIds \ {arg[c].id} : newFwd[a] # arg[c].to
    <3>1. /\ newFwd[arg[c].id] = arg[c].from /\ newRev[arg[c].to] = None /\ OneToOne
          /\ arg[c].to \in Rows
      BY <1>1, <2>1 DEF BoundInv, Bound, RebindNew, Advance, IInv, TypeOK
    <3> QED
      <4>1. ASSUME NEW a \in OpenIds, newFwd[a] = arg[c].to PROVE FALSE
        BY <3>1, <4>1, OpenIdsAssumption, ConstantTypes DEF OneToOne
      <4> QED
        BY <3>1, <4>1
  <2> QED
    BY <1>1, <2>1, BoundStep DEF IInv
<1>2. IInv /\ BoundInv /\ [Next]_vars => [Step]_vars
  BY <1>1
<1> QED
  BY Invariance, BoundInvariance, <1>2, PTL DEF Spec, OnlyBindsMove

\* After any number of binds, nobody is found under a virtual id that he does not have.
THEOREM BindsConsistent ==
  ASSUME HashId, OneCaller, "unbind" \notin Ops, "bind" \in Ops
  PROVE  Spec => []ReverseConsistent
<1>1. IInv /\ BoundInv => ReverseConsistent
  <2> SUFFICES ASSUME TypeOK, BoundInv, FreshInstall, NEW v \in Rows \ {0}, newRev[v] # None
               PROVE  newFwd[newRev[v]] = v
    BY DEF ReverseConsistent, IInv, Undisturbed
  <2>1. newRev[v] \in OpenIds
    BY DEF TypeOK, Names, BoundInv, Bound
  <2> QED
    BY <2>1 DEF BoundInv, Bound, OneToOne
<1> QED
  BY Invariance, BoundInvariance, <1>1, PTL

\* ... and the virtual id that an OpenID was moved to leads back to it.
THEOREM BindsRoundTrip ==
  ASSUME HashId, OneCaller, "unbind" \notin Ops, "bind" \in Ops
  PROVE  Spec => []RoundTrip
<1>1. IInv /\ BoundInv => RoundTrip
  <2> SUFFICES ASSUME TypeOK, BoundInv, FreshInstall, NEW a \in OpenIds, Known(a)
               PROVE  RetrieveRowByIDv2(newFwd[a]) = a
    BY DEF RoundTrip, IInv, Undisturbed
  <2>1. newFwd[a] \in Rows /\ a # None
    BY ConstantTypes, OpenIdsAssumption DEF Known, TypeOK
  <2> QED
    BY <2>1 DEF BoundInv, Bound, OneToOne, RetrieveRowByIDv2, Else
<1> QED
  BY Invariance, BoundInvariance, <1>1, PTL
-----------------------------------------------------------------------------
(* Registrations, lookups and unbinds, with or without a legacy database: rows *)
(* stay with the OpenIDs that were given them                                  *)

\* Every row in a table, forward or reverse, is one of its OpenID's.
RowsOf(fwd, rev, own) ==
  /\ \A a \in OpenIds : fwd[a] # None => fwd[a] \in own[a]
  /\ \A r \in Rows : rev[r] # None => rev[r] \in OpenIds /\ r \in own[rev[r]]

\* So is every row that a call has in hand; the calls are registrations, lookups and unbinds.
CallsOwn(own) ==
  \A c \in Callers :
    /\ pc[c] \in {"find", "findrow", "findscan", "rebind", "rebindold"} => arg[c].to = 0
    /\ pc[c] \notin {"oldstore", "copy", "exists"}
    /\ pc[c] = "dual" => arg[c].to \in own[arg[c].id]
    /\ pc[c] = "writeback" => arg[c].id \in OpenIds /\ arg[c].from \in own[arg[c].id]

OwnInv(own) == /\ RowsOf(newFwd, newRev, own) /\ RowsOf(oldFwd, oldRev, own)
               /\ RowsOf(batchFwd, batchRev, own)
               /\ CallsOwn(own)

\* No bind commands, and not StoreID, which allocates in the legacy database.
NoBinds == Ops \cap {"storeid", "bind"} = {}

\* A table whose entries come out of two others.
LEMMA Mixed ==
  ASSUME NEW own, NEW fwd, NEW rev, NEW fwd2, NEW rev2, NEW fwd3, NEW rev3,
         RowsOf(fwd, rev, own), RowsOf(fwd2, rev2, own),
         \A a \in OpenIds : fwd3[a] \in {fwd[a], fwd2[a], None},
         \A r \in Rows : rev3[r] \in {rev[r], rev2[r], None}
  PROVE  RowsOf(fwd3, rev3, own)
BY DEF RowsOf

\* A table with one more pair.
LEMMA Extended ==
  ASSUME NEW own, NEW fwd, NEW rev, NEW a \in OpenIds, NEW r \in own[a], RowsOf(fwd, rev, own),
         NEW fwd2, NEW rev2,
         \A b \in OpenIds : fwd2[b] = fwd[b] \/ (b = a /\ fwd2[b] = r),
         \A q \in Rows : rev2[q] \in {rev[q], None} \/ (q = r /\ rev2[q] = a)
  PROVE  RowsOf(fwd2, rev2, own)
BY DEF RowsOf

LEMMA OwnWider ==
  ASSUME TypeOK, ArgInv, NEW own, NEW wide, OwnInv(own), \A a \in OpenIds : own[a] \subseteq wide[a]
  PROVE  OwnInv(wide)
<1>1. RowsOf(newFwd, newRev, wide) /\ RowsOf(oldFwd, oldRev, wide)
      /\ RowsOf(batchFwd, batchRev, wide)
  BY DEF OwnInv, RowsOf
<1>2. CallsOwn(wide)
  BY DEF OwnInv, CallsOwn, ArgInv
<1> QED
  BY <1>1, <1>2 DEF OwnInv

LEMMA OwnSearch ==
  ASSUME TypeOK, ArgInv, NEW own, OwnInv(own), NEW c \in Callers, Begin(c) \/ Search(c), NoBinds
  PROVE  OwnInv(own)'
<1> USE ConstantTypes
<1>1. CASE Begin(c)
  <2>1. UNCHANGED <<newFwd, newRev, oldFwd, oldRev, batchFwd, batchRev>>
    BY <1>1 DEF Begin, CallStore, CallStoreID, CallUpdate, CallResolve, Call, newDB, oldDB, worker
  <2>2. \A d \in Callers \ {c} : pc'[d] = pc[d] /\ arg'[d] = arg[d]
    BY <1>1 DEF Begin, CallStore, CallStoreID, CallUpdate, CallResolve, Call, TypeOK
  <2>3. pc'[c] \in {"store", "resolve"} \/ (pc'[c] = "find" /\ arg'[c].to = 0)
    BY <1>1 DEF Begin, CallStore, CallStoreID, CallUpdate, CallResolve, Call, TypeOK, NoBinds, Arg
  <2>4. CallsOwn(own)'
    BY <2>2, <2>3 DEF OwnInv, CallsOwn
  <2> QED
    BY <2>1, <2>4 DEF OwnInv
<1>2. CASE Search(c)
  <2> DEFINE v == arg[c].from
  <2>0. v \in Rows
    BY DEF TypeOK
  <2>1. /\ UNCHANGED <<newFwd, newRev, oldFwd, oldRev, batchFwd, batchRev>>
        /\ \A d \in Callers \ {c} : pc'[d] = pc[d] /\ arg'[d] = arg[d]
        /\ pc[c] # "exists" /\ pc[c] \notin {"oldstore", "copy", "exists"}
    BY <1>2, SearchEffect DEF OwnInv, CallsOwn
  <2>2. pc'[c] \in {"findrow", "findscan", "rebind"} => arg'[c].to = 0
    BY <1>2, <2>1, SearchEffect DEF OwnInv, CallsOwn, AfterFind
  <2>3. ASSUME pc'[c] = "writeback" PROVE arg'[c].id \in OpenIds /\ arg'[c].from \in own[arg'[c].id]
    <3>1. /\ arg'[c].from = v /\ arg'[c].id \in Names
          /\ \/ arg'[c].id = OldLookup(v)
             \/ arg'[c].id = newRev[v]
             \/ arg'[c].id # Counter /\ newFwd[arg'[c].id] = v
      BY <1>2, <2>1, <2>3, SearchEffect DEF OwnInv, CallsOwn, AfterFind
    <3>2. CASE arg'[c].id = OldLookup(v) \/ arg'[c].id = newRev[v]
      <4>1. OldLookup(v) # None => OldLookup(v) \in OpenIds /\ v \in own[OldLookup(v)]
        BY <2>0 DEF OwnInv, RowsOf, OldLookup
      <4>2. newRev[v] # None => newRev[v] \in OpenIds /\ v \in own[newRev[v]]
        BY <2>0 DEF OwnInv, RowsOf
      <4> QED
        BY <3>1, <3>2, <4>1, <4>2
    <3>3. CASE arg'[c].id # Counter /\ newFwd[arg'[c].id] = v
      BY <2>0, <3>1, <3>3 DEF OwnInv, RowsOf, Names
    <3> QED
      BY <3>1, <3>2, <3>3
  <2>4. pc'[c] \notin {"oldstore", "copy", "exists", "find", "dual", "rebindold"}
    BY <1>2, <2>1, SearchEffect DEF OwnInv, CallsOwn, AfterFind
  <2>5. CallsOwn(own)'
    BY <2>1, <2>2, <2>3, <2>4 DEF OwnInv, CallsOwn
  <2> QED
    BY <2>1, <2>5 DEF OwnInv
<1> QED
  BY <1>1, <1>2

\* Writes keep to the rows of the OpenIDs, provided that a registration takes one.
LEMMA OwnWrite ==
  ASSUME TypeOK, ArgInv, NEW own, OwnInv(own), NEW c \in Callers, Write(c),
         StoreIdentity(c) => newFwd'[arg[c].id] \in own[arg[c].id] \cup {None}
  PROVE  OwnInv(own)'
<1> USE ConstantTypes DEF oldDB, newDB, worker
<1> DEFINE a == arg[c].id
<1>0. arg[c].to \in Rows /\ arg[c].from \in Rows
  BY DEF TypeOK
<1>1. ASSUME NEW at, NEW next \in {"idle", "dual", "rebindold"}, Advance(c, at, next),
             next = "dual" => arg'[c].to \in own[arg'[c].id],
             next = "rebindold" => arg'[c].to = 0,
             \A d \in Callers \ {c} : arg'[d] = arg[d]
      PROVE  CallsOwn(own)'
  <2>1. pc'[c] = next /\ \A d \in Callers \ {c} : pc'[d] = pc[d]
    BY <1>1 DEF Advance, TypeOK
  <2> QED
    BY <1>1, <2>1 DEF OwnInv, CallsOwn
<1>2. ASSUME NEW at, Return(c, at) PROVE CallsOwn(own)' /\ UNCHANGED <<batchFwd, batchRev>>
  <2>1. \A d \in Callers \ {c} : arg'[d] = arg[d]
    BY <1>2 DEF Return
  <2> QED
    BY <1>1, <1>2, <2>1 DEF Return, Advance
<1>3. CASE StoreIdentity(c)
  <2> DEFINE cleared == IF newFwd[a] = 0 THEN [newRev EXCEPT ![0] = None] ELSE newRev
             rows    == NewRows(a, newFwd, cleared)
  <2>0. a \in OpenIds
    BY <1>3 DEF StoreIdentity, ArgInv
  <2>1. UNCHANGED <<oldFwd, oldRev>>
    BY <1>3 DEF StoreIdentity
  <2>2. \A q \in Rows : cleared[q] \in {newRev[q], None}
    BY DEF TypeOK
  <2>3. rows \subseteq Rows
    BY <2>0, NewRowsAreRows
  <2>4. CASE /\ Known(a)
             /\ Advance(c, "store", "dual")
             /\ arg' = [arg EXCEPT ![c] = Arg(a, 0, newFwd[a])]
             /\ UNCHANGED <<newFwd, newRev>>
    <3>1. /\ arg'[c].to = newFwd[a] /\ arg'[c].id = a /\ newFwd[a] \in own[a]
          /\ \A d \in Callers \ {c} : arg'[d] = arg[d]
      BY <2>0, <2>4 DEF Arg, TypeOK, Known, OwnInv, RowsOf
    <3>2. CallsOwn(own)'
      BY <1>1, <2>4, <3>1
    <3> QED
      BY <2>1, <2>4, <3>2 DEF OwnInv, Advance
  <2> HIDE DEF cleared, rows
  <2>5. ASSUME NEW r \in rows,
               /\ Advance(c, "store", "dual")
               /\ newFwd' = WithRow(newFwd, a, r)
               /\ newRev' = [cleared EXCEPT ![r] = a]
               /\ arg' = [arg EXCEPT ![c] = Arg(a, 0, r)]
        PROVE  OwnInv(own)'
    <3>0. r \in Rows /\ r # None
      BY <2>3
    <3>1. newFwd'[a] = r /\ \A b \in OpenIds : newFwd'[b] = newFwd[b] \/ (b = a /\ newFwd'[b] = r)
      BY <2>0, <2>5, OpenIdsAssumption DEF WithRow, TypeOK
    <3>2. r \in own[a]
      BY <1>3, <3>0, <3>1
    <3>3. \A q \in Rows : newRev'[q] \in {newRev[q], None} \/ (q = r /\ newRev'[q] = a)
      BY <2>2, <2>5, <3>0 DEF cleared, TypeOK
    <3>4. RowsOf(newFwd, newRev, own)
      BY DEF OwnInv
    <3>5. RowsOf(newFwd', newRev', own)
      BY <2>0, <3>1, <3>2, <3>3, <3>4, Extended
    <3>6. /\ arg'[c].to = r /\ arg'[c].id = a
          /\ \A d \in Callers \ {c} : arg'[d] = arg[d]
      BY <2>5 DEF Arg, TypeOK
    <3>7. CallsOwn(own)'
      BY <1>1, <2>5, <3>2, <3>6
    <3> QED
      BY <2>1, <2>5, <3>5, <3>7 DEF OwnInv, Advance
  <2>6. CASE Return(c, "store") /\ UNCHANGED <<newFwd, newRev>>
    BY <1>2, <2>1, <2>6 DEF OwnInv
  <2> QED
    BY <1>3, <2>4, <2>5, <2>6 DEF StoreIdentity, rows, cleared
<1>4. CASE DualWrite(c)
  <2>1. a \in OpenIds /\ arg[c].to \in own[a]
    BY <1>4 DEF DualWrite, Return, Advance, ArgInv, OwnInv, CallsOwn
  <2>2. \A b \in OpenIds : oldFwd'[b] = oldFwd[b] \/ (b = a /\ oldFwd'[b] = arg[c].to)
    BY <1>0, <1>4, <2>1 DEF DualWrite, TypeOK
  <2>3. \A q \in Rows : oldRev'[q] \in {oldRev[q], None} \/ (q = arg[c].to /\ oldRev'[q] = a)
    BY <1>0, <1>4 DEF DualWrite, TypeOK
  <2>4. RowsOf(oldFwd', oldRev', own)
    <3>1. RowsOf(oldFwd, oldRev, own)
      BY DEF OwnInv
    <3> QED
      BY <2>1, <2>2, <2>3, <3>1, Extended
  <2> QED
    BY <1>2, <1>4, <2>4 DEF DualWrite, OwnInv
<1>5. CASE StoreInOldDB(c) \/ NewDBStore(c)
  BY <1>5 DEF StoreInOldDB, NewDBStore, Return, Advance, OwnInv, CallsOwn
<1>6. CASE RebindNew(c)
  <2>1. arg[c].to = 0 /\ UNCHANGED <<arg, oldFwd, oldRev, batchFwd, batchRev>>
        /\ Advance(c, "rebind", "rebindold")
    BY <1>6 DEF RebindNew, Advance, OwnInv, CallsOwn
  <2>2. newFwd' = newFwd /\ \A q \in Rows : newRev'[q] \in {newRev[q], None}
    BY <1>0, <1>6, <2>1 DEF RebindNew, Moved, MovedRow, TypeOK
  <2>3. RowsOf(newFwd, newRev, own)'
    BY <2>2 DEF OwnInv, RowsOf
  <2>4. CallsOwn(own)'
    BY <1>1, <2>1
  <2> QED
    BY <2>1, <2>3, <2>4 DEF OwnInv
<1>7. CASE RebindOld(c)
  <2>1. arg[c].to = 0
    BY <1>7 DEF RebindOld, Return, Advance, OwnInv, CallsOwn
  <2>2. oldFwd' = oldFwd /\ \A q \in Rows : oldRev'[q] \in {oldRev[q], None}
    BY <1>0, <1>7, <2>1 DEF RebindOld, Moved, MovedRow, TypeOK
  <2>3. RowsOf(oldFwd, oldRev, own)'
    BY <2>2 DEF OwnInv, RowsOf
  <2> QED
    BY <1>2, <1>7, <2>3 DEF RebindOld, OwnInv
<1>8. CASE WriteBackIdentity(c)
  <2>1. a \in OpenIds /\ arg[c].from \in own[a]
    BY <1>8 DEF WriteBackIdentity, Return, Advance, OwnInv, CallsOwn
  <2>2. \A b \in OpenIds : newFwd'[b] = newFwd[b] \/ (b = a /\ newFwd'[b] = arg[c].from)
    BY <1>0, <1>8, <2>1 DEF WriteBackIdentity, TypeOK
  <2>3. \A q \in Rows : newRev'[q] \in {newRev[q], None} \/ (q = arg[c].from /\ newRev'[q] = a)
    BY <1>0, <1>8 DEF WriteBackIdentity, TypeOK
  <2>4. RowsOf(newFwd', newRev', own)
    <3>1. RowsOf(newFwd, newRev, own)
      BY DEF OwnInv
    <3> QED
      BY <2>1, <2>2, <2>3, <3>1, Extended
  <2> QED
    BY <1>2, <1>8, <2>4 DEF WriteBackIdentity, OwnInv
<1> QED
  BY <1>3, <1>4, <1>5, <1>6, <1>7, <1>8 DEF Write

\* Batches, snapshots and the repair move rows between tables.
LEMMA OwnMigration ==
  ASSUME TypeOK, NEW own, OwnInv(own), MigrationNext \/ Start \/ Crash \/ DeleteOldDB
  PROVE  OwnInv(own)'
<1> USE ConstantTypes DEF oldDB, newDB, worker, calls
<1>0. /\ RowsOf(newFwd, newRev, own) /\ RowsOf(oldFwd, oldRev, own)
      /\ RowsOf(batchFwd, batchRev, own) /\ CallsOwn(own)
  BY DEF OwnInv
<1>1. CASE CheckMarker \/ MarkComplete
  BY <1>1 DEF CheckMarker, MarkComplete, Migrate, OwnInv, CallsOwn
<1>2. CASE SyncCounter \/ Start
  <2>1. newRev' = newRev /\ \A a \in OpenIds : newFwd'[a] = newFwd[a]
    BY <1>2, OpenIdsAssumption DEF SyncCounter, Start, CounterCopied, TypeOK
  <2>2. RowsOf(newFwd, newRev, own)'
    BY <1>0, <2>1 DEF RowsOf
  <2> QED
    BY <1>0, <1>2, <2>2 DEF SyncCounter, Start, Migrate, OwnInv, CallsOwn
<1>3. CASE ReadBatch
  <2>1. /\ \A a \in OpenIds : batchFwd'[a] \in {oldFwd[a], None}
        /\ \A r \in Rows : batchRev'[r] \in {oldRev[r], None}
    BY <1>3 DEF ReadBatch
  <2>2. RowsOf(batchFwd, batchRev, own)'
    BY <1>0, <2>1 DEF RowsOf
  <2> QED
    BY <1>0, <1>3, <2>2 DEF ReadBatch, Migrate, OwnInv, CallsOwn
<1>4. CASE WriteBatch
  <2>1. /\ \A a \in OpenIds : newFwd'[a] \in {newFwd[a], batchFwd[a], None}
        /\ \A r \in Rows : newRev'[r] \in {newRev[r], batchRev[r], None}
    BY <1>4 DEF WriteBatch, Else
  <2>2. RowsOf(newFwd, newRev, own)'
    BY <1>0, <2>1, Mixed
  <2>3. RowsOf(batchFwd, batchRev, own)'
    BY <1>4 DEF WriteBatch, NoFwd, NoRev, RowsOf
  <2> QED
    BY <1>0, <1>4, <2>2, <2>3 DEF WriteBatch, Migrate, OwnInv, CallsOwn
<1>5. CASE Verify \/ VerifyAgain
  BY <1>0, <1>5 DEF Verify, VerifyAgain, OpenSnapshot, Migrate, OwnInv, CallsOwn, RowsOf
<1>6. CASE CompareFirst \/ CompareAgain
  <2>1. RowsOf(batchFwd, batchRev, own)'
    BY <1>6 DEF CompareFirst, CompareAgain, Compare, NoFwd, NoRev, RowsOf
  <2> QED
    BY <1>0, <1>6, <2>1 DEF CompareFirst, CompareAgain, Compare, Migrate, OwnInv, CallsOwn
<1>7. CASE Repair
  <2>1. /\ \A a \in OpenIds : newFwd'[a] \in {newFwd[a], oldFwd[a], None}
        /\ \A r \in Rows : newRev'[r] \in {newRev[r], oldRev[r], None}
    BY <1>7 DEF Repair
  <2>2. RowsOf(newFwd, newRev, own)'
    BY <1>0, <2>1, Mixed
  <2> QED
    BY <1>0, <1>7, <2>2 DEF Repair, Migrate, OwnInv, CallsOwn
<1>8. CASE Crash
  <2>1. RowsOf(batchFwd, batchRev, own)' /\ CallsOwn(own)'
    BY <1>8 DEF Crash, NoFwd, NoRev, RowsOf, CallsOwn
  <2> QED
    BY <1>0, <1>8, <2>1 DEF Crash, OwnInv
<1>9. CASE DeleteOldDB
  <2>1. RowsOf(oldFwd, oldRev, own)'
    BY <1>9 DEF DeleteOldDB, NoFwd, NoRev, RowsOf
  <2> QED
    BY <1>0, <1>9, <2>1 DEF DeleteOldDB, OwnInv, CallsOwn
<1> QED
  BY <1>1, <1>2, <1>3, <1>4, <1>5, <1>6, <1>7, <1>8, <1>9 DEF MigrationNext

LEMMA OwnStep ==
  ASSUME TypeOK, ArgInv, NoBinds, NEW own, OwnInv(own), [Next]_vars,
         \A c \in Callers :
           StoreIdentity(c) => newFwd'[arg[c].id] \in own[arg[c].id] \cup {None}
  PROVE  OwnInv(own)'
<1>1. CASE UNCHANGED vars
  BY <1>1 DEF vars, newDB, oldDB, worker, calls, OwnInv, CallsOwn
<1> QED
  BY <1>1, OwnSearch, OwnWrite, OwnMigration DEF Next, CallerNext
-----------------------------------------------------------------------------
(* Counted virtual ids, while a legacy database is migrated                   *)

\* The legacy databases that the counter wrote: no row is beyond it, and only rows of 0
\* (unbound) are shared.
CountedLegacies ==
  \A l \in Legacies \ {None} : \A a \in OpenIds :
    /\ l[a] \in {None, 0} \/ (l[Counter] # None /\ l[a] <= l[Counter])
    /\ \A b \in OpenIds \ {a} : l[a] = l[b] => l[a] \in {None, 0}

\* The last row given out, in the database that the next one is taken from once Start
\* has copied the counter.
Top == IF newFwd[Counter] # None THEN newFwd[Counter]
       ELSE IF hasOld /\ oldFwd[Counter] # None THEN oldFwd[Counter] ELSE 0

Given == [a \in OpenIds |-> issued[a] \cup {0}]

CounterInv == /\ up \/ marker => newFwd[Counter] # None \/ oldFwd[Counter] = None \/ ~hasOld
              /\ mig = "write" => batchFwd[Counter] = None
              /\ \A c \in Callers : pc[c] # "idle" => up

CountedInv == /\ OwnInv(Given) /\ CounterInv
              /\ \A a \in OpenIds : issued[a] \subseteq 1..Top
              /\ \A a, b \in OpenIds : a # b => issued[a] \cap issued[b] = {}

LEMMA CountedInit == ASSUME CountedLegacies, Init PROVE CountedInv
<1> USE ConstantTypes
<1>1. PICK l \in Legacies :
        /\ hasOld = (l # None)
        /\ oldFwd = IF l = None THEN NoFwd ELSE l
        /\ oldRev = [r \in Rows |->
                       IF l # None /\ \E a \in OpenIds : l[a] = r
                       THEN CHOOSE a \in OpenIds : l[a] = r ELSE None]
        /\ issued = [a \in OpenIds |->
                       IF l # None /\ l[a] # None THEN {l[a]} \ {0} ELSE {}]
  BY DEF Init
<1>2. newFwd = NoFwd /\ newRev = NoRev /\ batchFwd = NoFwd /\ batchRev = NoRev
      /\ pc = [c \in Callers |-> "idle"] /\ ~up /\ ~marker /\ mig = "off"
  BY DEF Init
<1>3. l # None => l \in [Names -> Rows \cup {None}]
  BY LegacyAssumption
<1>4. RowsOf(NoFwd, NoRev, Given)
  BY DEF RowsOf, NoFwd, NoRev
<1>5. \A a \in OpenIds : oldFwd[a] # None => oldFwd[a] \in Given[a]
  BY <1>1, <1>3 DEF Given, NoFwd
<1>6. ASSUME NEW r \in Rows, oldRev[r] # None PROVE oldRev[r] \in OpenIds /\ r \in Given[oldRev[r]]
  <2>1. l # None /\ \E a \in OpenIds : l[a] = r
    BY <1>1, <1>6
  <2>2. oldRev[r] \in OpenIds /\ l[oldRev[r]] = r
    BY <1>1, <2>1
  <2> QED
    BY <1>1, <2>1, <2>2 DEF Given
<1>7. OwnInv(Given)
  BY <1>2, <1>4, <1>5, <1>6 DEF OwnInv, RowsOf, CallsOwn
<1>8. CounterInv
  BY <1>2 DEF CounterInv
<1>9. ASSUME NEW a \in OpenIds, NEW r \in issued[a]
      PROVE  r \in 1..Top /\ l # None /\ r = l[a] /\ r \notin {None, 0}
  <2>1. l # None /\ r = l[a] /\ l[a] # None /\ r # 0
    BY <1>1, <1>9
  <2>2. r \in Nat /\ l[Counter] # None /\ r <= l[Counter]
    BY <1>3, <2>1 DEF CountedLegacies
  <2>3. Top = l[Counter] /\ l[Counter] \in Nat
    BY <1>1, <1>2, <1>3, <2>1, <2>2 DEF Top, NoFwd
  <2> QED
    BY <2>1, <2>2, <2>3
<1>10. ASSUME NEW a \in OpenIds, NEW b \in OpenIds, a # b PROVE issued[a] \cap issued[b] = {}
  BY <1>9, <1>10 DEF CountedLegacies
<1> QED
  BY <1>7, <1>8, <1>9, <1>10 DEF CountedInv

\* The next row is the one after all that were given out.
LEMMA NextCounted ==
  ASSUME ~HashId, TypeOK, CounterInv, up, NEW a, NEW rev, NEW r \in NewRows(a, newFwd, rev)
  PROVE  Top \in Nat /\ r = Top + 1 /\ r \in Rows
<1> USE ConstantTypes DEF TypeOK
<1>1. r \in Rows /\ r = IF newFwd[Counter] = None THEN 1 ELSE newFwd[Counter] + 1
  BY DEF NewRows
<1>2. newFwd[Counter] = None => Top = 0
  BY DEF Top, CounterInv
<1>3. newFwd[Counter] # None => Top = newFwd[Counter] /\ Top \in Nat
  BY DEF Top
<1> QED
  BY <1>1, <1>2, <1>3

\* A registration of an OpenID that has no row takes the next one.
LEMMA CountedStore ==
  ASSUME ~HashId, TypeOK, ArgInv, CountedInv, NEW c \in Callers, StoreIdentity(c)
  PROVE  /\ \A a \in OpenIds : issued[a] \subseteq issued'[a] /\ issued'[a] \subseteq 1..Top'
         /\ \A a, b \in OpenIds : a # b => issued'[a] \cap issued'[b] = {}
         /\ newFwd'[arg[c].id] \in issued'[arg[c].id] \cup {0, None}
         /\ CounterInv'
<1> USE ConstantTypes
<1> DEFINE a == arg[c].id
           cleared == IF newFwd[a] = 0 THEN [newRev EXCEPT ![0] = None] ELSE newRev
           rows == NewRows(a, newFwd, cleared)
<1>0. a \in OpenIds /\ up /\ a # Counter
  BY OpenIdsAssumption DEF StoreIdentity, ArgInv, CountedInv, CounterInv
<1>1. /\ UNCHANGED <<up, marker, mig, batchFwd, oldFwd, hasOld>>
      /\ \A d \in Callers : pc'[d] \in {pc[d], "dual", "idle"}
  BY DEF StoreIdentity, Return, Advance, oldDB, worker, TypeOK
<1>2. newFwd[a] # None => newFwd[a] \in issued[a] \cup {0}
  BY <1>0 DEF CountedInv, OwnInv, RowsOf, Given
<1>3. CASE UNCHANGED newFwd /\ issued' = issued
  <2>1. Top' = Top
    BY <1>1, <1>3 DEF Top
  <2> QED
    BY <1>0, <1>1, <1>2, <1>3, <2>1 DEF CountedInv, CounterInv
<1>4. CASE Known(a) /\ UNCHANGED newFwd /\ issued' = [issued EXCEPT ![a] = @ \cup {newFwd[a]}]
  <2>1. issued' = issued
    BY <1>0, <1>2, <1>4 DEF Known, TypeOK
  <2> QED
    BY <1>3, <1>4, <2>1
<1> HIDE DEF rows, cleared
<1>5. ASSUME NEW r \in rows, newFwd' = WithRow(newFwd, a, r),
             issued' = [issued EXCEPT ![a] = @ \cup {r}]
      PROVE  /\ \A b \in OpenIds : issued[b] \subseteq issued'[b] /\ issued'[b] \subseteq 1..Top'
             /\ \A b, d \in OpenIds : b # d => issued'[b] \cap issued'[d] = {}
             /\ newFwd'[a] \in issued'[a] \cup {0, None}
             /\ CounterInv'
  <2>1. Top \in Nat /\ r = Top + 1 /\ r \in Rows
    BY <1>0, <1>5, NextCounted DEF rows, CountedInv
  <2>2. newFwd'[Counter] = r /\ newFwd'[a] = r
    BY <1>0, <1>5, <2>1 DEF WithRow, TypeOK
  <2>3. Top' = r
    BY <2>1, <2>2 DEF Top
  <2>4. issued'[a] = issued[a] \cup {r} /\ \A b \in OpenIds \ {a} : issued'[b] = issued[b]
    BY <1>0, <1>5 DEF TypeOK
  <2>5. \A b \in OpenIds : issued[b] \subseteq 1..Top /\ r \notin issued[b]
    BY <2>1 DEF CountedInv
  <2>6. \A b \in OpenIds : issued'[b] \subseteq 1..Top'
    BY <2>1, <2>3, <2>4, <2>5
  <2>7. \A b, d \in OpenIds : b # d => issued'[b] \cap issued'[d] = {}
    BY <2>4, <2>5 DEF CountedInv
  <2>8. CounterInv'
    BY <1>0, <1>1, <2>1, <2>2 DEF CountedInv, CounterInv
  <2> QED
    BY <2>2, <2>4, <2>6, <2>7, <2>8
<1> QED
  BY <1>3, <1>4, <1>5 DEF StoreIdentity, rows, cleared

\* No other step gives out a row or moves the counter, but from one database to the other.
LEMMA CounterStays ==
  ASSUME TypeOK, ArgInv, CountedInv, [Next]_vars, \A c \in Callers : ~StoreIdentity(c)
  PROVE  issued' = issued /\ Top' = Top /\ CounterInv'
<1> USE ConstantTypes, OpenIdsAssumption DEF newDB, oldDB, worker, calls
<1>0. CounterInv /\ \A c \in Callers : pc[c] \notin {"oldstore", "copy"}
  BY DEF CountedInv, OwnInv, CallsOwn
<1>1. CASE UNCHANGED vars
  BY <1>0, <1>1 DEF vars, Top, CounterInv
<1>2. ASSUME NEW c \in Callers, Begin(c) PROVE issued' = issued /\ Top' = Top /\ CounterInv'
  BY <1>0, <1>2 DEF Begin, CallStore, CallStoreID, CallUpdate, CallResolve, Call, Top, CounterInv,
                    TypeOK
<1>3. ASSUME NEW c \in Callers, Search(c) PROVE issued' = issued /\ Top' = Top /\ CounterInv'
  <2>1. UNCHANGED <<newFwd, marker, oldFwd, hasOld, issued, up, mig, batchFwd>>
    BY <1>3, SearchEffect
  <2>2. pc[c] # "idle" /\ \A d \in Callers \ {c} : pc'[d] = pc[d]
    BY <1>3 DEF Search, FindInOldDB, FindInNewDB, FindByScan, CheckExists, RetrieveIdentity,
                LazyFromNewDB, LazyFromOldDB, LazyByScan, LookUp, Return, Advance, TypeOK
  <2> QED
    BY <1>0, <2>1, <2>2 DEF Top, CounterInv
<1>4. ASSUME NEW c \in Callers, Write(c) PROVE issued' = issued /\ Top' = Top /\ CounterInv'
  <2>1. /\ DualWrite(c) \/ RebindNew(c) \/ RebindOld(c) \/ WriteBackIdentity(c)
        /\ pc[c] # "idle" /\ \A d \in Callers \ {c} : pc'[d] = pc[d]
    BY <1>0, <1>4 DEF Write, StoreInOldDB, NewDBStore, DualWrite, RebindNew, RebindOld,
                      WriteBackIdentity, Return, Advance, TypeOK
  <2>2. UNCHANGED <<marker, hasOld, issued, up, mig, batchFwd>>
    BY <2>1 DEF DualWrite, RebindNew, RebindOld, WriteBackIdentity, Return, Advance
  <2>3. newFwd'[Counter] = newFwd[Counter]
    BY <2>1 DEF DualWrite, RebindNew, RebindOld, WriteBackIdentity, Return, Advance, Moved,
                CountedInv, OwnInv, CallsOwn, TypeOK
  <2>4. oldFwd'[Counter] = oldFwd[Counter]
    BY <2>1 DEF DualWrite, RebindNew, RebindOld, WriteBackIdentity, Return, Advance, Moved,
                CountedInv, OwnInv, CallsOwn, TypeOK, ArgInv
  <2> QED
    BY <1>0, <2>1, <2>2, <2>3, <2>4 DEF Top, CounterInv
<1>5. CASE MigrationNext
  <2>0. up /\ UNCHANGED <<up, oldFwd, hasOld, issued, pc>>
    BY <1>5 DEF MigrationNext, CheckMarker, SyncCounter, ReadBatch, WriteBatch, Verify,
       VerifyAgain, OpenSnapshot, CompareFirst, CompareAgain, Compare, Repair, MarkComplete, Migrate
  <2>1. newFwd'[Counter] = newFwd[Counter] \/ newFwd'[Counter] = Top
    BY <1>0, <1>5, <2>0 DEF MigrationNext, CheckMarker, SyncCounter, ReadBatch, WriteBatch, Verify,
       VerifyAgain, OpenSnapshot, CompareFirst, CompareAgain, Compare, Repair, MarkComplete,
       Migrate, CounterInv, CounterCopied, Else, TypeOK, Top
  <2>2. mig' = "write" => batchFwd'[Counter] = None
    <3>1. CASE ReadBatch
      <4>1. \A p \in Ahead : p < CounterAt => KeyAt(p) # Counter
        BY KeyOrderAssumption, BoundsAssumption DEF Ahead, LastPosition, CounterAt, KeyAt, TypeOK
      <4>2. NextBatch \subseteq Ahead
        BY DEF NextBatch, Entries
      <4> QED
        BY <3>1, <4>1, <4>2 DEF ReadBatch
    <3>2. CASE ~ReadBatch
      BY <1>5, <3>2 DEF MigrationNext, CheckMarker, SyncCounter, WriteBatch, Verify,
         VerifyAgain, OpenSnapshot, CompareFirst, CompareAgain, Compare, Repair, MarkComplete,
         Migrate
    <3> QED
      BY <3>1, <3>2
  <2>3. newFwd[Counter] # None => newFwd'[Counter] = newFwd[Counter]
    BY <2>1 DEF Top
  <2>4. Top' = Top
    BY <1>0, <2>0, <2>1, <2>3 DEF Top, CounterInv
  <2>5. newFwd'[Counter] # None \/ oldFwd'[Counter] = None \/ ~hasOld'
    BY <1>0, <2>0, <2>3 DEF CounterInv
  <2> QED
    BY <1>0, <2>0, <2>2, <2>4, <2>5 DEF CounterInv
<1>6. CASE Start
  <2>1. newFwd'[Counter] = IF hasOld /\ newFwd[Counter] = None THEN oldFwd[Counter]
                           ELSE newFwd[Counter]
    BY <1>6 DEF Start, CounterCopied, TypeOK
  <2>2. UNCHANGED <<oldFwd, hasOld, issued, pc>> /\ up' /\ mig' # "write"
    BY <1>6 DEF Start
  <2> QED
    BY <1>0, <2>1, <2>2 DEF Top, CounterInv
<1>7. CASE Crash
  BY <1>0, <1>7 DEF Crash, Top, CounterInv
<1>8. CASE DeleteOldDB
  BY <1>0, <1>8 DEF DeleteOldDB, Top, CounterInv, NoFwd
<1> QED
  BY <1>1, <1>2, <1>3, <1>4, <1>5, <1>6, <1>7, <1>8 DEF Next, CallerNext

LEMMA CountedStep ==
  ASSUME ~HashId, NoBinds, TypeOK, ArgInv, CountedInv, [Next]_vars PROVE CountedInv'
<1>1. /\ \A a \in OpenIds : issued[a] \subseteq issued'[a] /\ issued'[a] \subseteq 1..Top'
      /\ \A a, b \in OpenIds : a # b => issued'[a] \cap issued'[b] = {}
      /\ \A c \in Callers : StoreIdentity(c) =>
           newFwd'[arg[c].id] \in issued'[arg[c].id] \cup {0, None}
      /\ CounterInv'
  <2>1. CASE \E c \in Callers : StoreIdentity(c)
    BY <2>1, CountedStore
  <2>2. CASE \A c \in Callers : ~StoreIdentity(c)
    BY <2>2, CounterStays DEF CountedInv
  <2> QED
    BY <2>1, <2>2
<1>2. PICK own : own = Given
  OBVIOUS
<1>3. PICK wide : wide = Given'
  OBVIOUS
<1>4. OwnInv(own)
  BY <1>2 DEF CountedInv
<1>5. \A a \in OpenIds : own[a] \subseteq wide[a] /\ wide[a] = issued'[a] \cup {0}
  BY <1>1, <1>2, <1>3 DEF Given
<1>6. OwnInv(wide)
  BY <1>4, <1>5, OwnWider
<1>7. \A c \in Callers :
        StoreIdentity(c) => newFwd'[arg[c].id] \in wide[arg[c].id] \cup {None}
  <2> SUFFICES ASSUME NEW c \in Callers, StoreIdentity(c)
               PROVE  newFwd'[arg[c].id] \in wide[arg[c].id] \cup {None}
    OBVIOUS
  <2>1. arg[c].id \in OpenIds
    BY DEF StoreIdentity, ArgInv
  <2> QED
    BY <1>1, <1>5, <2>1
<1>8. OwnInv(wide)'
  BY <1>6, <1>7, OwnStep
<1>9. OwnInv(Given)'
  BY <1>3, <1>8 DEF OwnInv, CallsOwn, RowsOf
<1> QED
  BY <1>1, <1>9 DEF CountedInv

\* While a counting installation is migrated, whatever registers, looks up or unbinds
\* meanwhile, and wherever it crashes: no two OpenIDs get one virtual id, one from the
\* legacy database included (generateRowID, StartMigration's copy of the counter).
THEOREM CountedIdsDistinct ==
  ASSUME ~HashId, NoBinds, CountedLegacies PROVE Spec => []DistinctIds
<1>1. Init => CountedInv
  BY CountedInit
<1>2. IInv /\ CountedInv /\ [Next]_vars => CountedInv'
  BY CountedStep DEF IInv
<1>3. CountedInv => DistinctIds
  <2> SUFFICES ASSUME CountedInv, NEW a \in OpenIds, NEW b \in OpenIds, a # b, Known(a),
                      newFwd[a] = newFwd[b]
               PROVE  FALSE
    BY DEF DistinctIds
  <2>1. newFwd[a] \in issued[a] /\ newFwd[b] \in issued[b]
    BY DEF Known, CountedInv, OwnInv, RowsOf, Given
  <2> QED
    BY <2>1 DEF CountedInv
<1> QED
  BY Invariance, <1>1, <1>2, <1>3, PTL DEF Spec
-----------------------------------------------------------------------------
(* Virtual ids derived from the OpenID, while a legacy database is migrated   *)

\* What GenerateRowID yields first (nine digits).
H(a) == HashRows[a][1]

\* No two OpenIDs collide there, and the legacy databases were written the same way.
HashedIds ==
  /\ HashId
  /\ \A a \in OpenIds : HashRows[a] # << >>
  /\ \A a, b \in OpenIds : a # b => H(a) # H(b)
  /\ \A l \in Legacies \ {None} :
       l[Counter] = None /\ \A a \in OpenIds : l[a] \in {None, H(a)}

Hashed == [a \in OpenIds |-> {H(a)}]

\* Nobody counts.
Uncounted == newFwd[Counter] = None /\ oldFwd[Counter] = None /\ batchFwd[Counter] = None

\* Who is found under a row has an entry, and a batch completes the entries of its rows.
Behind(fwd, rev) == \A r \in Rows : rev[r] # None => fwd[rev[r]] # None
BatchBehind == mig = "write" => \A r \in Rows : batchRev[r] # None =>
                                  newFwd[batchRev[r]] # None \/ batchFwd[batchRev[r]] # None

\* Keys that the migration's cursor has passed are copied, or about to be: the calls
\* that write behind it write the new database first.
Passed(k) == newFwd[KeyOrder[k]] # None \/ (mig = "write" /\ batchFwd[KeyOrder[k]] # None)
Copied == /\ mig = "sync" => cursor = 1
          /\ mig \in {"read", "write"} => \A k \in 1..Len(KeyOrder) :
               k < cursor /\ oldFwd[KeyOrder[k]] # None => Passed(k)
NewFirst == \A c \in Callers : pc[c] = "dual" => newFwd[arg[c].id] # None

HashedInv == /\ OwnInv(Hashed) /\ Uncounted /\ \A a \in OpenIds : issued[a] \subseteq {H(a)}
             /\ Behind(newFwd, newRev) /\ Behind(oldFwd, oldRev) /\ BatchBehind
             /\ Copied /\ NewFirst

LEMMA HashTypes == ASSUME HashedIds, NEW a \in OpenIds
                   PROVE  H(a) \in Rows \ {0} /\ 1 \in DOMAIN HashRows[a]
BY HashAssumption DEF HashedIds, H

LEMMA HashedInit == ASSUME HashedIds, Init PROVE HashedInv
<1> USE ConstantTypes
<1>1. PICK l \in Legacies :
        /\ hasOld = (l # None)
        /\ oldFwd = IF l = None THEN NoFwd ELSE l
        /\ oldRev = [r \in Rows |->
                       IF l # None /\ \E a \in OpenIds : l[a] = r
                       THEN CHOOSE a \in OpenIds : l[a] = r ELSE None]
        /\ issued = [a \in OpenIds |->
                       IF l # None /\ l[a] # None THEN {l[a]} \ {0} ELSE {}]
  BY DEF Init
<1>2. newFwd = NoFwd /\ newRev = NoRev /\ batchFwd = NoFwd /\ batchRev = NoRev
      /\ pc = [c \in Callers |-> "idle"] /\ mig = "off"
  BY DEF Init
<1>3. l # None => l \in [Names -> Rows \cup {None}]
  BY LegacyAssumption
<1>4. RowsOf(NoFwd, NoRev, Hashed)
  BY DEF RowsOf, NoFwd, NoRev
<1>5. \A a \in OpenIds : oldFwd[a] # None => oldFwd[a] \in Hashed[a]
  BY <1>1, <1>3 DEF Hashed, NoFwd, HashedIds
<1>6. ASSUME NEW r \in Rows, oldRev[r] # None
      PROVE  oldRev[r] \in OpenIds /\ r \in Hashed[oldRev[r]] /\ oldFwd[oldRev[r]] # None
  <2>1. l # None /\ \E a \in OpenIds : l[a] = r
    BY <1>1, <1>6
  <2>2. oldRev[r] \in OpenIds /\ l[oldRev[r]] = r
    BY <1>1, <2>1
  <2>3. l[oldRev[r]] \in {None, H(oldRev[r])}
    BY <2>1, <2>2 DEF HashedIds
  <2> QED
    BY <1>1, <2>1, <2>2, <2>3 DEF Hashed
<1>7. OwnInv(Hashed)
  BY <1>2, <1>4, <1>5, <1>6 DEF OwnInv, RowsOf, CallsOwn
<1>8. Uncounted
  BY <1>1, <1>2, <1>3 DEF Uncounted, NoFwd, HashedIds
<1>9. \A a \in OpenIds : issued[a] \subseteq {H(a)}
  BY <1>1, <1>3 DEF HashedIds
<1>10. Behind(newFwd, newRev) /\ Behind(oldFwd, oldRev) /\ BatchBehind /\ Copied /\ NewFirst
  BY <1>2, <1>6 DEF Behind, BatchBehind, Copied, NewFirst, NoRev
<1> QED
  BY <1>7, <1>8, <1>9, <1>10 DEF HashedInv

\* An OpenID without a row finds its first choice free.
LEMMA HashedRow ==
  ASSUME HashedIds, TypeOK, HashedInv, NEW a \in OpenIds, ~Known(a)
  PROVE  newFwd[a] = None /\ NewRows(a, newFwd, newRev) = {H(a)}
<1>1. newFwd[a] = None
  BY HashTypes DEF Known, HashedInv, OwnInv, RowsOf, Hashed
<1>2. newRev[H(a)] = None
  BY <1>1, HashTypes, SMTT(30) DEF HashedInv, OwnInv, RowsOf, Hashed, Behind, HashedIds
<1>3. DOMAIN HashRows[a] \subseteq Nat \ {0}
  BY HashAssumption
<1>4. 1 \in Free(a, newRev) /\ Free(a, newRev) \subseteq Nat \ {0}
  BY <1>2, <1>3, HashTypes DEF Free, H
<1>5. {j \in Free(a, newRev) : \A i \in Free(a, newRev) : j <= i} = {1}
  <2> SUFFICES ASSUME NEW j \in Free(a, newRev)
               PROVE  (\A i \in Free(a, newRev) : j <= i) <=> j = 1
    BY <1>4
  <2> QED
    BY <1>4
<1>6. NewRows(a, newFwd, newRev) = {HashRows[a][k] : k \in {1}}
  BY <1>5 DEF NewRows, HashedIds
<1> QED
  BY <1>1, <1>6 DEF H

LEMMA HashedStore ==
  ASSUME HashedIds, TypeOK, ArgInv, HashedInv, NEW c \in Callers, StoreIdentity(c)
  PROVE  /\ arg[c].id \in OpenIds
         /\ \/ UNCHANGED <<newFwd, newRev>>
            \/ /\ newFwd' = [newFwd EXCEPT ![arg[c].id] = H(arg[c].id)]
               /\ newRev' = [newRev EXCEPT ![H(arg[c].id)] = arg[c].id]
         /\ newFwd'[arg[c].id] \in {None, H(arg[c].id)}
         /\ \A a \in OpenIds : issued'[a] \subseteq {H(a)}
         /\ pc'[c] = "dual" => newFwd'[arg[c].id] # None /\ arg'[c].id = arg[c].id
<1> USE ConstantTypes
<1> DEFINE a == arg[c].id
           cleared == IF newFwd[a] = 0 THEN [newRev EXCEPT ![0] = None] ELSE newRev
           rows == NewRows(a, newFwd, cleared)
<1>0. a \in OpenIds /\ H(a) \in Rows \ {0}
  BY HashTypes DEF StoreIdentity, ArgInv
<1>1. newFwd[a] \in {None, H(a)}
  BY <1>0 DEF HashedInv, OwnInv, RowsOf, Hashed
<1>2. cleared = newRev
  BY <1>0, <1>1
<1>3. ~Known(a) => rows = {H(a)}
  BY <1>0, <1>2, HashedRow
<1> HIDE DEF rows, cleared
<1>4. CASE /\ Known(a)
           /\ Advance(c, "store", "dual")
           /\ arg' = [arg EXCEPT ![c] = Arg(a, 0, newFwd[a])]
           /\ issued' = [issued EXCEPT ![a] = @ \cup {newFwd[a]}]
           /\ UNCHANGED <<newFwd, newRev>>
  <2>1. \A b \in OpenIds : issued'[b] \subseteq {H(b)}
    BY <1>0, <1>1, <1>4 DEF Known, HashedInv, TypeOK
  <2> QED
    BY <1>0, <1>1, <1>4, <2>1 DEF Known, Arg, TypeOK
<1>5. ASSUME NEW r \in rows, ~Known(a),
             Advance(c, "store", "dual"),
             newFwd' = WithRow(newFwd, a, r),
             newRev' = [cleared EXCEPT ![r] = a],
             arg' = [arg EXCEPT ![c] = Arg(a, 0, r)],
             issued' = [issued EXCEPT ![a] = @ \cup {r}]
      PROVE  /\ newFwd' = [newFwd EXCEPT ![a] = H(a)]
             /\ newRev' = [newRev EXCEPT ![H(a)] = a]
             /\ newFwd'[a] = H(a)
             /\ \A b \in OpenIds : issued'[b] \subseteq {H(b)}
             /\ arg'[c].id = a
  <2>1. r = H(a)
    BY <1>3, <1>5
  <2>2. \A b \in OpenIds : issued'[b] \subseteq {H(b)}
    BY <1>0, <1>5, <2>1 DEF HashedInv, TypeOK
  <2>3. newFwd' = [newFwd EXCEPT ![a] = H(a)] /\ newRev' = [newRev EXCEPT ![H(a)] = a]
    BY <1>2, <1>5, <2>1 DEF WithRow, HashedIds
  <2>4. newFwd'[a] = H(a) /\ arg'[c].id = a
    BY <1>0, <1>5, <2>3 DEF TypeOK, Arg
  <2> QED
    BY <2>2, <2>3, <2>4
<1>6. CASE Return(c, "store") /\ UNCHANGED <<newFwd, newRev, issued>>
  BY <1>0, <1>1, <1>6 DEF HashedInv, Return, Advance, TypeOK
<1> QED
  BY <1>0, <1>4, <1>5, <1>6 DEF StoreIdentity, rows, cleared

\* What a call writes: entries with the rows that lead to them, the new database first.
LEMMA HashedCaller ==
  ASSUME HashedIds, NoBinds, TypeOK, ArgInv, HashedInv, NEW c \in Callers, CallerNext(c)
  PROVE  /\ UNCHANGED worker
         /\ newFwd'[Counter] = newFwd[Counter] /\ oldFwd'[Counter] = oldFwd[Counter]
         /\ \A r \in Rows : newRev'[r] \in {newRev[r], None} \/ newFwd'[newRev'[r]] # None
         /\ \A r \in Rows : oldRev'[r] \in {oldRev[r], None} \/ oldFwd'[oldRev'[r]] # None
         /\ \A a \in OpenIds : /\ oldFwd[a] # None => oldFwd'[a] # None
                               /\ oldFwd'[a] # None => oldFwd[a] # None \/ newFwd[a] # None
         /\ \A a \in OpenIds : issued'[a] \subseteq {H(a)}
         /\ NewFirst'
<1> USE ConstantTypes, OpenIdsAssumption DEF newDB, oldDB
<1> DEFINE a == arg[c].id
<1>0. /\ \A b \in OpenIds : issued[b] \subseteq {H(b)}
      /\ \A d \in Callers : pc[d] \notin {"oldstore", "copy"}
      /\ arg[c].to \in Rows /\ arg[c].from \in Rows
  BY DEF HashedInv, OwnInv, CallsOwn, TypeOK
<1>1. ASSUME \A d \in Callers \ {c} : pc'[d] = pc[d] /\ arg'[d] = arg[d],
             pc'[c] = "dual" => newFwd'[arg'[c].id] # None
      PROVE  NewFirst'
  <2>1. \A b \in OpenIds : newFwd[b] # None => newFwd'[b] # None
    BY EntryStays DEF Next
  <2> QED
    BY <1>1, <2>1 DEF NewFirst, HashedInv, ArgInv
<1>2. CASE Begin(c)
  <2>1. UNCHANGED <<newDB, oldDB, worker, issued>>
    BY <1>2 DEF Begin, CallStore, CallStoreID, CallUpdate, CallResolve, Call
  <2>2. pc'[c] # "dual" /\ \A d \in Callers \ {c} : pc'[d] = pc[d] /\ arg'[d] = arg[d]
    BY <1>2 DEF Begin, CallStore, CallStoreID, CallUpdate, CallResolve, Call, TypeOK
  <2> QED
    BY <1>0, <1>1, <2>1, <2>2
<1>3. CASE Search(c)
  <2>1. /\ UNCHANGED <<newDB, oldDB, worker, issued>>
        /\ \A d \in Callers \ {c} : pc'[d] = pc[d] /\ arg'[d] = arg[d]
    BY <1>3, SearchEffect DEF worker
  <2>2. pc'[c] # "dual"
    BY <1>3, SearchEffect DEF AfterFind
  <2> QED
    BY <1>0, <1>1, <2>1, <2>2
<1>4. CASE Write(c)
  <2>1. /\ UNCHANGED worker
        /\ \A d \in Callers \ {c} : pc'[d] = pc[d] /\ arg'[d] = arg[d]
        /\ pc'[c] \in {"idle", "dual", "rebindold"}
        /\ pc'[c] = "dual" => StoreIdentity(c)
    BY <1>0, <1>4, ZenonT(30) DEF Write, StoreIdentity, DualWrite, StoreInOldDB, NewDBStore, RebindNew,
                      RebindOld, WriteBackIdentity, Return, Advance, TypeOK
  <2>2. NewFirst'
    BY <1>1, <2>1, HashedStore
  <2>3. CASE StoreIdentity(c)
    <3>1. a \in OpenIds /\ H(a) \in Rows \ {0} /\ UNCHANGED <<oldFwd, oldRev>>
      BY <2>3, HashedStore, HashTypes DEF StoreIdentity
    <3>2. \A b \in OpenIds : issued'[b] \subseteq {H(b)}
      BY <2>3, HashedStore
    <3>3. CASE UNCHANGED <<newFwd, newRev>>
      BY <2>1, <2>2, <3>1, <3>2, <3>3
    <3>4. CASE /\ newFwd' = [newFwd EXCEPT ![a] = H(a)]
               /\ newRev' = [newRev EXCEPT ![H(a)] = a]
      <4>1. newFwd'[Counter] = newFwd[Counter] /\ newFwd'[a] # None
        BY <3>1, <3>4 DEF TypeOK
      <4>2. \A r \in Rows : newRev'[r] \in {newRev[r], a}
        BY <3>1, <3>4 DEF TypeOK
      <4> QED
        BY <2>1, <2>2, <3>1, <3>2, <4>1, <4>2
    <3> QED
      BY <2>3, <3>3, <3>4, HashedStore
  <2>4. CASE DualWrite(c)
    <3>1. a \in OpenIds /\ newFwd[a] # None
      BY <2>4 DEF DualWrite, Return, Advance, ArgInv, HashedInv, NewFirst
    <3>2. UNCHANGED <<newFwd, newRev, issued>> /\ oldFwd'[Counter] = oldFwd[Counter]
      BY <2>4, <3>1 DEF DualWrite, TypeOK
    <3>3. \A b \in OpenIds : oldFwd'[b] = oldFwd[b] \/ (b = a /\ oldFwd'[b] # None)
      BY <1>0, <2>4, <3>1 DEF DualWrite, TypeOK
    <3>4. \A r \in Rows : oldRev'[r] \in {oldRev[r], None} \/ (oldRev'[r] = a /\ oldFwd'[a] # None)
      BY <1>0, <2>4, <3>1 DEF DualWrite, TypeOK
    <3> QED
      BY <1>0, <2>1, <2>2, <3>1, <3>2, <3>3, <3>4
  <2>5. CASE StoreInOldDB(c) \/ NewDBStore(c)
    BY <1>0, <2>5 DEF StoreInOldDB, NewDBStore, Return, Advance
  <2>6. CASE RebindNew(c)
    <3>1. arg[c].to = 0 /\ UNCHANGED <<oldFwd, oldRev, issued>>
      BY <2>6 DEF RebindNew, Advance, HashedInv, OwnInv, CallsOwn
    <3>2. newFwd' = newFwd /\ \A r \in Rows : newRev'[r] \in {newRev[r], None}
      BY <1>0, <2>6, <3>1 DEF RebindNew, Moved, MovedRow, TypeOK
    <3> QED
      BY <1>0, <2>1, <2>2, <3>1, <3>2
  <2>7. CASE RebindOld(c)
    <3>1. arg[c].to = 0 /\ UNCHANGED <<newFwd, newRev, issued>>
      BY <2>7 DEF RebindOld, Return, Advance, HashedInv, OwnInv, CallsOwn
    <3>2. oldFwd' = oldFwd /\ \A r \in Rows : oldRev'[r] \in {oldRev[r], None}
      BY <1>0, <2>7, <3>1 DEF RebindOld, Moved, MovedRow, TypeOK
    <3> QED
      BY <1>0, <2>1, <2>2, <3>1, <3>2
  <2>8. CASE WriteBackIdentity(c)
    <3>1. a \in OpenIds /\ UNCHANGED <<oldFwd, oldRev, issued>>
      BY <2>8 DEF WriteBackIdentity, Return, Advance, HashedInv, OwnInv, CallsOwn
    <3>2. newFwd'[Counter] = newFwd[Counter] /\ newFwd'[a] # None
      BY <1>0, <2>8, <3>1 DEF WriteBackIdentity, TypeOK
    <3>3. \A r \in Rows : newRev'[r] \in {newRev[r], a}
      BY <1>0, <2>8, <3>1 DEF WriteBackIdentity, TypeOK
    <3> QED
      BY <1>0, <2>1, <2>2, <3>1, <3>2, <3>3
  <2> QED
    BY <1>4, <2>3, <2>4, <2>5, <2>6, <2>7, <2>8 DEF Write
<1> QED
  BY <1>2, <1>3, <1>4 DEF CallerNext

\* The positions of a batch are the first ones: none is left out between them, and if
\* any is left over the batch is full.
LEMMA BatchIsFirst ==
  ASSUME NEW k \in Entries, NEW q \in NextBatch, TypeOK, k < q
  PROVE  k \in NextBatch
<1> DEFINE Before(p) == {e \in Entries : e < p}
<1>1. Entries \subseteq Nat /\ IsFiniteSet(Entries)
  <2>1. LastPosition \in Nat
    BY KeyOrderAssumption, BoundsAssumption DEF LastPosition, CounterAt
  <2>2. IsFiniteSet(cursor..LastPosition)
    BY <2>1, FS_Interval DEF TypeOK
  <2> QED
    BY <2>1, <2>2, FS_Subset DEF Entries, Ahead, TypeOK
<1>2. q \in Entries /\ Cardinality(Before(q)) < BatchSize
  BY DEF NextBatch
<1>3. Before(k) \subseteq Before(q) /\ Before(q) \subseteq Entries
  <2>1. \A e \in Entries : e < k => e < q
    BY <1>1, <1>2
  <2> QED
    BY <2>1
<1>4. /\ Cardinality(Before(k)) \in Nat /\ Cardinality(Before(q)) \in Nat
      /\ Cardinality(Before(k)) <= Cardinality(Before(q))
  BY <1>1, <1>3, FS_Subset, FS_CardinalityType
<1>5. Cardinality(Before(k)) < BatchSize
  BY <1>2, <1>4, BoundsAssumption
<1> QED
  BY <1>5 DEF NextBatch

LEMMA BatchIsFull ==
  ASSUME TypeOK, NEW k \in Entries, k \notin NextBatch
  PROVE  Cardinality(NextBatch) = BatchSize /\ \A q \in NextBatch : q < k
<1> DEFINE Before(p) == {e \in Entries : e < p}
           Rest == Entries \ NextBatch
<1>1. Entries \subseteq Nat /\ IsFiniteSet(Entries)
  <2>1. LastPosition \in Nat
    BY KeyOrderAssumption, BoundsAssumption DEF LastPosition, CounterAt
  <2>2. IsFiniteSet(cursor..LastPosition)
    BY <2>1, FS_Interval DEF TypeOK
  <2> QED
    BY <2>1, <2>2, FS_Subset DEF Entries, Ahead, TypeOK
<1>2. \A p \in Entries : IsFiniteSet(Before(p)) /\ Cardinality(Before(p)) \in Nat
  BY <1>1, FS_Subset, FS_CardinalityType
<1>3. NextBatch \subseteq Entries /\ IsFiniteSet(NextBatch) /\ Cardinality(NextBatch) \in Nat
  BY <1>1, FS_Subset, FS_CardinalityType DEF NextBatch
<1>4. \A p \in Rest, q \in NextBatch : q < p
  <2> SUFFICES ASSUME NEW p \in Rest, NEW q \in NextBatch, ~(q < p) PROVE FALSE
    OBVIOUS
  <2>1. p \in Nat /\ q \in Nat /\ p # q
    BY <1>1, <1>3
  <2> QED
    BY <2>1, BatchIsFirst
<1>5. PICK least \in Rest : \A p \in Rest : least <= p
  BY <1>1, LeastExists
<1>6. Before(least) = NextBatch
  <2>1. ASSUME NEW e \in Entries, e < least PROVE e \in NextBatch
    <3>1. e \in Nat /\ least \in Nat
      BY <1>1, <1>5
    <3>2. ~(least <= e)
      BY <2>1, <3>1
    <3> QED
      BY <1>5, <3>2
  <2>2. ASSUME NEW e \in NextBatch PROVE e \in Entries /\ e < least
    BY <1>3, <1>4, <1>5
  <2> QED
    BY <2>1, <2>2
<1>7. Cardinality(NextBatch) >= BatchSize
  <2>1. ~(Cardinality(Before(least)) < BatchSize)
    BY <1>5 DEF NextBatch
  <2> QED
    BY <1>3, <1>6, <2>1, BoundsAssumption
<1>8. Cardinality(NextBatch) <= BatchSize
  <2>1. NextBatch # {}
    BY <1>3, <1>7, FS_EmptySet, BoundsAssumption
  <2>2. PICK m \in NextBatch : \A q \in NextBatch : q <= m
    <3>1. LastPosition \in Nat /\ \A q \in NextBatch : q <= LastPosition
      BY KeyOrderAssumption, BoundsAssumption DEF LastPosition, CounterAt, NextBatch, Entries,
         Ahead, TypeOK
    <3> QED
      BY <1>1, <1>3, <2>1, <3>1, GreatestExists
  <2>3. Before(m) = NextBatch \ {m}
    <3>1. ASSUME NEW e \in Entries, e < m PROVE e \in NextBatch \ {m}
      BY <1>1, <3>1, BatchIsFirst
    <3>2. ASSUME NEW e \in NextBatch, e # m PROVE e < m /\ e \in Entries
      BY <1>1, <1>3, <2>2, <3>2
    <3> QED
      BY <3>1, <3>2
  <2>4. Cardinality(Before(m)) = Cardinality(NextBatch) - 1
    BY <1>3, <2>3, FS_RemoveElement
  <2>5. Cardinality(Before(m)) < BatchSize
    BY <2>2 DEF NextBatch
  <2> QED
    BY <1>3, <2>4, <2>5, BoundsAssumption
<1> QED
  BY <1>3, <1>4, <1>7, <1>8, BoundsAssumption

\* The key of an OpenID and the entries it has ahead of the cursor.
LEMMA KeyAhead ==
  ASSUME TypeOK, NEW k \in 1..Len(KeyOrder), oldFwd[KeyOrder[k]] # None, ~(k < cursor)
  PROVE  k \in Entries /\ k < CounterAt /\ KeyAt(k) = KeyOrder[k] /\ KeyOrder[k] \in OpenIds
BY KeyOrderAssumption, BoundsAssumption
   DEF Entries, Ahead, PresentAt, KeyAt, CounterAt, LastPosition, TypeOK

\* A batch with a row has the entry that goes with it, unless an earlier batch had it ...
LEMMA ReadBatchBehind ==
  ASSUME TypeOK, HashedInv, ReadBatch PROVE BatchBehind'
<1> SUFFICES ASSUME NEW r \in Rows, batchRev'[r] # None
             PROVE  newFwd'[batchRev'[r]] # None \/ batchFwd'[batchRev'[r]] # None
  BY DEF BatchBehind
<1> USE ConstantTypes
<1> DEFINE a == oldRev[r]
<1>1. PICK q \in NextBatch : q > CounterAt /\ batchRev'[r] = a
  BY DEF ReadBatch
<1>2. a \in OpenIds /\ oldFwd[a] # None
  BY <1>1 DEF HashedInv, OwnInv, RowsOf, Behind, TypeOK
<1>3. PICK k \in 1..Len(KeyOrder) : KeyOrder[k] = a
  BY <1>2, KeyOrderAssumption
<1>4. newFwd' = newFwd /\ mig = "read"
  BY DEF ReadBatch, Migrate, newDB
<1>5. CASE k < cursor
  BY <1>1, <1>2, <1>3, <1>4, <1>5 DEF HashedInv, Copied, Passed
<1>6. CASE ~(k < cursor)
  <2>1. k \in Entries /\ k < CounterAt /\ KeyAt(k) = a
    BY <1>2, <1>3, <1>6, KeyAhead
  <2>2. q \in Nat /\ k < q
    BY <1>1, <2>1, KeyOrderAssumption DEF NextBatch, Entries, Ahead, CounterAt, TypeOK
  <2>3. k \in NextBatch
    BY <1>1, <2>1, <2>2, BatchIsFirst
  <2>4. batchFwd'[a] = oldFwd[a]
    BY <1>2, <2>1, <2>3 DEF ReadBatch
  <2> QED
    BY <1>1, <1>2, <2>4
<1> QED
  BY <1>5, <1>6

\* ... and the cursor passes no key that the batch does not have.
LEMMA ReadBatchCopied ==
  ASSUME TypeOK, HashedInv, ReadBatch PROVE Copied'
<1> USE ConstantTypes
<1>1. mig = "read" /\ mig' = "write" /\ UNCHANGED <<newFwd, oldFwd>>
  BY DEF ReadBatch, Migrate, newDB, oldDB
<1> SUFFICES ASSUME NEW k \in 1..Len(KeyOrder), k < cursor', oldFwd[KeyOrder[k]] # None
             PROVE  newFwd[KeyOrder[k]] # None \/ batchFwd'[KeyOrder[k]] # None
  BY <1>1 DEF Copied, Passed
<1>2. CASE k < cursor
  BY <1>1, <1>2 DEF HashedInv, Copied, Passed
<1>3. CASE ~(k < cursor)
  <2>1. k \in Entries /\ k < CounterAt /\ KeyAt(k) = KeyOrder[k] /\ KeyOrder[k] \in OpenIds
    BY <1>3, KeyAhead
  <2>2. k \in NextBatch
    <3> SUFFICES ASSUME k \notin NextBatch PROVE FALSE
      OBVIOUS
    <3>1. k \in Left
      BY <2>1, BatchIsFull DEF Left, Entries
    <3>2. Left \subseteq Nat
      BY DEF Left, Ahead, TypeOK
    <3>3. First(Left) <= k /\ First(Left) \in Nat
      BY <3>1, <3>2, FirstIsLeast
    <3>4. cursor' = First(Left)
      BY <3>1 DEF ReadBatch
    <3> QED
      BY <3>3, <3>4
  <2>3. batchFwd'[KeyOrder[k]] = oldFwd[KeyOrder[k]]
    BY <2>1, <2>2 DEF ReadBatch
  <2> QED
    BY <2>3
<1> QED
  BY <1>2, <1>3

\* The rest of the migration.
LEMMA HashedMigration ==
  ASSUME HashedIds, NoBinds, TypeOK, ArgInv, HashedInv,
         MigrationNext \/ Start \/ Crash \/ DeleteOldDB
  PROVE  /\ Uncounted' /\ Behind(newFwd, newRev)' /\ Behind(oldFwd, oldRev)'
         /\ BatchBehind' /\ Copied' /\ NewFirst' /\ issued' = issued
<1> USE ConstantTypes, OpenIdsAssumption DEF newDB, oldDB, worker, calls
<1>0. /\ newFwd[Counter] = None /\ oldFwd[Counter] = None /\ batchFwd[Counter] = None
      /\ Behind(newFwd, newRev) /\ Behind(oldFwd, oldRev) /\ BatchBehind /\ Copied /\ NewFirst
  BY DEF HashedInv, Uncounted
<1>1. CASE CheckMarker
  <2>1. /\ UNCHANGED <<newFwd, newRev, oldFwd, oldRev, batchFwd, batchRev, calls, issued>>
        /\ mig' \in {"done", "sync"} /\ cursor' = 1
    BY <1>1 DEF CheckMarker, Migrate
  <2> QED
    BY <1>0, <2>1 DEF Uncounted, Behind, BatchBehind, Copied, NewFirst
<1>2. CASE SyncCounter
  <2>1. UNCHANGED <<newRev, oldFwd, oldRev, batchFwd, batchRev, calls, issued, cursor>>
        /\ mig = "sync" /\ mig' = "read"
    BY <1>2 DEF SyncCounter, Migrate
  <2>2. \A n \in Names : newFwd'[n] = newFwd[n]
    BY <1>0, <1>2 DEF SyncCounter, CounterCopied
  <2>3. Behind(newFwd, newRev)' /\ NewFirst'
    BY <1>0, <2>1, <2>2 DEF Behind, NewFirst, TypeOK, ArgInv
  <2>4. Copied'
    BY <1>0, <2>1 DEF Copied
  <2> QED
    BY <1>0, <2>1, <2>2, <2>3, <2>4 DEF Uncounted, Behind, BatchBehind
<1>3. CASE ReadBatch
  <2>1. UNCHANGED <<newFwd, newRev, oldFwd, oldRev, calls, issued>>
    BY <1>3 DEF ReadBatch, Migrate
  <2>2. batchFwd'[Counter] = None
    BY <1>0, <1>3 DEF ReadBatch
  <2> QED
    BY <1>0, <1>3, <2>1, <2>2, ReadBatchBehind, ReadBatchCopied
       DEF Uncounted, Behind, NewFirst
<1>4. CASE WriteBatch
  <2>1. UNCHANGED <<oldFwd, oldRev, calls, issued, cursor>> /\ mig = "write"
        /\ mig' \in {"verify", "read"}
    BY <1>4 DEF WriteBatch, Migrate
  <2>2. \A n \in Names : newFwd'[n] = Else(newFwd[n], batchFwd[n])
    BY <1>4 DEF WriteBatch
  <2>3. \A n \in Names : newFwd'[n] # None <=> newFwd[n] # None \/ batchFwd[n] # None
    BY <2>2 DEF Else
  <2>4. \A r \in Rows : newRev'[r] = newRev[r] \/ newRev'[r] = batchRev[r]
    BY <1>4 DEF WriteBatch, Else
  <2>5. Behind(newFwd, newRev)'
    BY <1>0, <2>1, <2>3, <2>4 DEF Behind, BatchBehind, TypeOK
  <2>6. NewFirst'
    BY <1>0, <2>1, <2>3 DEF NewFirst, ArgInv
  <2>7. Copied'
    BY <1>0, <2>1, <2>3, KeyOrderAssumption, SMTT(30) DEF Copied, Passed
  <2>8. batchFwd'[Counter] = None
    BY <1>4 DEF WriteBatch, NoFwd
  <2>9. newFwd'[Counter] = None
    BY <1>0, <2>3
  <2> QED
    BY <1>0, <2>1, <2>5, <2>6, <2>7, <2>8, <2>9 DEF Uncounted, Behind, BatchBehind
<1>5. CASE Verify \/ VerifyAgain \/ CompareFirst \/ CompareAgain
  <2>1. /\ UNCHANGED <<newFwd, newRev, oldFwd, oldRev, calls, issued>>
        /\ mig' \in {"compare", "recompare", "mark", "repair", "stuck"}
    BY <1>5 DEF Verify, VerifyAgain, OpenSnapshot, CompareFirst, CompareAgain, Compare, Migrate
  <2>2. batchFwd'[Counter] = None
    BY <1>0, <1>5 DEF Verify, VerifyAgain, OpenSnapshot, CompareFirst, CompareAgain, Compare, NoFwd
  <2> QED
    BY <1>0, <2>1, <2>2 DEF Uncounted, Behind, BatchBehind, Copied, NewFirst
<1>6. CASE Repair
  <2>1. UNCHANGED <<oldFwd, oldRev, batchFwd, batchRev, calls, issued>> /\ mig' = "reverify"
    BY <1>6 DEF Repair, Migrate
  <2>2. /\ \A n \in OpenIds : newFwd'[n] = IF oldFwd[n] # None THEN oldFwd[n] ELSE newFwd[n]
        /\ newFwd'[Counter] = newFwd[Counter]
        /\ \A r \in Rows : newRev'[r] = IF oldRev[r] # None THEN oldRev[r] ELSE newRev[r]
    BY <1>6 DEF Repair
  <2>3. \A r \in Rows : /\ newRev[r] # None => newRev[r] \in OpenIds
                        /\ oldRev[r] # None => oldRev[r] \in OpenIds
    BY DEF HashedInv, OwnInv, RowsOf
  <2>4. Behind(newFwd, newRev)'
    BY <1>0, <2>2, <2>3 DEF Behind
  <2>5. NewFirst'
    BY <1>0, <2>1, <2>2 DEF NewFirst, ArgInv
  <2> QED
    BY <1>0, <2>1, <2>2, <2>4, <2>5 DEF Uncounted, Behind, BatchBehind, Copied
<1>7. CASE MarkComplete
  <2>1. /\ UNCHANGED <<newFwd, newRev, oldFwd, oldRev, batchFwd, batchRev, calls, issued>>
        /\ mig' = "done"
    BY <1>7 DEF MarkComplete, Migrate
  <2> QED
    BY <1>0, <2>1 DEF Uncounted, Behind, BatchBehind, Copied, NewFirst
<1>8. CASE Start
  <2>1. UNCHANGED <<newRev, oldFwd, oldRev, batchFwd, batchRev, calls, issued>>
        /\ mig' \in {"check", "off"}
    BY <1>8 DEF Start
  <2>2. \A n \in Names : newFwd'[n] = newFwd[n]
    BY <1>0, <1>8 DEF Start, CounterCopied
  <2>3. Behind(newFwd, newRev)' /\ NewFirst'
    BY <1>0, <2>1, <2>2 DEF Behind, NewFirst, TypeOK, ArgInv
  <2> QED
    BY <1>0, <2>1, <2>2, <2>3 DEF Uncounted, Behind, BatchBehind, Copied
<1>9. CASE Crash
  <2>1. /\ UNCHANGED <<newFwd, newRev, oldFwd, oldRev, issued>> /\ mig' = "off"
        /\ batchFwd' = NoFwd /\ pc' = [c \in Callers |-> "idle"]
    BY <1>9 DEF Crash
  <2> QED
    BY <1>0, <2>1 DEF Uncounted, Behind, BatchBehind, Copied, NewFirst, NoFwd
<1>10. CASE DeleteOldDB
  <2>1. /\ UNCHANGED <<newFwd, newRev, batchFwd, batchRev, mig, cursor, calls, issued>>
        /\ oldFwd' = NoFwd /\ oldRev' = NoRev
    BY <1>10 DEF DeleteOldDB
  <2>2. Copied'
    BY <1>0, <2>1, KeyOrderAssumption DEF Copied, Passed, NoFwd
  <2>3. Behind(oldFwd, oldRev)' /\ oldFwd'[Counter] = None
    BY <2>1 DEF Behind, NoRev, NoFwd
  <2> QED
    BY <1>0, <2>1, <2>2, <2>3 DEF Uncounted, Behind, BatchBehind, NewFirst
<1> QED
  BY <1>1, <1>2, <1>3, <1>4, <1>5, <1>6, <1>7, <1>8, <1>9, <1>10 DEF MigrationNext

LEMMA HashedStep ==
  ASSUME HashedIds, NoBinds, TypeOK, ArgInv, HashedInv, [Next]_vars PROVE HashedInv'
<1> USE ConstantTypes
<1>1. OwnInv(Hashed)'
  <2>1. \A c \in Callers : StoreIdentity(c) =>
          newFwd'[arg[c].id] \in Hashed[arg[c].id] \cup {None}
    BY HashedStore DEF Hashed
  <2>2. PICK own : own = Hashed
    OBVIOUS
  <2>3. OwnInv(own)'
    BY <2>1, <2>2, OwnStep DEF HashedInv
  <2> QED
    BY <2>2, <2>3 DEF Hashed
<1>2. CASE UNCHANGED vars
  BY <1>1, <1>2 DEF vars, newDB, oldDB, worker, calls, HashedInv, Uncounted, Behind, BatchBehind,
                    Copied, Passed, NewFirst
<1>3. CASE MigrationNext \/ Start \/ Crash \/ DeleteOldDB
  BY <1>1, <1>3, HashedMigration DEF HashedInv
<1>4. ASSUME NEW c \in Callers, CallerNext(c) PROVE HashedInv'
  <2>1. /\ UNCHANGED worker
        /\ newFwd'[Counter] = newFwd[Counter] /\ oldFwd'[Counter] = oldFwd[Counter]
        /\ \A r \in Rows : newRev'[r] \in {newRev[r], None} \/ newFwd'[newRev'[r]] # None
        /\ \A r \in Rows : oldRev'[r] \in {oldRev[r], None} \/ oldFwd'[oldRev'[r]] # None
        /\ \A a \in OpenIds : /\ oldFwd[a] # None => oldFwd'[a] # None
                              /\ oldFwd'[a] # None => oldFwd[a] # None \/ newFwd[a] # None
        /\ \A a \in OpenIds : issued'[a] \subseteq {H(a)}
        /\ NewFirst'
    BY <1>4, HashedCaller
  <2>2. \A a \in OpenIds : newFwd[a] # None => newFwd'[a] # None
    BY EntryStays
  <2>3. \A r \in Rows : /\ newRev[r] # None => newRev[r] \in OpenIds /\ newFwd[newRev[r]] # None
                        /\ oldRev[r] # None => oldRev[r] \in OpenIds /\ oldFwd[oldRev[r]] # None
                        /\ batchRev[r] # None => batchRev[r] \in OpenIds
    BY DEF HashedInv, OwnInv, RowsOf, Behind
  <2>4. Behind(newFwd, newRev)'
    BY <2>1, <2>2, <2>3 DEF Behind
  <2>5. Behind(oldFwd, oldRev)'
    BY <2>1, <2>3 DEF Behind
  <2>6. Uncounted' /\ BatchBehind'
    BY <2>1, <2>2, <2>3 DEF Uncounted, BatchBehind, HashedInv, worker
  <2>7. Copied'
    <3>1. UNCHANGED <<mig, cursor, batchFwd>>
      BY <2>1 DEF worker
    <3>2. ASSUME NEW k \in 1..Len(KeyOrder), mig \in {"read", "write"}, k < cursor,
                 oldFwd'[KeyOrder[k]] # None
          PROVE  Passed(k)'
      <4>1. KeyOrder[k] \in OpenIds
        BY KeyOrderAssumption
      <4>2. newFwd[KeyOrder[k]] # None \/ (mig = "write" /\ batchFwd[KeyOrder[k]] # None)
        BY <2>1, <3>2, <4>1 DEF HashedInv, Copied, Passed
      <4> QED
        BY <2>2, <3>1, <4>1, <4>2 DEF Passed
    <3> QED
      BY <3>1, <3>2 DEF Copied, HashedInv
  <2> QED
    BY <1>1, <2>1, <2>4, <2>5, <2>6, <2>7 DEF HashedInv
<1> QED
  BY <1>2, <1>3, <1>4 DEF Next

LEMMA HashedInvariance == ASSUME HashedIds, NoBinds PROVE Spec => []HashedInv
<1>1. Init => HashedInv
  BY HashedInit
<1>2. IInv /\ HashedInv /\ [Next]_vars => HashedInv'
  BY HashedStep DEF IInv
<1> QED
  BY Invariance, <1>1, <1>2, PTL DEF Spec

\* Where rows come from the OpenID and no nine-digit rows collide, the migration changes
\* nobody's virtual id, whatever registers, looks up or unbinds beside it ...
THEOREM HashedIdsKeep == ASSUME HashedIds, NoBinds PROVE Spec => []OneVirtualId
<1>1. HashedInv => OneVirtualId
  <2> SUFFICES ASSUME HashedInv, NEW a \in OpenIds PROVE Cardinality(issued[a]) <= 1
    BY DEF OneVirtualId
  <2>1. issued[a] \subseteq {H(a)}
    BY DEF HashedInv
  <2>2. IsFiniteSet({H(a)}) /\ Cardinality({H(a)}) = 1
    BY FS_Singleton
  <2> QED
    BY <2>1, <2>2, FS_Subset
<1> QED
  BY HashedInvariance, <1>1, PTL

\* ... no two OpenIDs get one ...
THEOREM HashedIdsDistinct == ASSUME HashedIds, NoBinds PROVE Spec => []DistinctIds
<1>1. HashedInv => DistinctIds
  BY DEF HashedInv, DistinctIds, Known, OwnInv, RowsOf, Hashed, HashedIds
<1> QED
  BY HashedInvariance, <1>1, PTL

\* ... nobody is found under a virtual id without having it: a reverse row is never
\* copied ahead of the entry that it belongs to ...
THEOREM HashedIdsConsistent == ASSUME HashedIds, NoBinds PROVE Spec => []ReverseConsistent
<1>1. HashedInv => ReverseConsistent
  BY DEF HashedInv, ReverseConsistent, OwnInv, RowsOf, Hashed, Behind
<1> QED
  BY HashedInvariance, <1>1, PTL

\* ... and the virtual id leads back to the OpenID, by the reverse row or by the scan.
THEOREM HashedIdsRoundTrip == ASSUME HashedIds, NoBinds PROVE Spec => []RoundTrip
<1>1. IInv /\ HashedInv => RoundTrip
  <2> SUFFICES ASSUME TypeOK, HashedInv, NEW a \in OpenIds, Known(a)
               PROVE  RetrieveRowByIDv2(newFwd[a]) = a
    BY DEF RoundTrip, IInv
  <2> USE ConstantTypes
  <2>1. newFwd[a] = H(a) /\ H(a) \in Rows \ {0} /\ a # None
    BY HashTypes, OpenIdsAssumption DEF Known, HashedInv, OwnInv, RowsOf, Hashed
  <2>2. \A n \in Names : newFwd[n] = H(a) => n = a
    BY <2>1 DEF HashedInv, Uncounted, OwnInv, RowsOf, Hashed, HashedIds, Names
  <2>3. newRev[H(a)] \in {None, a}
    BY <2>1 DEF HashedInv, OwnInv, RowsOf, Hashed, HashedIds
  <2>4. ScanForward(H(a)) = a
    <3>1. PICK p \in 1..Len(KeyOrder) : KeyOrder[p] = a
      BY KeyOrderAssumption
    <3>2. p \in Holders(H(a))
      BY <2>1, <3>1, KeyOrderAssumption, SMTT(30) DEF Holders, KeyAt
    <3>3. First(Holders(H(a))) \in Holders(H(a))
      <4>1. Holders(H(a)) \subseteq Nat
        BY KeyOrderAssumption DEF Holders
      <4> QED
        BY <3>2, <4>1, LeastNatural
    <3>4. ScanForward(H(a)) \in Names /\ newFwd[ScanForward(H(a))] = H(a)
      <4>1. \A q \in 1..Len(KeyOrder) + 1 : KeyAt(q) \in Names
        BY KeyOrderAssumption DEF KeyAt, Names
      <4> QED
        BY <3>2, <3>3, <4>1 DEF Holders, ScanForward
    <3> QED
      BY <2>2, <3>4
  <2> QED
    BY <2>1, <2>3, <2>4 DEF RetrieveRowByIDv2, Else
<1> QED
  BY Invariance, HashedInvariance, <1>1, PTL
=============================================================================
