---------------------------- MODULE GroupReceive ----------------------------
(***************************************************************************)
(* Does QQ deliver every message of a group, or only those that mention    *)
(* the bot?  src/idmap/qq_group_receive_state.go infers it: a mention      *)
(* (GROUP_AT_MESSAGE_CREATE) switches the flag off, a full window of       *)
(* normal messages (GROUP_MESSAGE_CREATE) switches it on.  The window is   *)
(* in memory, the flag is also kept in the config bucket: the tracker is   *)
(* composed with the store of that entry, legacy database and migration    *)
(* included.                                                               *)
(*                                                                         *)
(* One group: groups share nothing but the database.  The tracker's mutex  *)
(* is held for a whole call, so concurrent events are a sequence of calls  *)
(* in any order, whose transactions interleave with the migration's.  A    *)
(* call with an empty id, or whose read of the flag fails, returns without *)
(* effect.                                                                 *)
(***************************************************************************)
EXTENDS ConfigStore, Sequences, FiniteSets

CONSTANTS
  Messages,     \* message ids
  Kinds,        \* the events each arrives as: TRUE is a normal one, FALSE a mention
  Window,       \* qqGroupReceiveWindowSize (10 in the code)
  MaxEvents,    \* bound: events between two restarts
  MaxCrashes,   \* bound: restarts
  MaxDeletes    \* bound: deletions of the flag by an API call

ASSUME KindsAssumption  == Kinds \in [Messages -> SUBSET BOOLEAN]
ASSUME BoundsAssumption == Window \in Nat \ {0} /\ MaxEvents \in Nat /\ MaxCrashes \in Nat
                           /\ MaxDeletes \in Nat
ASSUME ValuesAssumption == Values = BOOLEAN

VARIABLES
  loaded,       \* the tracker has read the flag
  recent,       \* the window: the last messages, the latest at the end
  permitted, persistedPermitted,
  phase, event, \* the call in progress: where it is, its message
  seen,         \* history: the events since the tracker was loaded
  crashes, deletes

tracker == <<loaded, recent, permitted, persistedPermitted>>
call    == <<phase, event>>
vars    == <<storeVars, tracker, call, seen, crashes, deletes>>

Entry(m, normal) == [id |-> m, normal |-> normal]

Init == /\ StoreInit
        /\ loaded = FALSE /\ recent = <<>>
        /\ permitted = FALSE /\ persistedPermitted = FALSE
        /\ phase = "idle" /\ event = None
        /\ seen = <<>>
        /\ crashes = 0 /\ deletes = 0

-----------------------------------------------------------------------------
\* advanceQQGroupReceiveState

\* Definitions whose names begin with M are mutants: a plausible bug each, which
\* the runs are shown to notice.  This one never shortens the window.
MLastOf(s, n) == s

LastOf(s, n) == IF Len(s) <= n THEN s ELSE SubSeq(s, Len(s) - n + 1, Len(s))

\* Mutant: a message that comes again keeps its place and its event.
MAdvance(s, m, normal) ==
  IF \E k \in 1..Len(s) : s[k].id = m THEN s ELSE LastOf(Append(s, Entry(m, normal)), Window)

\* The loop that leaves the message out.  The ids of a window are distinct
\* (WindowIsRecent), so that one entry goes or none.
Others(s, m) ==
  IF \A k \in 1..Len(s) : s[k].id # m THEN s
  ELSE LET pos == CHOOSE k \in 1..Len(s) : s[k].id = m
       IN [k \in 1..Len(s) - 1 |-> IF k < pos THEN s[k] ELSE s[k + 1]]

Advance(s, m, normal) == LastOf(Append(Others(s, m), Entry(m, normal)), Window)

FullOfNormal(s) == Len(s) = Window /\ \A k \in 1..Len(s) : s[k].normal

\* Mutant: a mention does not switch the flag off by itself.
MPermit(before, s, normal) == before \/ FullOfNormal(s)

Permit(before, s, normal) == normal /\ (before \/ FullOfNormal(s))

\* RecordQQGroupMessageReception: the first call reads the flag ...
Receive(m, normal) ==
  /\ phase = "idle" /\ Len(seen) < MaxEvents
  /\ phase' = IF loaded THEN "advance" ELSE "read"
  /\ event' = Entry(m, normal)
  /\ UNCHANGED <<storeVars, tracker, seen, crashes, deletes>>

Restore(value) == /\ phase' = "advance"
                  /\ loaded' = TRUE
                  /\ permitted' = (value = TRUE)
                  /\ persistedPermitted' = (value = TRUE)
                  /\ UNCHANGED recent

\* ... in identityDB, and then, if the migration is not complete by now, ...
ReadNew ==
  /\ phase = "read"
  /\ IF newConfig # None THEN Restore(newConfig) ELSE phase' = "look" /\ UNCHANGED tracker
  /\ UNCHANGED <<storeVars, event, seen, crashes, deletes>>

\* If it was completed since the first read, nothing is found although it is there.
Look == /\ phase = "look"
        /\ IF complete THEN Restore(None) ELSE phase' = "readOld" /\ UNCHANGED tracker
        /\ moved' = (moved \/ (complete /\ newConfig # None))
        /\ UNCHANGED <<store, migration, torn, deleted, missed>>
        /\ UNCHANGED <<event, seen, crashes, deletes>>

ReadOld == /\ phase = "readOld"
           /\ Restore(Legacy)
           /\ UNCHANGED <<storeVars, event, seen, crashes, deletes>>

\* ... every call takes its message in, and writes a flag that changed.
Record == /\ phase = "advance"
          /\ recent' = Advance(recent, event.id, event.normal)
          /\ permitted' = Permit(permitted, recent', event.normal)
          /\ phase' = IF permitted' = persistedPermitted THEN "idle" ELSE "write"
          /\ seen' = Append(seen, event)
          /\ event' = None
          /\ UNCHANGED <<storeVars, loaded, persistedPermitted, crashes, deletes>>

WriteSucceeds == /\ phase = "write" /\ phase' = "relook"
                 /\ WriteNew(permitted)
                 /\ UNCHANGED <<tracker, event, seen, crashes, deletes>>

\* Mutant: the failed write counts as done.
MWriteFails == /\ phase = "write" /\ phase' = "idle"
               /\ persistedPermitted' = permitted
               /\ UNCHANGED <<storeVars, loaded, recent, permitted, event, seen, crashes,
                              deletes>>

\* The next event tries again.
WriteFails == /\ phase = "write" /\ phase' = "idle"
              /\ UNCHANGED <<storeVars, tracker, event, seen, crashes, deletes>>

\* With the migration complete the call is over, otherwise the legacy database follows.
Written == /\ phase = "relook"
           /\ IF complete THEN phase' = "idle" /\ persistedPermitted' = permitted
              ELSE phase' = "writeOld" /\ UNCHANGED persistedPermitted
           /\ UNCHANGED <<storeVars, loaded, recent, permitted, event, seen, crashes, deletes>>

WriteReturns == /\ phase = "writeOld" /\ phase' = "idle"
                /\ WriteOld(permitted)
                /\ persistedPermitted' = permitted
                /\ UNCHANGED <<loaded, recent, permitted, event, seen, crashes, deletes>>

Migrate == MigrationNext /\ UNCHANGED <<tracker, call, seen, crashes, deletes>>

\* The HTTP API deletes any entry it is asked to (getIDHandler).
Delete == /\ deletes < MaxDeletes
          /\ deletes' = deletes + 1
          /\ DeleteConfig
          /\ UNCHANGED <<tracker, call, seen, crashes>>

\* A restart: only the databases survive.
Crash == /\ crashes < MaxCrashes
         /\ crashes' = crashes + 1
         /\ StoreRestart
         /\ loaded' = FALSE /\ recent' = <<>>
         /\ permitted' = FALSE /\ persistedPermitted' = FALSE
         /\ phase' = "idle" /\ event' = None
         /\ seen' = <<>>
         /\ UNCHANGED deletes

Next == \/ \E m \in Messages : \E normal \in Kinds[m] : Receive(m, normal)
        \/ ReadNew \/ Look \/ ReadOld \/ Record
        \/ WriteSucceeds \/ WriteFails \/ Written \/ WriteReturns
        \/ Migrate
        \/ Delete
        \/ Crash

Spec == Init /\ [][Next]_vars

-----------------------------------------------------------------------------
TypeOK == /\ StoreTypeOK
          /\ loaded \in BOOLEAN
          /\ recent \in Seq([id : Messages, normal : BOOLEAN]) /\ Len(recent) <= Window
          /\ permitted \in BOOLEAN /\ persistedPermitted \in BOOLEAN
          /\ phase \in {"idle", "read", "look", "readOld", "advance",
                       "write", "relook", "writeOld"}
          /\ event \in [id : Messages, normal : BOOLEAN] \cup {None}
          /\ seen \in Seq([id : Messages, normal : BOOLEAN])
          /\ crashes \in 0..MaxCrashes /\ deletes \in 0..MaxDeletes

\* The last position of a message in the history.
Ids     == {seen[k].id : k \in 1..Len(seen)}
Last(m) == CHOOSE k \in 1..Len(seen) :
             seen[k].id = m /\ \A l \in k + 1..Len(seen) : seen[l].id # m

\* The window is what its name says: the last Window different messages, in the
\* order in which they came last, each as what it came last.
WindowIsRecent ==
  /\ Len(recent) = (IF Cardinality(Ids) < Window THEN Cardinality(Ids) ELSE Window)
  /\ \A k \in 1..Len(recent) : /\ recent[k].id \in Ids
                               /\ recent[k] = seen[Last(recent[k].id)]
  /\ \A k \in 1..Len(recent) - 1 : Last(recent[k].id) < Last(recent[k + 1].id)
  /\ \A m \in Ids : m \in {recent[k].id : k \in 1..Len(recent)}
                      \/ \A k \in 1..Len(recent) : Last(m) < Last(recent[k].id)

\* What the tracker believes of the disk is true, whatever writes failed and
\* wherever the migration is, unless someone else moved the flag: it decides which
\* transitions are written at all.
BeliefMatchesDisk ==
  loaded /\ phase \notin {"relook", "writeOld"} /\ ~moved =>
    persistedPermitted = ((IF newConfig # None THEN newConfig ELSE Legacy) = TRUE)

\* After a mention the flag needs as many different messages as the window holds,
\* all of them normal and later than the mention (the comment at lines 157-159).
Mentions == {k \in 1..Len(seen) : ~seen[k].normal}
After(p) == {seen[k].id : k \in p + 1..Len(seen)}

WindowAfterMention ==
  permitted => \A p \in Mentions : Cardinality(After(p)) >= Window
=============================================================================
