----------------------------- MODULE MessageIds -----------------------------
(***************************************************************************)
(* The numbers that OneBot applications know QQ's message ids by.  With    *)
(* memory_msgid two maps hold them (src/echo/echo.go), filled step by step *)
(* and emptied one after the other by two cleaners; else a bucket of the   *)
(* message database does (src/idmap/new_service.go), whose transactions    *)
(* are atomic and whose sweep goes by the age of an entry.                 *)
(*                                                                         *)
(* Every event is stored by a goroutine of its own, and a message may come *)
(* as two events.  A handler whose store fails ends the process.           *)
(*                                                                         *)
(* Abstractions: a map is emptied in one step; the answers of QQ, whose    *)
(* ids are stored too, are taken for events; time runs in minutes.  Not    *)
(* here: the copy for the legacy database, which is not read, and the      *)
(* latest message of a user.                                               *)
(***************************************************************************)
EXTENDS Integers

CONSTANTS
  Messages,     \* QQ's message ids
  Callers,      \* event handlers
  Cleaners,     \* of the memory maps: cleanupGlobalMaps and StartCleanupRoutine
  Attempts,     \* of StoreCacheInMemory, 9 to 18 digits (10 in the code)
  Row,          \* GenerateRowID, of a message and an attempt
  MaxRow,       \* bound: rows
  Keep,         \* minutes an entry of the database is kept (6, a constant of the code)
  MaxTime,      \* bound: minutes
  MaxRestarts,  \* bound: restarts
  None

Rows == 1..MaxRow

ASSUME BoundsAssumption ==
  MaxRow \in Nat /\ Attempts \in Nat \ {0} /\ Keep \in Nat /\ MaxTime \in Nat
  /\ MaxRestarts \in Nat
\* Not so in the code, where 9 digits of a hash are all there is between two
\* messages of the same few minutes.
ASSUME RowAssumption ==
  /\ Row \in [Messages \X (1..Attempts) -> Rows]
  /\ \A m, n \in Messages : \A d, e \in 1..Attempts : Row[m, d] = Row[n, e] => m = n
ASSUME NoneAssumption == None \notin Messages /\ None \notin Nat

VARIABLES
  memory,        \* config memory_msgid
  fwd, rev,      \* the row of a message, the message of a row
  ts,            \* in the database: when a row was made
  counter,       \* in the database: the last row
  pc, arg, digits, \* of each handler
  cleaner,       \* of each cleaner: "wait", "half" when fwd is empty and rev is not yet
  up,            \* the process runs
  now, restarts,
  given,         \* history: the rows that applications got, with their messages
  made,          \* history: when a row was made
  torn,          \* history: messages stored while a cleaner was at work
  doubled, fatal \* history: messages handled twice at a time, that ended the process

store    == <<fwd, rev, ts, counter>>
handlers == <<pc, arg, digits>>
vars     == <<memory, store, handlers, cleaner, up, now, restarts, given, made, torn,
              doubled, fatal>>

Init ==
  /\ memory \in BOOLEAN
  /\ fwd = [m \in Messages |-> None] /\ rev = [r \in Rows |-> None]
  /\ ts = [r \in Rows |-> None] /\ counter = 0
  /\ pc = [c \in Callers |-> "idle"] /\ arg = [c \in Callers |-> None]
  /\ digits = [c \in Callers |-> 1]
  /\ cleaner = [x \in Cleaners |-> "wait"]
  /\ up = TRUE
  /\ now = 0 /\ restarts = 0
  /\ given = {} /\ made = [r \in Rows |-> None]
  /\ torn = {} /\ doubled = {} /\ fatal = {}

-----------------------------------------------------------------------------
\* StoreCacheInMemory: Load, LoadOrStore with more digits each time, and the store of
\* the reverse entry are three steps.

Busy(c, m) == pc[c] # "idle" /\ arg[c] = m

Give(m, row) == given' = given \cup {<<m, row>>}

Return(c) == pc' = [pc EXCEPT ![c] = "idle"] /\ arg' = [arg EXCEPT ![c] = None]
             /\ digits' = [digits EXCEPT ![c] = 1]

\* Definitions whose names begin with M are mutants: a plausible bug each, which
\* the runs are shown to notice.  This one does not look first.
MLoad(c, m) ==
  /\ memory /\ up /\ pc[c] = "idle"
  /\ doubled' = IF \E d \in Callers : Busy(d, m) THEN doubled \cup {m} ELSE doubled
  /\ pc' = [pc EXCEPT ![c] = "store"] /\ arg' = [arg EXCEPT ![c] = m]
  /\ UNCHANGED <<digits, given>>
  /\ UNCHANGED <<memory, store, cleaner, up, now, restarts, made, torn, fatal>>

Load(c, m) ==
  /\ memory /\ up /\ pc[c] = "idle"
  /\ doubled' = IF \E d \in Callers : Busy(d, m) THEN doubled \cup {m} ELSE doubled
  /\ IF fwd[m] # None
     THEN Give(m, fwd[m]) /\ UNCHANGED handlers
     ELSE /\ pc' = [pc EXCEPT ![c] = "store"] /\ arg' = [arg EXCEPT ![c] = m]
          /\ UNCHANGED <<digits, given>>
  /\ UNCHANGED <<memory, store, cleaner, up, now, restarts, made, torn, fatal>>

LoadOrStore(c) ==
  /\ up /\ pc[c] = "store" /\ fwd[arg[c]] = None
  /\ fwd' = [fwd EXCEPT ![arg[c]] = Row[arg[c], digits[c]]]
  /\ pc' = [pc EXCEPT ![c] = "reverse"]
  /\ torn' = IF \E x \in Cleaners : cleaner[x] = "half" THEN torn \cup {arg[c]} ELSE torn
  /\ UNCHANGED <<memory, rev, ts, counter, arg, digits, cleaner, up, now, restarts, given,
                 made, doubled, fatal>>

\* Mutant: one attempt more than there are digits.
MMoreDigits(c) ==
  /\ up /\ pc[c] = "store" /\ fwd[arg[c]] # None
  /\ IF digits[c] <= Attempts
     THEN digits' = [digits EXCEPT ![c] = @ + 1] /\ UNCHANGED <<up, fatal>>
     ELSE up' = FALSE /\ fatal' = fatal \cup {arg[c]} /\ UNCHANGED digits
  /\ UNCHANGED <<memory, store, pc, arg, cleaner, now, restarts, given, made, torn, doubled>>

\* The message is there by now: more digits do not help, and log.Fatalf follows.
MoreDigits(c) ==
  /\ up /\ pc[c] = "store" /\ fwd[arg[c]] # None
  /\ IF digits[c] < Attempts
     THEN digits' = [digits EXCEPT ![c] = @ + 1] /\ UNCHANGED <<up, fatal>>
     ELSE up' = FALSE /\ fatal' = fatal \cup {arg[c]} /\ UNCHANGED digits
  /\ UNCHANGED <<memory, store, pc, arg, cleaner, now, restarts, given, made, torn, doubled>>

\* Mutant: the reverse entry is that of the first attempt.
MStoreReverse(c) ==
  LET row == Row[arg[c], 1]
  IN /\ up /\ pc[c] = "reverse"
     /\ rev' = [rev EXCEPT ![row] = arg[c]]
     /\ Give(arg[c], row)
     /\ Return(c)
     /\ UNCHANGED <<memory, fwd, ts, counter, cleaner, up, now, restarts, made, torn,
                    doubled, fatal>>

StoreReverse(c) ==
  LET row == Row[arg[c], digits[c]]
  IN /\ up /\ pc[c] = "reverse"
     /\ rev' = [rev EXCEPT ![row] = arg[c]]
     /\ Give(arg[c], row)
     /\ Return(c)
     /\ UNCHANGED <<memory, fwd, ts, counter, cleaner, up, now, restarts, made, torn,
                    doubled, fatal>>

-----------------------------------------------------------------------------
\* The cleaners of the memory maps.

CleanForward(x) ==
  /\ memory /\ up /\ cleaner[x] = "wait"
  /\ cleaner' = [cleaner EXCEPT ![x] = "half"]
  /\ fwd' = [m \in Messages |-> None]
  /\ torn' = {}
  /\ UNCHANGED <<memory, rev, ts, counter, handlers, up, now, restarts, given, made, doubled,
                 fatal>>

CleanReverse(x) ==
  /\ up /\ cleaner[x] = "half"
  /\ cleaner' = [cleaner EXCEPT ![x] = "wait"]
  /\ rev' = [r \in Rows |-> None]
  /\ UNCHANGED <<memory, fwd, ts, counter, handlers, up, now, restarts, given, made, torn,
                 doubled, fatal>>

-----------------------------------------------------------------------------
\* The database: StoreMsgID and cleanExpiredMsgIDs, a transaction each.

\* Mutant: the first number that is free.
MNextRow == CHOOSE r \in 1..MaxRow + 1 : /\ r \in Rows => rev[r] = None
                                         /\ \A q \in 1..r - 1 : rev[q] # None

NextRow == counter + 1

StoreMsgID(m) ==
  /\ ~memory /\ up
  /\ IF fwd[m] # None
     THEN Give(m, fwd[m]) /\ UNCHANGED <<store, made>>
     ELSE /\ NextRow \in Rows
          /\ counter' = NextRow
          /\ fwd' = [fwd EXCEPT ![m] = NextRow]
          /\ rev' = [rev EXCEPT ![NextRow] = m]
          /\ ts' = [ts EXCEPT ![NextRow] = now]
          /\ made' = [made EXCEPT ![NextRow] = now]
          /\ Give(m, NextRow)
  /\ UNCHANGED <<memory, handlers, cleaner, up, now, restarts, torn, doubled, fatal>>

\* Mutant: from the minute on that the comment names.
MExpired == {r \in Rows : ts[r] # None /\ now - ts[r] >= Keep}

\* "Older than six minutes" in whole: the comment says six or more.
Expired == {r \in Rows : ts[r] # None /\ now - ts[r] > Keep}

Sweep ==
  /\ ~memory /\ up /\ Expired # {}
  /\ fwd' = [m \in Messages |-> IF \E r \in Expired : rev[r] = m THEN None ELSE fwd[m]]
  /\ rev' = [r \in Rows |-> IF r \in Expired THEN None ELSE rev[r]]
  /\ ts' = [r \in Rows |-> IF r \in Expired THEN None ELSE ts[r]]
  /\ UNCHANGED <<memory, counter, handlers, cleaner, up, now, restarts, given, made, torn,
                 doubled, fatal>>

-----------------------------------------------------------------------------
Tick == /\ ~memory
        /\ now < MaxTime
        /\ now' = now + 1
        /\ UNCHANGED <<memory, store, handlers, cleaner, up, restarts, given, made, torn,
                       doubled, fatal>>

\* After a crash or log.Fatalf: the maps are empty, the database is as it was.
Restart ==
  /\ restarts < MaxRestarts
  /\ restarts' = restarts + 1
  /\ up' = TRUE
  /\ IF memory THEN /\ fwd' = [m \in Messages |-> None] /\ rev' = [r \in Rows |-> None]
                    /\ UNCHANGED <<ts, counter>>
     ELSE UNCHANGED store
  /\ pc' = [c \in Callers |-> "idle"] /\ arg' = [c \in Callers |-> None]
  /\ digits' = [c \in Callers |-> 1]
  /\ cleaner' = [x \in Cleaners |-> "wait"]
  /\ torn' = {}
  /\ UNCHANGED <<memory, now, given, made, doubled, fatal>>

Next == \/ \E c \in Callers : \/ \E m \in Messages : Load(c, m)
                              \/ LoadOrStore(c) \/ MoreDigits(c) \/ StoreReverse(c)
        \/ \E x \in Cleaners : CleanForward(x) \/ CleanReverse(x)
        \/ \E m \in Messages : StoreMsgID(m)
        \/ Sweep
        \/ Tick
        \/ Restart

Spec == Init /\ [][Next]_vars

-----------------------------------------------------------------------------
TypeOK ==
  /\ memory \in BOOLEAN /\ up \in BOOLEAN
  /\ fwd \in [Messages -> Rows \cup {None}] /\ rev \in [Rows -> Messages \cup {None}]
  /\ ts \in [Rows -> 0..MaxTime \cup {None}] /\ made \in [Rows -> 0..MaxTime \cup {None}]
  /\ counter \in 0..MaxRow
  /\ pc \in [Callers -> {"idle", "store", "reverse"}]
  /\ arg \in [Callers -> Messages \cup {None}]
  /\ \A c \in Callers : pc[c] # "idle" => arg[c] \in Messages
  /\ digits \in [Callers -> 1..Attempts]
  /\ cleaner \in [Cleaners -> {"wait", "half"}]
  /\ now \in 0..MaxTime /\ restarts \in 0..MaxRestarts
  /\ given \subseteq Messages \X Rows
  /\ torn \subseteq Messages /\ doubled \subseteq Messages /\ fatal \subseteq Messages

\* A number that an application got for a message names that message or none, for
\* as long as the process or the database lives: a reply never goes elsewhere.
NeverMisdirected == \A p \in given : rev[p[2]] \in {p[1], None}

\* In memory, what StoreCacheInMemory answers without a second look can be resolved,
\* unless it was stored while a cleaner was between the two maps.
ResolvableUnlessTorn ==
  memory => \A m \in Messages :
              fwd[m] # None => \/ rev[fwd[m]] = m
                               \/ m \in torn
                               \/ \E c \in Callers : pc[c] = "reverse" /\ arg[c] = m
                               \/ \E x \in Cleaners : cleaner[x] = "half"

\* The store fails, and ends the process, only when a message is handled twice at a time.
OnlyDoublesAreFatal == fatal \subseteq doubled

\* In the database a number can be resolved for the six minutes that the code has
\* (new_service.go:955), whatever sweeps and restarts come, and not for the hour that
\* msgid_ttl_seconds promises (config_template.go:61); while it can the message keeps it.
ResolvesWhileFresh ==
  ~memory => \A p \in given : LET r == p[2]
                              IN /\ now - made[r] <= Keep => rev[r] = p[1]
                                 /\ rev[r] = p[1] => fwd[p[1]] = r /\ ts[r] = made[r]
=============================================================================
