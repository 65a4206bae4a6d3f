------------------------- MODULE GroupReceiveProofs --------------------------
(* Proofs about the receive-all detection, for every window, message and       *)
(* bound: what a write, a deletion, a restart and the migration leave in the   *)
(* two databases, and what the tracker believes of it; then what the window    *)
(* holds, and what it takes to raise the flag after a mention.                 *)
EXTENDS GroupReceive, FiniteSetTheorems, TLAPS

USE NoneAssumption, ValuesAssumption

\* What ReadConfig finds when nothing interferes.
Disk == IF newConfig # None THEN newConfig ELSE Legacy

Writing == phase \in {"relook", "writeOld"}

\* A call that writes has its value in identityDB, unless someone took it away.
WritingInv == Writing => /\ ~complete => newConfig # None
                         /\ ~moved => newConfig = permitted

\* What the migration holds of the legacy value.
BatchInv ==
  /\ complete <=> worker = "done"
  /\ worker = "write" /\ newConfig = None => oldConfig \in {None, batch}
  /\ worker = "write" /\ newConfig = None /\ ~moved => oldConfig = batch
  /\ worker = "mark" /\ newConfig = None => oldConfig = None

\* Where the two databases disagree, a write was torn.
TornInv == ~complete /\ newConfig # None /\ oldConfig # None /\ oldConfig # newConfig
             => torn \/ moved

DeletedInv == deleted /\ ~missed /\ worker = "write" => batch = None

\* A read that is under way will find what there is.
ReadingInv ==
  phase \in {"look", "readOld"} /\ ~complete /\ ~moved => newConfig \in {None, oldConfig}

FlagType == /\ permitted \in BOOLEAN
            /\ newConfig \in Values \cup {None} /\ oldConfig \in Values \cup {None}
            /\ batch \in Values \cup {None}

IInv == /\ FlagType
        /\ WritingInv /\ BatchInv /\ TornInv /\ DeletedInv /\ ReadingInv
        /\ DeletedIsGone
        /\ BeliefMatchesDisk

-----------------------------------------------------------------------------
LEMMA InitInv == Init => IInv
<1> SUFFICES ASSUME Init PROVE IInv
  OBVIOUS
<1> USE DEF Init, StoreInit
<1>1. FlagType
  BY DEF FlagType
<1>2. WritingInv /\ ReadingInv /\ BeliefMatchesDisk
  BY DEF WritingInv, Writing, ReadingInv, BeliefMatchesDisk
<1>3. BatchInv /\ TornInv
  BY DEF BatchInv, TornInv
<1>4. DeletedInv /\ DeletedIsGone
  BY DEF DeletedInv, DeletedIsGone
<1> QED
  BY <1>1, <1>2, <1>3, <1>4 DEF IInv

-----------------------------------------------------------------------------
\* The migration

LEMMA MigrateInv ==
  ASSUME IInv, Migrate PROVE IInv'
<1> USE DEF IInv, Migrate, Work, store, past, tracker, call
<1>1. newConfig \in Values \cup {None} /\ permitted' = permitted /\ permitted \in BOOLEAN
  BY DEF FlagType
<1>2. CASE ReadBatch
  BY <1>2 DEF ReadBatch, FlagType, WritingInv, Writing, BatchInv, TornInv, DeletedInv, ReadingInv,
              DeletedIsGone, BeliefMatchesDisk, Legacy
<1>3. CASE WriteBatch
  <2>1. ~complete /\ worker = "write" /\ worker' = "verify"
    BY <1>3 DEF WriteBatch, BatchInv
  <2>2. FlagType' /\ WritingInv' /\ BatchInv'
    BY <1>3, <2>1 DEF WriteBatch, FlagType, WritingInv, Writing, BatchInv
  <2>3. TornInv' /\ DeletedInv' /\ ReadingInv'
    BY <1>3, <2>1 DEF WriteBatch, BatchInv, TornInv, DeletedInv, ReadingInv
  <2>4. DeletedIsGone'
    BY <1>3, <2>1 DEF WriteBatch, DeletedInv, DeletedIsGone, Legacy
  <2>5. ~moved => Disk' = Disk
    BY <1>3, <2>1 DEF WriteBatch, BatchInv, Disk, Legacy
  <2>6. BeliefMatchesDisk'
    BY <1>3, <2>5 DEF WriteBatch, BeliefMatchesDisk, Disk
  <2> QED
    BY <2>2, <2>3, <2>4, <2>6
<1>4. CASE Verify \/ Reverify
  BY <1>4 DEF Verify, Reverify, Agree, FlagType, WritingInv, Writing, BatchInv, TornInv,
              DeletedInv, ReadingInv, DeletedIsGone, BeliefMatchesDisk, Legacy
<1>5. CASE Repair
  <2>1. ~complete /\ worker = "repair" /\ worker' = "reverify"
    BY <1>5 DEF Repair, BatchInv
  <2>2. FlagType' /\ WritingInv' /\ BatchInv'
    BY <1>5, <2>1 DEF Repair, FlagType, WritingInv, Writing, BatchInv
  <2>3. TornInv' /\ DeletedInv' /\ ReadingInv'
    BY <1>5, <2>1 DEF Repair, TornInv, DeletedInv, ReadingInv
  <2>4. DeletedIsGone'
    BY <1>5, <2>1 DEF Repair, DeletedIsGone, Legacy
  <2>5. BeliefMatchesDisk'
    BY <1>5, <2>1 DEF Repair, BeliefMatchesDisk, Legacy
  <2> QED
    BY <2>2, <2>3, <2>4, <2>5
<1>6. CASE MarkComplete
  BY <1>6 DEF MarkComplete, FlagType, WritingInv, Writing, BatchInv, TornInv, DeletedInv,
              ReadingInv, DeletedIsGone, BeliefMatchesDisk, Legacy
<1> QED
  BY <1>2, <1>3, <1>4, <1>5, <1>6 DEF MigrationNext

-----------------------------------------------------------------------------
\* The call

LEMMA ReadInv ==
  ASSUME IInv, ReadNew \/ Look \/ ReadOld PROVE IInv'
<1> USE DEF IInv, Restore, store, migration, storeVars, past, tracker
<1>1. CASE ReadNew
  BY <1>1 DEF ReadNew, FlagType, WritingInv, Writing, BatchInv, TornInv, DeletedInv, ReadingInv,
              DeletedIsGone, BeliefMatchesDisk, Legacy
<1>2. CASE Look
  BY <1>2 DEF Look, FlagType, WritingInv, Writing, BatchInv, TornInv, DeletedInv, ReadingInv,
              DeletedIsGone, BeliefMatchesDisk, Legacy
<1>3. CASE ReadOld
  BY <1>3 DEF ReadOld, FlagType, WritingInv, Writing, BatchInv, TornInv, DeletedInv, ReadingInv,
              DeletedIsGone, BeliefMatchesDisk, Legacy
<1> QED
  BY <1>1, <1>2, <1>3

LEMMA WriteInv ==
  ASSUME IInv, WriteSucceeds \/ WriteFails \/ Written \/ WriteReturns PROVE IInv'
<1> USE DEF IInv, store, migration, storeVars, past, tracker
<1>0. /\ permitted \in BOOLEAN /\ permitted # None /\ permitted = (permitted = TRUE)
      /\ permitted' = permitted
  BY DEF FlagType, WriteSucceeds, WriteFails, Written, WriteReturns
<1>1. CASE WriteSucceeds
  BY <1>0, <1>1
     DEF WriteSucceeds, WriteNew, FlagType, WritingInv, Writing, BatchInv, TornInv, DeletedInv,
         ReadingInv, DeletedIsGone, BeliefMatchesDisk, Legacy
<1>2. CASE WriteFails
  BY <1>2 DEF WriteFails, FlagType, WritingInv, Writing, BatchInv, TornInv, DeletedInv, ReadingInv,
              DeletedIsGone, BeliefMatchesDisk, Legacy
<1>3. CASE Written
  BY <1>0, <1>3
     DEF Written, FlagType, WritingInv, Writing, BatchInv, TornInv, DeletedInv, ReadingInv,
         DeletedIsGone, BeliefMatchesDisk, Legacy
<1>4. CASE WriteReturns
  BY <1>0, <1>4
     DEF WriteReturns, WriteOld, FlagType, WritingInv, Writing, BatchInv, TornInv, DeletedInv,
         ReadingInv, DeletedIsGone, BeliefMatchesDisk, Legacy
<1> QED
  BY <1>1, <1>2, <1>3, <1>4

LEMMA EventInv ==
  ASSUME IInv,
         Record \/ \E m \in Messages : \E normal \in Kinds[m] : Receive(m, normal)
  PROVE  IInv'
<1> USE DEF IInv, store, migration, storeVars, past, tracker
<1>1. ASSUME NEW m \in Messages, NEW normal \in Kinds[m], Receive(m, normal) PROVE IInv'
  BY <1>1 DEF Receive, FlagType, WritingInv, Writing, BatchInv, TornInv, DeletedInv, ReadingInv,
              DeletedIsGone, BeliefMatchesDisk, Legacy
<1>2. CASE Record
  <2>1. permitted' \in BOOLEAN
    BY <1>2 DEF Record, Permit
  <2> QED
    BY <1>2, <2>1 DEF Record, FlagType, WritingInv, Writing, BatchInv, TornInv, DeletedInv,
                      ReadingInv, DeletedIsGone, BeliefMatchesDisk, Legacy
<1> QED
  BY <1>1, <1>2

LEMMA OthersInv ==
  ASSUME IInv, Delete \/ Crash PROVE IInv'
<1> USE DEF IInv, store, migration, storeVars, past, tracker, call
<1>1. CASE Delete
  BY <1>1 DEF Delete, DeleteConfig, FlagType, WritingInv, Writing, BatchInv, TornInv, DeletedInv,
              ReadingInv, DeletedIsGone, BeliefMatchesDisk, Legacy
<1>2. CASE Crash
  BY <1>2 DEF Crash, StoreRestart, FlagType, WritingInv, Writing, BatchInv, TornInv, DeletedInv,
              ReadingInv, DeletedIsGone, BeliefMatchesDisk, Legacy
<1> QED
  BY <1>1, <1>2

LEMMA NextInv == IInv /\ [Next]_vars => IInv'
<1> SUFFICES ASSUME IInv, [Next]_vars PROVE IInv'
  OBVIOUS
<1>1. CASE UNCHANGED vars
  BY <1>1 DEF vars, storeVars, store, migration, past, tracker, call, IInv, FlagType, WritingInv,
              Writing, BatchInv, TornInv, DeletedInv, ReadingInv, DeletedIsGone,
              BeliefMatchesDisk, Legacy
<1> QED
  BY <1>1, MigrateInv, ReadInv, WriteInv, EventInv, OthersInv DEF Next

LEMMA Invariance == Spec => []IInv
BY InitInv, NextInv, PTL DEF Spec

-----------------------------------------------------------------------------
\* What the tracker believes of the stored flag is true, whichever writes failed and
\* however far the migration is (RecordQQGroupMessageReception, ReadConfig).
THEOREM BeliefIsTrue == Spec => []BeliefMatchesDisk
<1>1. IInv => BeliefMatchesDisk
  BY DEF IInv
<1> QED
  BY Invariance, <1>1, PTL

\* A deleted entry stays deleted where DeleteConfig looked in the right database
\* (service.go:1265-1282).
THEOREM DeletedStaysGone == Spec => []DeletedIsGone
<1>1. IInv => DeletedIsGone
  BY DEF IInv
<1> QED
  BY Invariance, <1>1, PTL

\* The migration never takes the place of a value that reached both databases
\* (repairBucket, writeBatchToNewDB).
THEOREM OnlyTornReverts == Spec => RevertsOnlyTorn
<1> DEFINE A == worker' # worker /\ newConfig # None /\ newConfig' # newConfig => torn \/ moved
<1>1. IInv /\ [Next]_vars => [A]_storeVars
  <2> SUFFICES ASSUME IInv, Next, worker' # worker, newConfig # None, newConfig' # newConfig
               PROVE  torn \/ moved
    BY DEF vars
  <2>1. CASE Migrate
    BY <2>1 DEF Migrate, MigrationNext, ReadBatch, WriteBatch, Verify, Reverify, Repair,
                MarkComplete, Work, store, IInv, TornInv, BatchInv
  <2>2. CASE ~Migrate
    BY <2>2 DEF Next, Receive, ReadNew, Look, ReadOld, Record, WriteSucceeds, WriteFails, Written,
                WriteReturns, Delete, Crash, WriteNew, WriteOld, DeleteConfig, StoreRestart,
                storeVars, store, migration
  <2> QED
    BY <2>1, <2>2
<1> QED
  BY Invariance, <1>1, PTL DEF Spec, RevertsOnlyTorn

-----------------------------------------------------------------------------
(* The window, as a function of the history of events.                       *)

Message == [id : Messages, normal : BOOLEAN]

IdsOf(s) == {s[k].id : k \in 1..Len(s)}

IsLast(h, m, k) == k \in 1..Len(h) /\ h[k].id = m /\ \A l \in k + 1..Len(h) : h[l].id # m

LastIn(h, m) == CHOOSE k \in 1..Len(h) : h[k].id = m /\ \A l \in k + 1..Len(h) : h[l].id # m

\* The ids of the window are the latest of the history, in order; while it is not
\* full they are all there are.
Ordered(s, h) ==
  /\ \A m \in IdsOf(h) : IsLast(h, m, LastIn(h, m))
  /\ \A k \in 1..Len(s) : s[k].id \in IdsOf(h) /\ s[k] = h[LastIn(h, s[k].id)]
  /\ \A i, j \in 1..Len(s) : i < j => LastIn(h, s[i].id) < LastIn(h, s[j].id)
  /\ \A m \in IdsOf(h) : m \in IdsOf(s)
                         \/ \A k \in 1..Len(s) : LastIn(h, m) < LastIn(h, s[k].id)

Counted(s, h) ==
  /\ IsFiniteSet(IdsOf(h))
  /\ Len(s) < Window => IdsOf(h) = IdsOf(s) /\ Cardinality(IdsOf(h)) = Len(s)
  /\ Len(s) = Window => Cardinality(IdsOf(h)) >= Window

Windowed(s, h) == /\ s \in Seq(Message) /\ h \in Seq(Message) /\ Len(s) <= Window
                  /\ Ordered(s, h) /\ Counted(s, h)

LEMMA LastIsLast ==
  ASSUME NEW h, NEW m, NEW k, h \in Seq(Message), IsLast(h, m, k)
  PROVE  LastIn(h, m) = k
<1> DEFINE P(x) == h[x].id = m /\ \A l \in x + 1..Len(h) : h[l].id # m
<1>1. k \in 1..Len(h) /\ P(k)
  BY DEF IsLast
<1>2. LastIn(h, m) \in 1..Len(h) /\ P(LastIn(h, m))
  BY <1>1 DEF LastIn
<1>3. Len(h) \in Nat
  OBVIOUS
<1> QED
  BY <1>1, <1>2, <1>3

\* One place of the window is freed, its last one is the message's.
LEMMA AdvanceShifts ==
  ASSUME NEW s \in Seq(Message), NEW m \in Messages, NEW normal \in BOOLEAN,
         Len(s) <= Window, \A i, j \in 1..Len(s) : s[i].id = s[j].id => i = j
  PROVE  LET t == Advance(s, m, normal) IN
         /\ t \in Seq(Message) /\ Len(t) <= Window
         /\ \E gap \in 1..Len(s) + 1 :
              /\ Len(t) = IF gap = Len(s) + 1 THEN Len(s) + 1 ELSE Len(s)
              /\ t[Len(t)] = Entry(m, normal)
              /\ \A k \in 1..Len(t) - 1 : t[k] = IF k < gap THEN s[k] ELSE s[k + 1]
              /\ \/ gap <= Len(s) /\ s[gap].id = m
                 \/ m \notin IdsOf(s) /\ gap = IF Len(s) < Window THEN Len(s) + 1 ELSE 1
<1> DEFINE o == Others(s, m)
           e == Entry(m, normal)
           t == Advance(s, m, normal)
<1>0. Len(s) \in Nat /\ Window \in Nat \ {0} /\ e \in Message
  BY BoundsAssumption DEF Entry, Message
<1>1. CASE \A k \in 1..Len(s) : s[k].id # m
  <2>1. o = s /\ m \notin IdsOf(s)
    BY <1>1 DEF Others, IdsOf
  <2>2. CASE Len(s) < Window
    <3>1. t = Append(s, e)
      BY <1>0, <2>1, <2>2 DEF Advance, LastOf
    <3> QED
      BY <1>0, <2>1, <2>2, <3>1
  <2>3. CASE Len(s) = Window
    <3>1. Append(s, e) \in Seq(Message) /\ Len(Append(s, e)) = Window + 1
      BY <1>0, <2>3
    <3>2. t = SubSeq(Append(s, e), 2, Window + 1)
      BY <1>0, <2>1, <3>1 DEF Advance, LastOf
    <3>3. t \in Seq(Message) /\ Len(t) = Window
      BY <1>0, <3>1, <3>2
    <3>4. \A k \in 1..Window : t[k] = Append(s, e)[k + 1]
      BY <1>0, <3>1, <3>2
    <3> QED
      BY <1>0, <2>1, <2>3, <3>3, <3>4
  <2> QED
    BY <1>0, <2>2, <2>3
<1>2. CASE ~ \A k \in 1..Len(s) : s[k].id # m
  <2> DEFINE at == CHOOSE k \in 1..Len(s) : s[k].id = m
  <2>1. at \in 1..Len(s) /\ s[at].id = m
    BY <1>2
  <2> HIDE DEF at
  <2>2. o = [k \in 1..Len(s) - 1 |-> IF k < at THEN s[k] ELSE s[k + 1]]
    BY <1>2 DEF Others, at
  <2>3. o \in Seq(Message) /\ Len(o) = Len(s) - 1
    <3>1. Len(s) - 1 \in Nat
      BY <2>1, <1>0
    <3>2. \A k \in 1..Len(s) - 1 : (IF k < at THEN s[k] ELSE s[k + 1]) \in Message
      BY <1>0
    <3> QED
      BY <2>2, <3>1, <3>2
  <2>4. t = Append(o, e)
    BY <1>0, <2>3 DEF Advance, LastOf
  <2>5. t \in Seq(Message) /\ Len(t) = Len(s) /\ t[Len(t)] = e
    BY <1>0, <2>3, <2>4
  <2>6. \A k \in 1..Len(t) - 1 : t[k] = o[k]
    BY <1>0, <2>3, <2>4, <2>5
  <2> QED
    BY <1>0, <2>1, <2>2, <2>5, <2>6
<1> QED
  BY <1>1, <1>2

\* An event moves the last position of its own message, and of no other.
LEMMA HistoryGrows ==
  ASSUME NEW h \in Seq(Message), NEW e \in Message,
         \A m \in IdsOf(h) : IsLast(h, m, LastIn(h, m))
  PROVE  LET g == Append(h, e) IN
         /\ g \in Seq(Message) /\ Len(g) = Len(h) + 1
         /\ IdsOf(g) = IdsOf(h) \cup {e.id}
         /\ \A m \in IdsOf(g) : IsLast(g, m, LastIn(g, m))
         /\ LastIn(g, e.id) = Len(h) + 1 /\ g[Len(h) + 1] = e
         /\ \A m \in IdsOf(h) \ {e.id} : /\ LastIn(g, m) = LastIn(h, m)
                                         /\ LastIn(h, m) \in 1..Len(h)
         /\ \A k \in 1..Len(h) : g[k] = h[k]
<1> DEFINE g == Append(h, e)
<1>1. /\ Len(h) \in Nat /\ g \in Seq(Message) /\ Len(g) = Len(h) + 1
      /\ g[Len(h) + 1] = e /\ \A k \in 1..Len(h) : g[k] = h[k]
  OBVIOUS
<1>2. IdsOf(g) = IdsOf(h) \cup {e.id}
  BY <1>1 DEF IdsOf
<1> HIDE DEF g
<1>3. IsLast(g, e.id, Len(h) + 1)
  BY <1>1 DEF IsLast
<1>4. ASSUME NEW m \in IdsOf(h) \ {e.id}
      PROVE  IsLast(g, m, LastIn(h, m)) /\ LastIn(h, m) \in 1..Len(h)
  <2>1. IsLast(h, m, LastIn(h, m))
    OBVIOUS
  <2> QED
    BY <1>1, <2>1 DEF IsLast
<1>5. LastIn(g, e.id) = Len(h) + 1
  BY <1>1, <1>3, LastIsLast
<1>6. \A m \in IdsOf(h) \ {e.id} : LastIn(g, m) = LastIn(h, m)
  BY <1>1, <1>4, LastIsLast
<1>7. \A m \in IdsOf(g) : IsLast(g, m, LastIn(g, m))
  BY <1>2, <1>3, <1>4, <1>5, <1>6
<1> QED
  BY <1>1, <1>2, <1>4, <1>5, <1>6, <1>7 DEF g

\* advanceQQGroupReceiveState keeps the window the window of the history.
LEMMA WindowAdvances ==
  ASSUME NEW s, NEW h, Windowed(s, h), NEW e \in Message
  PROVE  Windowed(Advance(s, e.id, e.normal), Append(h, e))
<1> DEFINE t == Advance(s, e.id, e.normal)
           g == Append(h, e)
           m == e.id
<1>0. /\ s \in Seq(Message) /\ h \in Seq(Message) /\ Len(s) <= Window
      /\ Len(s) \in Nat /\ Len(h) \in Nat /\ Window \in Nat \ {0}
      /\ m \in Messages /\ e.normal \in BOOLEAN /\ Entry(m, e.normal) = e
  BY BoundsAssumption DEF Windowed, Message, Entry
<1>1. /\ \A x \in IdsOf(h) : IsLast(h, x, LastIn(h, x))
      /\ \A k \in 1..Len(s) : s[k].id \in IdsOf(h) /\ s[k] = h[LastIn(h, s[k].id)]
      /\ \A i, j \in 1..Len(s) : i < j => LastIn(h, s[i].id) < LastIn(h, s[j].id)
      /\ \A x \in IdsOf(h) : x \in IdsOf(s)
                             \/ \A k \in 1..Len(s) : LastIn(h, x) < LastIn(h, s[k].id)
  BY DEF Windowed, Ordered
<1>2. \A x \in IdsOf(h) : LastIn(h, x) \in 1..Len(h)
  BY <1>1 DEF IsLast
<1>3. \A i, j \in 1..Len(s) : s[i].id = s[j].id => i = j
  <2> SUFFICES ASSUME NEW i \in 1..Len(s), NEW j \in 1..Len(s), s[i].id = s[j].id, i # j
               PROVE  FALSE
    OBVIOUS
  <2>1. i < j \/ j < i
    BY <1>0
  <2> QED
    BY <1>0, <1>1, <1>2, <2>1
<1>4. /\ t \in Seq(Message) /\ Len(t) <= Window
      /\ \E gap \in 1..Len(s) + 1 :
           /\ Len(t) = IF gap = Len(s) + 1 THEN Len(s) + 1 ELSE Len(s)
           /\ t[Len(t)] = e
           /\ \A k \in 1..Len(t) - 1 : t[k] = IF k < gap THEN s[k] ELSE s[k + 1]
           /\ \/ gap <= Len(s) /\ s[gap].id = m
              \/ m \notin IdsOf(s) /\ gap = IF Len(s) < Window THEN Len(s) + 1 ELSE 1
  <2>1. LET u == Advance(s, m, e.normal) IN
         /\ u \in Seq(Message) /\ Len(u) <= Window
         /\ \E gap \in 1..Len(s) + 1 :
              /\ Len(u) = IF gap = Len(s) + 1 THEN Len(s) + 1 ELSE Len(s)
              /\ u[Len(u)] = Entry(m, e.normal)
              /\ \A k \in 1..Len(u) - 1 : u[k] = IF k < gap THEN s[k] ELSE s[k + 1]
              /\ \/ gap <= Len(s) /\ s[gap].id = m
                 \/ m \notin IdsOf(s) /\ gap = IF Len(s) < Window THEN Len(s) + 1 ELSE 1
    BY <1>0, <1>3, AdvanceShifts
  <2> QED
    BY <1>0, <2>1
<1>5. PICK gap \in 1..Len(s) + 1 :
           /\ Len(t) = IF gap = Len(s) + 1 THEN Len(s) + 1 ELSE Len(s)
           /\ t[Len(t)] = e
           /\ \A k \in 1..Len(t) - 1 : t[k] = IF k < gap THEN s[k] ELSE s[k + 1]
           /\ \/ gap <= Len(s) /\ s[gap].id = m
              \/ m \notin IdsOf(s) /\ gap = IF Len(s) < Window THEN Len(s) + 1 ELSE 1
  BY <1>4
<1>6. /\ g \in Seq(Message) /\ Len(g) = Len(h) + 1
      /\ IdsOf(g) = IdsOf(h) \cup {m}
      /\ \A x \in IdsOf(g) : IsLast(g, x, LastIn(g, x))
      /\ LastIn(g, m) = Len(h) + 1 /\ g[Len(h) + 1] = e
      /\ \A x \in IdsOf(h) \ {m} : /\ LastIn(g, x) = LastIn(h, x)
                                   /\ LastIn(h, x) \in 1..Len(h)
      /\ \A k \in 1..Len(h) : g[k] = h[k]
  BY <1>0, <1>1, HistoryGrows, Zenon
<1> HIDE DEF t, g, m
<1>7. gap \in 1..Len(s) + 1 /\ Len(t) \in Nat \ {0} /\ Len(t) <= Len(s) + 1 /\ Len(s) <= Len(t)
  BY <1>0, <1>4, <1>5
\* The entries that stay are those of other messages.
<1> DEFINE from(k) == IF k < gap THEN k ELSE k + 1
<1>8. \A k \in 1..Len(t) - 1 : /\ from(k) \in 1..Len(s) /\ t[k] = s[from(k)]
                               /\ from(k) # gap
  BY <1>0, <1>5, <1>7
<1>9. \A k \in 1..Len(t) - 1 : t[k].id # m
  <2> SUFFICES ASSUME NEW k \in 1..Len(t) - 1, t[k].id = m PROVE FALSE
    OBVIOUS
  <2>1. from(k) \in 1..Len(s) /\ s[from(k)].id = m /\ from(k) # gap
    BY <1>8
  <2>2. gap \in 1..Len(s) /\ s[gap].id = m
    BY <1>5, <1>7, <2>1 DEF IdsOf
  <2> QED
    BY <1>3, <2>1, <2>2
<1>10. \A k \in 1..Len(t) - 1 :
          /\ t[k].id \in IdsOf(h) \ {m} /\ t[k] = g[LastIn(g, t[k].id)]
          /\ LastIn(g, t[k].id) = LastIn(h, t[k].id) /\ LastIn(g, t[k].id) \in 1..Len(h)
  <2> SUFFICES ASSUME NEW k \in 1..Len(t) - 1
               PROVE  /\ t[k].id \in IdsOf(h) \ {m} /\ t[k] = g[LastIn(g, t[k].id)]
                      /\ LastIn(g, t[k].id) = LastIn(h, t[k].id)
                      /\ LastIn(g, t[k].id) \in 1..Len(h)
    OBVIOUS
  <2>1. t[k].id \in IdsOf(h) \ {m} /\ t[k] = h[LastIn(h, t[k].id)]
    BY <1>1, <1>8, <1>9
  <2> QED
    BY <1>6, <2>1
<1>11. \A i, j \in 1..Len(t) : i < j => LastIn(g, t[i].id) < LastIn(g, t[j].id)
  <2> SUFFICES ASSUME NEW i \in 1..Len(t), NEW j \in 1..Len(t), i < j
               PROVE  LastIn(g, t[i].id) < LastIn(g, t[j].id)
    OBVIOUS
  <2>1. i \in 1..Len(t) - 1
    BY <1>7
  <2>2. CASE j = Len(t)
    BY <1>0, <1>5, <1>6, <1>10, <2>1, <2>2 DEF m
  <2>3. CASE j # Len(t)
    <3>1. j \in 1..Len(t) - 1
      BY <1>7, <2>3
    <3>2. from(i) < from(j) /\ from(i) \in 1..Len(s) /\ from(j) \in 1..Len(s)
      BY <1>7, <1>8, <2>1, <3>1
    <3>3. LastIn(h, s[from(i)].id) < LastIn(h, s[from(j)].id)
      BY <1>1, <3>2
    <3> QED
      BY <1>8, <1>10, <2>1, <3>1, <3>3
  <2> QED
    BY <2>2, <2>3
<1>12. \A k \in 1..Len(t) : t[k].id \in IdsOf(g) /\ t[k] = g[LastIn(g, t[k].id)]
  BY <1>5, <1>6, <1>7, <1>10 DEF m
\* Who is in neither window is older than both; who is freed was the oldest.
<1>13. \A x \in IdsOf(g) : x \in IdsOf(t)
                           \/ \A k \in 1..Len(t) : LastIn(g, x) < LastIn(g, t[k].id)
  <2> SUFFICES ASSUME NEW x \in IdsOf(g), x \notin IdsOf(t), NEW k \in 1..Len(t)
               PROVE  LastIn(g, x) < LastIn(g, t[k].id)
    OBVIOUS
  <2>1. x # m
    BY <1>5, <1>7 DEF IdsOf, m
  <2>2. x \in IdsOf(h) \ {m} /\ LastIn(g, x) = LastIn(h, x) /\ LastIn(h, x) \in 1..Len(h)
    BY <1>6, <2>1
  <2>3. CASE k = Len(t)
    BY <1>0, <1>5, <1>6, <2>2, <2>3 DEF m
  <2>4. CASE k # Len(t)
    <3>1. k \in 1..Len(t) - 1 /\ from(k) \in 1..Len(s) /\ t[k] = s[from(k)]
          /\ LastIn(g, t[k].id) = LastIn(h, s[from(k)].id)
      BY <1>7, <1>8, <1>10, <2>4
    <3>2. CASE x \notin IdsOf(s)
      BY <1>1, <2>2, <3>1, <3>2
    <3>3. CASE x \in IdsOf(s)
      <4>1. PICK i \in 1..Len(s) : s[i].id = x
        BY <3>3 DEF IdsOf
      <4>2. i = gap
        <5> SUFFICES ASSUME i # gap PROVE FALSE
          OBVIOUS
        <5> DEFINE at == IF i < gap THEN i ELSE i - 1
        <5>1. at \in 1..Len(t) - 1 /\ from(at) = i
          BY <1>0, <1>5, <1>7, <4>1
        <5> HIDE DEF at
        <5>2. t[at] = s[i] /\ at \in 1..Len(t)
          BY <1>7, <1>8, <5>1
        <5> QED
          BY <4>1, <5>2 DEF IdsOf
      <4>3. gap = 1
        BY <1>0, <1>5, <2>1, <4>1, <4>2
      <4>4. 1 < from(k)
        BY <3>1, <4>3
      <4> QED
        BY <1>1, <2>2, <3>1, <4>1, <4>2, <4>3, <4>4
    <3> QED
      BY <3>2, <3>3
  <2> QED
    BY <2>3, <2>4
<1>14. Ordered(t, g)
  BY <1>6, <1>11, <1>12, <1>13 DEF Ordered
<1>15. Counted(t, g)
  <2>0. /\ IsFiniteSet(IdsOf(h))
        /\ Len(s) < Window => IdsOf(h) = IdsOf(s) /\ Cardinality(IdsOf(h)) = Len(s)
        /\ Len(s) = Window => Cardinality(IdsOf(h)) >= Window
    BY DEF Windowed, Counted
  <2>1. /\ IsFiniteSet(IdsOf(g)) /\ Cardinality(IdsOf(h)) \in Nat
        /\ Cardinality(IdsOf(g)) = IF m \in IdsOf(h) THEN Cardinality(IdsOf(h))
                                   ELSE Cardinality(IdsOf(h)) + 1
    BY <1>6, <2>0, FS_AddElement, FS_CardinalityType
  <2>2. Len(t) < Window => IdsOf(g) \subseteq IdsOf(t)
    <3>0. m \in IdsOf(t)
      BY <1>5, <1>7 DEF IdsOf, m
    <3> SUFFICES ASSUME Len(t) < Window, NEW x \in IdsOf(g), x # m PROVE x \in IdsOf(t)
      BY <3>0
    <3>1. x \in IdsOf(s)
      BY <1>0, <1>6, <1>7, <2>0
    <3>2. PICK i \in 1..Len(s) : s[i].id = x
      BY <3>1 DEF IdsOf
    <3>3. i # gap
      BY <1>0, <1>5, <1>7, <3>2
    <3> DEFINE at == IF i < gap THEN i ELSE i - 1
    <3>4. at \in 1..Len(t) - 1 /\ from(at) = i
      BY <1>0, <1>5, <1>7, <3>2, <3>3
    <3> HIDE DEF at
    <3>5. t[at] = s[i] /\ at \in 1..Len(t)
      BY <1>7, <1>8, <3>4
    <3> QED
      BY <3>2, <3>5 DEF IdsOf
  <2>3. IdsOf(t) \subseteq IdsOf(g)
    BY <1>12 DEF IdsOf
  <2>4. Len(s) < Window => (m \in IdsOf(h) <=> Len(t) = Len(s))
    <3> SUFFICES ASSUME Len(s) < Window PROVE m \in IdsOf(h) <=> Len(t) = Len(s)
      OBVIOUS
    <3>1. CASE gap <= Len(s) /\ s[gap].id = m
      <4>1. m \in IdsOf(s)
        BY <1>7, <3>1 DEF IdsOf
      <4>2. Len(t) = Len(s)
        BY <1>0, <1>5, <3>1
      <4> QED
        BY <2>0, <4>1, <4>2
    <3>2. CASE m \notin IdsOf(s) /\ gap = Len(s) + 1
      BY <1>0, <1>5, <1>7, <2>0, <3>2
    <3>3. (gap <= Len(s) /\ s[gap].id = m) \/ (m \notin IdsOf(s) /\ gap = Len(s) + 1)
      BY <1>5
    <3> QED
      BY <3>1, <3>2, <3>3
  <2>5. Len(t) < Window => Cardinality(IdsOf(g)) = Len(t)
    BY <1>0, <1>5, <1>7, <2>0, <2>1, <2>4
  <2>6. Len(t) = Window => Cardinality(IdsOf(g)) >= Window
    BY <1>0, <1>5, <1>7, <2>0, <2>1, <2>4
  <2> QED
    BY <2>1, <2>2, <2>3, <2>5, <2>6 DEF Counted
<1>16. Windowed(t, g)
  BY <1>4, <1>6, <1>14, <1>15 DEF Windowed
<1> QED
  BY <1>16 DEF t, g, m

\* The ids after a position, and what the flag promises of every mention.
LaterIds(h, p) == {h[k].id : k \in p + 1..Len(h)}

MentionsAreOld(h) ==
  \A p \in 1..Len(h) : ~h[p].normal => Cardinality(LaterIds(h, p)) >= Window

\* Every message came as one kind of event.
AsItsKind(h) == \A k \in 1..Len(h) : h[k].normal \in Kinds[h[k].id]

OneKindEach == \A m \in Messages : \A a, b \in Kinds[m] : a = b

LEMMA LaterIsFinite ==
  ASSUME NEW h \in Seq(Message), NEW p \in 1..Len(h), IsFiniteSet(IdsOf(h))
  PROVE  IsFiniteSet(LaterIds(h, p)) /\ Cardinality(LaterIds(h, p)) \in Nat
<1>1. LaterIds(h, p) \subseteq IdsOf(h)
  BY DEF LaterIds, IdsOf
<1> QED
  BY <1>1, FS_Subset, FS_CardinalityType

\* A full window of normal messages is later than every mention: a message that was a
\* mention is not in it, so it is older than all that are.
LEMMA FullWindowIsLater ==
  ASSUME NEW s, NEW h, Windowed(s, h), FullOfNormal(s), OneKindEach, AsItsKind(h)
  PROVE  MentionsAreOld(h)
<1> SUFFICES ASSUME NEW p \in 1..Len(h), ~h[p].normal
             PROVE  Cardinality(LaterIds(h, p)) >= Window
  BY DEF MentionsAreOld
<1> DEFINE x == h[p].id
<1>0. /\ s \in Seq(Message) /\ h \in Seq(Message) /\ Len(s) = Window /\ Len(h) \in Nat
      /\ Window \in Nat \ {0} /\ Ordered(s, h) /\ IsFiniteSet(IdsOf(h))
      /\ \A k \in 1..Len(s) : s[k].normal
  BY BoundsAssumption DEF Windowed, Counted, FullOfNormal
<1>1. x \in IdsOf(h) /\ x \in Messages /\ h[p].normal \in Kinds[x]
  <2>1. h[p] \in Message
    BY <1>0
  <2> QED
    BY <2>1 DEF IdsOf, Message, AsItsKind
<1>2. x \notin IdsOf(s)
  <2> SUFFICES ASSUME NEW k \in 1..Len(s), s[k].id = x PROVE FALSE
    BY DEF IdsOf
  <2>1. s[k] = h[LastIn(h, x)] /\ LastIn(h, x) \in 1..Len(h) /\ s[k].normal
    BY <1>0, <1>1 DEF Ordered, IsLast
  <2>2. s[k].normal \in Kinds[x]
    BY <2>1 DEF AsItsKind
  <2> QED
    BY <1>1, <2>1, <2>2, ZenonT(30) DEF OneKindEach
<1>3. p <= LastIn(h, x)
  BY <1>0, <1>1 DEF Ordered, IsLast
<1>4. \A k \in 1..Len(s) : LastIn(h, x) < LastIn(h, s[k].id)
  BY <1>0, <1>1, <1>2 DEF Ordered
<1>5. \A k \in 1..Len(s) : LastIn(h, s[k].id) \in 1..Len(h) /\ h[LastIn(h, s[k].id)].id = s[k].id
  BY <1>0 DEF Ordered, IsLast
<1>6. LastIn(h, x) \in 1..Len(h)
  BY <1>0, <1>1 DEF Ordered, IsLast
<1>7. \A k \in 1..Len(s) : s[k].id \in LaterIds(h, p)
  <2> SUFFICES ASSUME NEW k \in 1..Len(s) PROVE s[k].id \in LaterIds(h, p)
    OBVIOUS
  <2>1. LastIn(h, s[k].id) \in p + 1..Len(h)
    BY <1>0, <1>3, <1>4, <1>5, <1>6
  <2> QED
    BY <1>5, <2>1 DEF LaterIds
<1> DEFINE f == [k \in 1..Window |-> s[k].id]
<1>8. \A i, j \in 1..Window : f[i] = f[j] => i = j
  <2> SUFFICES ASSUME NEW i \in 1..Window, NEW j \in 1..Window, s[i].id = s[j].id, i # j
               PROVE  FALSE
    OBVIOUS
  <2>1. i < j \/ j < i
    BY <1>0
  <2>2. LastIn(h, s[i].id) < LastIn(h, s[j].id) \/ LastIn(h, s[j].id) < LastIn(h, s[i].id)
    BY <1>0, <2>1 DEF Ordered
  <2> QED
    BY <1>0, <1>5, <2>2
<1>9. f \in Injection(1..Window, LaterIds(h, p))
  BY <1>0, <1>7, <1>8 DEF Injection, IsInjective
<1>10. Cardinality(1..Window) = Window
  BY <1>0, FS_Interval
<1>11. Cardinality(1..Window) <= Cardinality(LaterIds(h, p))
  BY <1>0, <1>9, LaterIsFinite, FS_Injection
<1> QED
  BY <1>0, <1>10, <1>11, LaterIsFinite

\* A normal message only adds to what is later than a mention.
LEMMA NormalKeepsDistance ==
  ASSUME NEW h \in Seq(Message), IsFiniteSet(IdsOf(h)), MentionsAreOld(h),
         NEW e \in Message, e.normal
  PROVE  MentionsAreOld(Append(h, e))
<1> DEFINE g == Append(h, e)
<1>0. /\ Len(h) \in Nat /\ g \in Seq(Message) /\ Len(g) = Len(h) + 1 /\ g[Len(h) + 1] = e
      /\ \A k \in 1..Len(h) : g[k] = h[k]
  OBVIOUS
<1> HIDE DEF g
<1> SUFFICES ASSUME NEW p \in 1..Len(g), ~g[p].normal
             PROVE  Cardinality(LaterIds(g, p)) >= Window
  BY DEF MentionsAreOld, g
<1>1. p \in 1..Len(h) /\ ~h[p].normal
  BY <1>0
<1>2. LaterIds(g, p) = LaterIds(h, p) \cup {e.id}
  BY <1>0, <1>1 DEF LaterIds
<1>3. Cardinality(LaterIds(h, p)) >= Window
  BY <1>1 DEF MentionsAreOld
<1>4. Cardinality(LaterIds(g, p)) >= Cardinality(LaterIds(h, p))
  <2>1. IsFiniteSet(LaterIds(h, p)) /\ Cardinality(LaterIds(h, p)) \in Nat
    BY <1>1, LaterIsFinite
  <2>2. Cardinality(LaterIds(g, p)) = IF e.id \in LaterIds(h, p) THEN Cardinality(LaterIds(h, p))
                                      ELSE Cardinality(LaterIds(h, p)) + 1
    BY <1>2, <2>1, FS_AddElement
  <2> QED
    BY <2>1, <2>2
<1>5. Cardinality(LaterIds(h, p)) \in Nat /\ Cardinality(LaterIds(g, p)) \in Nat
  BY <1>1, <1>2, LaterIsFinite, FS_AddElement, FS_CardinalityType
<1> QED
  BY <1>3, <1>4, <1>5, BoundsAssumption

-----------------------------------------------------------------------------
\* The tracker

LoadInv == /\ ~loaded => seen = <<>>
           /\ phase \in {"read", "look", "readOld"} => ~loaded /\ event \in Message
           /\ phase = "advance" => loaded /\ event \in Message

TrackerInv == /\ TypeOK
              /\ LoadInv
              /\ Windowed(recent, seen)

KindInv == /\ AsItsKind(seen)
           /\ phase \in {"read", "look", "readOld", "advance"} => event.normal \in Kinds[event.id]
           /\ permitted => MentionsAreOld(seen)

LEMMA NothingSeen == Windowed(<<>>, <<>>) /\ AsItsKind(<<>>) /\ MentionsAreOld(<<>>)
<1>1. Len(<<>>) = 0 /\ IdsOf(<<>>) = {} /\ <<>> \in Seq(Message)
  BY DEF IdsOf
<1>2. IsFiniteSet({}) /\ Cardinality({}) = 0
  BY FS_EmptySet
<1>3. Ordered(<<>>, <<>>)
  BY <1>1 DEF Ordered
<1>4. Counted(<<>>, <<>>)
  BY <1>1, <1>2, BoundsAssumption DEF Counted
<1> QED
  BY <1>1, <1>3, <1>4, BoundsAssumption DEF Windowed, AsItsKind, MentionsAreOld

LEMMA TrackerInit == Init => TrackerInv /\ KindInv
<1> SUFFICES ASSUME Init PROVE TrackerInv /\ KindInv
  OBVIOUS
<1> USE DEF Init, StoreInit
<1>1. StoreTypeOK
  BY ValuesAssumption DEF StoreTypeOK
<1>2. TypeOK
  <2>1. 0 \in 0..MaxCrashes /\ 0 \in 0..MaxDeletes /\ Len(recent) = 0 /\ 0 <= Window
    BY BoundsAssumption
  <2>2. recent \in Seq([id : Messages, normal : BOOLEAN])
        /\ seen \in Seq([id : Messages, normal : BOOLEAN])
    OBVIOUS
  <2> QED
    BY <1>1, <2>1, <2>2 DEF TypeOK
<1> QED
  BY <1>2, NothingSeen DEF TrackerInv, LoadInv, KindInv

LEMMA StoreTypes ==
  ASSUME TypeOK, Next PROVE StoreTypeOK'
<1> USE DEF StoreTypeOK
<1>0. StoreTypeOK /\ permitted \in Values
  BY ValuesAssumption DEF TypeOK
<1>1. CASE Migrate
  BY <1>0, <1>1, ZenonT(30) DEF Migrate, MigrationNext, ReadBatch, WriteBatch, Verify, Repair, Reverify,
                    MarkComplete, Work, Agree, store, past
<1>2. CASE Delete \/ Crash
  BY <1>0, <1>2 DEF Delete, DeleteConfig, Crash, StoreRestart, store, migration, past
<1>3. CASE WriteSucceeds \/ WriteReturns
  BY <1>0, <1>3, ZenonT(30) DEF WriteSucceeds, WriteReturns, WriteNew, WriteOld, storeVars, store,
                    migration, past
<1>4. CASE Look
  BY <1>0, <1>4 DEF Look, store, migration
<1>5. CASE \/ \E m \in Messages : \E normal \in Kinds[m] : Receive(m, normal)
           \/ ReadNew \/ ReadOld \/ Record \/ WriteFails \/ Written
  <2>1. UNCHANGED storeVars
    BY <1>5 DEF Receive, ReadNew, ReadOld, Record, WriteFails, Written
  <2> QED
    BY <1>0, <2>1 DEF storeVars, store, migration, past
<1> QED
  BY <1>1, <1>2, <1>3, <1>4, <1>5 DEF Next

LEMMA TrackerNext == TrackerInv /\ [Next]_vars => TrackerInv'
<1> SUFFICES ASSUME TrackerInv, [Next]_vars PROVE TrackerInv'
  OBVIOUS
<1>0. TypeOK /\ LoadInv /\ Windowed(recent, seen) /\ Len(recent) \in Nat
  BY DEF TrackerInv, TypeOK
<1>1. CASE UNCHANGED vars
  BY <1>0, <1>1 DEF vars, storeVars, store, migration, past, tracker, call, TrackerInv, TypeOK,
                    StoreTypeOK, LoadInv
<1>2. CASE Next
  <2>1. StoreTypeOK'
    BY <1>0, <1>2, StoreTypes
  <2>2. ASSUME NEW m \in Messages, NEW normal \in Kinds[m], Receive(m, normal) PROVE TrackerInv'
    <3>1. event' \in Message /\ normal \in BOOLEAN
      BY <2>2, KindsAssumption DEF Receive, Entry, Message
    <3> QED
      BY <1>0, <2>1, <2>2, <3>1 DEF Receive, tracker, TrackerInv, TypeOK, LoadInv, Message
  <2>3. CASE ReadNew
    BY <1>0, <2>1, <2>3 DEF ReadNew, Restore, tracker, TrackerInv, TypeOK, LoadInv
  <2>4. CASE Look
    BY <1>0, <2>1, <2>4 DEF Look, Restore, tracker, TrackerInv, TypeOK, LoadInv
  <2>5. CASE ReadOld
    BY <1>0, <2>1, <2>5 DEF ReadOld, Restore, tracker, TrackerInv, TypeOK, LoadInv
  <2>6. CASE Record
    <3>1. event \in Message /\ loaded /\ seen' = Append(seen, event)
          /\ recent' = Advance(recent, event.id, event.normal)
      BY <1>0, <2>6 DEF Record, LoadInv
    <3>2. Windowed(recent', seen')
      BY <1>0, <3>1, WindowAdvances
    <3>3. recent' \in Seq(Message) /\ seen' \in Seq(Message) /\ Len(recent') <= Window
      BY <3>2 DEF Windowed
    <3>4. permitted' \in BOOLEAN
      BY <1>0, <2>6 DEF Record, Permit
    <3>5. /\ UNCHANGED <<loaded, persistedPermitted, crashes, deletes>>
          /\ phase' \in {"idle", "write"} /\ event' = None
      BY <2>6 DEF Record
    <3>6. TypeOK'
      BY <1>0, <2>1, <3>3, <3>4, <3>5 DEF TypeOK, Message
    <3> QED
      BY <3>1, <3>2, <3>5, <3>6 DEF TrackerInv, LoadInv
  <2>7. CASE WriteSucceeds \/ WriteFails \/ Written \/ WriteReturns
    <3>1. /\ UNCHANGED <<loaded, recent, permitted, event, seen, crashes, deletes>>
          /\ persistedPermitted' \in {permitted, persistedPermitted}
          /\ phase' \in {"relook", "idle", "writeOld"}
      BY <2>7 DEF WriteSucceeds, WriteFails, Written, WriteReturns, tracker
    <3> QED
      BY <1>0, <2>1, <3>1 DEF TrackerInv, TypeOK, LoadInv
  <2>8. CASE Migrate
    BY <1>0, <2>1, <2>8 DEF Migrate, tracker, call, TrackerInv, TypeOK, LoadInv
  <2>9. CASE Delete
    <3>1. deletes' \in 0..MaxDeletes
      BY <1>0, <2>9, BoundsAssumption DEF Delete, TypeOK
    <3> QED
      BY <1>0, <2>1, <2>9, <3>1 DEF Delete, tracker, call, TrackerInv, TypeOK, LoadInv
  <2>10. CASE Crash
    <3>1. crashes' \in 0..MaxCrashes
      BY <1>0, <2>10, BoundsAssumption DEF Crash, TypeOK
    <3>2. Len(<<>>) = 0 /\ 0 <= Window /\ <<>> \in Seq([id : Messages, normal : BOOLEAN])
      BY BoundsAssumption
    <3> QED
      BY <1>0, <2>1, <2>10, <3>1, <3>2, NothingSeen DEF Crash, TrackerInv, TypeOK, LoadInv
  <2> QED
    BY <1>2, <2>2, <2>3, <2>4, <2>5, <2>6, <2>7, <2>8, <2>9, <2>10 DEF Next
<1> QED
  BY <1>1, <1>2

LEMMA TrackerInvariance == Spec => []TrackerInv
BY TrackerInit, TrackerNext, PTL DEF Spec

LEMMA KindNext ==
  ASSUME OneKindEach PROVE TrackerInv /\ KindInv /\ [Next]_vars => KindInv'
<1> SUFFICES ASSUME TrackerInv, KindInv, [Next]_vars PROVE KindInv'
  OBVIOUS
<1>0. LoadInv /\ TypeOK /\ Windowed(recent, seen) /\ IsFiniteSet(IdsOf(seen))
  BY DEF TrackerInv, Windowed, Counted
<1>1. ASSUME NEW m \in Messages, NEW normal \in Kinds[m], Receive(m, normal) PROVE KindInv'
  BY <1>1 DEF Receive, Entry, tracker, KindInv
<1>2. CASE ReadNew \/ Look \/ ReadOld
  <2>1. seen = <<>> /\ UNCHANGED <<seen, event>>
    BY <1>0, <1>2 DEF ReadNew, Look, ReadOld, LoadInv
  <2>2. phase \in {"read", "look", "readOld", "advance"}
    BY <1>2 DEF ReadNew, Look, ReadOld
  <2> QED
    BY <2>1, <2>2, NothingSeen DEF KindInv
<1>3. CASE Record
  <2>1. /\ event \in Message /\ seen' = Append(seen, event)
        /\ event.normal \in Kinds[event.id]
        /\ recent' = Advance(recent, event.id, event.normal)
        /\ permitted' = Permit(permitted, recent', event.normal)
        /\ phase' \in {"idle", "write"}
    BY <1>0, <1>3 DEF Record, LoadInv, KindInv
  <2>2. seen \in Seq(Message)
    BY <1>0 DEF Windowed
  <2>3. AsItsKind(seen')
    BY <2>1, <2>2 DEF AsItsKind, KindInv
  <2>4. Windowed(recent', seen')
    BY <1>0, <2>1, WindowAdvances
  <2>5. ASSUME permitted', permitted PROVE MentionsAreOld(seen')
    BY <1>0, <2>1, <2>2, <2>5, NormalKeepsDistance DEF Permit, KindInv
  <2>6. ASSUME permitted', ~permitted PROVE MentionsAreOld(seen')
    <3>1. FullOfNormal(recent')
      BY <2>1, <2>6 DEF Permit
    <3> QED
      BY <2>3, <2>4, <3>1, FullWindowIsLater
  <2> QED
    BY <2>1, <2>3, <2>5, <2>6 DEF KindInv
<1>4. CASE WriteSucceeds \/ WriteFails \/ Written \/ WriteReturns
  BY <1>4 DEF WriteSucceeds, WriteFails, Written, WriteReturns, tracker, KindInv
<1>5. CASE Migrate \/ Delete \/ UNCHANGED vars
  BY <1>5 DEF Migrate, Delete, tracker, call, vars, KindInv
<1>6. CASE Crash
  BY <1>6, NothingSeen DEF Crash, KindInv
<1> QED
  BY <1>1, <1>2, <1>3, <1>4, <1>5, <1>6 DEF Next

-----------------------------------------------------------------------------
\* The state of the tracker, of a call in progress and of the two databases is always one that
\* RecordQQGroupMessageReception can be in; the window never outgrows its size.
THEOREM TypeCorrect == Spec => []TypeOK
BY TrackerInvariance, PTL DEF TrackerInv

\* The window holds the last Window different messages in the order in which they came last
\* (advanceQQGroupReceiveState), for every window size and every sequence of events.
THEOREM WindowIsLatest == Spec => []WindowIsRecent
<1>1. TrackerInv => WindowIsRecent
  <2> SUFFICES ASSUME Windowed(recent, seen) PROVE WindowIsRecent
    BY DEF TrackerInv
  <2>1. Ids = IdsOf(seen) /\ {recent[k].id : k \in 1..Len(recent)} = IdsOf(recent)
    BY DEF Ids, IdsOf
  <2>2. \A m : Last(m) = LastIn(seen, m)
    BY DEF Last, LastIn
  <2>3. Len(recent) \in Nat /\ Len(recent) <= Window /\ Window \in Nat
        /\ Cardinality(Ids) \in Nat
    BY <2>1, BoundsAssumption, FS_CardinalityType DEF Windowed, Counted
  <2>4. Len(recent) = IF Cardinality(Ids) < Window THEN Cardinality(Ids) ELSE Window
    BY <2>1, <2>3 DEF Windowed, Counted
  <2>5. /\ \A k \in 1..Len(recent) : recent[k].id \in Ids /\ recent[k] = seen[Last(recent[k].id)]
        /\ \A k \in 1..Len(recent) - 1 : Last(recent[k].id) < Last(recent[k + 1].id)
    BY <2>1, <2>2, <2>3, SMTT(30) DEF Windowed, Ordered
  <2>6. \A m \in Ids : m \in {recent[k].id : k \in 1..Len(recent)}
                       \/ \A k \in 1..Len(recent) : Last(m) < Last(recent[k].id)
    BY <2>1, <2>2 DEF Windowed, Ordered
  <2> QED
    BY <2>4, <2>5, <2>6 DEF WindowIsRecent
<1> QED
  BY TrackerInvariance, <1>1, PTL

\* Once a mention has come, the flag is only up when Window different messages have
\* come since (advanceQQGroupReceiveState, lines 157-159), where no message
\* comes both as a mention and as a normal one.
THEOREM FlagNeedsAWindow ==
  ASSUME OneKindEach PROVE Spec => []WindowAfterMention
<1>1. KindInv => WindowAfterMention
  BY DEF KindInv, MentionsAreOld, LaterIds, WindowAfterMention, Mentions, After
<1> QED
  BY TrackerInit, TrackerNext, KindNext, <1>1, PTL DEF Spec
=============================================================================
