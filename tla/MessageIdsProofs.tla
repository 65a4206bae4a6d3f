-------------------------- MODULE MessageIdsProofs ---------------------------
(* Proofs about message ids, for any number of messages, handlers, cleaners,  *)
(* rows and attempts: what a number can name in memory, where entries come    *)
(* and go in several steps, and in the database, where time takes them away.  *)
EXTENDS MessageIds, TLAPS

Half == \E x \in Cleaners : cleaner[x] = "half"

\* In memory a row is the row of one message only.
Own(m, r) == \E d \in 1..Attempts : Row[m, d] = r

OwnRows ==
  memory => /\ \A r \in Rows : rev[r] # None => Own(rev[r], r)
            /\ \A m \in Messages : fwd[m] # None => Own(m, fwd[m])
            /\ \A p \in given : Own(p[1], p[2])

\* What is stored while a cleaner is between the maps is marked: the cleaner may
\* take the reverse entry and leave the other.
TornInv == memory /\ Half => \A m \in Messages : fwd[m] # None => m \in torn

\* A forward entry without its reverse entry is torn, or somebody is to store it.
ReverseInv ==
  memory => \A m \in Messages :
    fwd[m] # None => \/ rev[fwd[m]] = m \/ m \in torn \/ Half
                     \/ \E c \in Callers : /\ pc[c] = "reverse" /\ arg[c] = m
                                           /\ Row[m, digits[c]] = fwd[m]

\* Who finds that LoadOrStore is too late has a rival.
RivalInv ==
  /\ \A c, d \in Callers : c # d /\ pc[c] # "idle" /\ pc[d] # "idle" /\ arg[c] = arg[d]
                             => arg[c] \in doubled
  /\ \A c \in Callers : pc[c] = "store" /\ fwd[arg[c]] # None => arg[c] \in doubled
  /\ OnlyDoublesAreFatal

\* The database: transactions keep the two maps inverse, and the counter is ahead
\* of every row that was given out.
DatabaseInv ==
  ~memory =>
    /\ \A c \in Callers : pc[c] = "idle"
    /\ ~Half
    /\ \A r \in Rows : rev[r] # None => r <= counter /\ fwd[rev[r]] = r /\ ts[r] = made[r]
    /\ \A m \in Messages : fwd[m] # None => /\ rev[fwd[m]] = m
                                            /\ fwd[m] <= counter /\ made[fwd[m]] \in Nat
    /\ \A p \in given : /\ p[2] <= counter /\ made[p[2]] \in Nat
                        /\ rev[p[2]] \in {p[1], None}
                        /\ now - made[p[2]] <= Keep => rev[p[2]] = p[1]

IInv == TypeOK /\ OwnRows /\ TornInv /\ ReverseInv /\ RivalInv /\ DatabaseInv

-----------------------------------------------------------------------------
LEMMA OneOwner ==
  ASSUME NEW m \in Messages, NEW n \in Messages, NEW r, Own(m, r), Own(n, r)
  PROVE  m = n
BY RowAssumption DEF Own

LEMMA RowIn ==
  ASSUME NEW m \in Messages, NEW d \in 1..Attempts PROVE Row[m, d] \in Rows
BY RowAssumption

LEMMA NoneNotRow == None \notin Rows
BY BoundsAssumption, NoneAssumption DEF Rows

LEMMA InitInv == Init => IInv
<1> SUFFICES ASSUME Init PROVE IInv
  OBVIOUS
<1> USE DEF Init
<1>1. TypeOK
  BY BoundsAssumption DEF TypeOK
<1>2. OwnRows /\ TornInv /\ ReverseInv
  BY DEF OwnRows, TornInv, ReverseInv, Half
<1>3. RivalInv /\ DatabaseInv
  BY DEF RivalInv, DatabaseInv, OnlyDoublesAreFatal, Half
<1> QED
  BY <1>1, <1>2, <1>3 DEF IInv

-----------------------------------------------------------------------------
LEMMA LoadInv ==
  ASSUME IInv, NEW c \in Callers, NEW m \in Messages, Load(c, m) PROVE IInv'
<1> USE DEF IInv
<1>1. /\ memory /\ memory' = memory /\ pc[c] = "idle"
      /\ UNCHANGED <<fwd, rev, ts, counter, digits, cleaner, made, torn, now, up, restarts, fatal>>
  BY DEF Load, store, handlers
<1>2. /\ doubled \subseteq doubled' /\ doubled' \subseteq doubled \cup {m}
      /\ (\E d \in Callers : pc[d] # "idle" /\ arg[d] = m) => m \in doubled'
  BY DEF Load, Busy
<1>3. \/ /\ fwd[m] # None
         /\ given' = given \cup {<<m, fwd[m]>>} /\ UNCHANGED <<pc, arg>>
      \/ /\ fwd[m] = None /\ given' = given
         /\ pc' = [pc EXCEPT ![c] = "store"] /\ arg' = [arg EXCEPT ![c] = m]
  BY DEF Load, Give, handlers
<1>4. TypeOK'
  <2>1. /\ pc' \in [Callers -> {"idle", "store", "reverse"}]
        /\ arg' \in [Callers -> Messages \cup {None}]
        /\ \A d \in Callers : pc'[d] # "idle" => arg'[d] \in Messages
    BY <1>3 DEF TypeOK
  <2>2. doubled' \subseteq Messages /\ given' \subseteq Messages \X Rows
    BY <1>2, <1>3 DEF TypeOK
  <2> QED
    BY <1>1, <2>1, <2>2 DEF TypeOK
<1>5. OwnRows' /\ TornInv'
  <2>1. \A p \in given' : Own(p[1], p[2])
    BY <1>1, <1>3 DEF OwnRows
  <2> QED
    BY <1>1, <2>1 DEF OwnRows, TornInv, Half, Own
<1>6. \A d \in Callers : d # c => pc'[d] = pc[d] /\ arg'[d] = arg[d]
  BY <1>3 DEF TypeOK
<1>7. ReverseInv'
  <2>1. Half' = Half
    BY <1>1 DEF Half
  <2> SUFFICES ASSUME NEW n \in Messages, fwd[n] # None
               PROVE  \/ rev[fwd[n]] = n \/ n \in torn \/ Half
                      \/ \E d \in Callers : /\ pc'[d] = "reverse" /\ arg'[d] = n
                                            /\ Row[n, digits[d]] = fwd[n]
    BY <1>1, <2>1, ZenonT(30) DEF ReverseInv
  <2>2. CASE \E d \in Callers : /\ pc[d] = "reverse" /\ arg[d] = n
                                /\ Row[n, digits[d]] = fwd[n]
    <3>1. PICK d \in Callers : /\ pc[d] = "reverse" /\ arg[d] = n
                              /\ Row[n, digits[d]] = fwd[n]
      BY <2>2
    <3>2. pc'[d] = "reverse" /\ arg'[d] = n
      BY <3>1, <1>1, <1>6
    <3> QED
      BY <3>1, <3>2
  <2> QED
    BY <1>1, <2>2 DEF ReverseInv
<1>8. RivalInv'
  <2>1. CASE fwd[m] # None
    BY <2>1, <1>1, <1>2, <1>3 DEF RivalInv, OnlyDoublesAreFatal
  <2>2. CASE fwd[m] = None
    <3>1. pc'[c] = "store" /\ arg'[c] = m
      BY <2>2, <1>3 DEF TypeOK
    <3> QED
      BY <2>2, <1>1, <1>2, <1>6, <3>1 DEF RivalInv, OnlyDoublesAreFatal
  <2> QED
    BY <2>1, <2>2
<1>9. DatabaseInv'
  BY <1>1 DEF DatabaseInv
<1> QED
  BY <1>4, <1>5, <1>7, <1>8, <1>9

LEMMA LoadOrStoreInv ==
  ASSUME IInv, NEW c \in Callers, LoadOrStore(c) PROVE IInv'
<1> DEFINE m == arg[c]
           row == Row[m, digits[c]]
<1> USE DEF IInv
<1>1. /\ pc[c] = "store" /\ fwd[m] = None
      /\ fwd' = [fwd EXCEPT ![m] = row] /\ pc' = [pc EXCEPT ![c] = "reverse"]
      /\ torn' = (IF Half THEN torn \cup {m} ELSE torn)
  BY DEF LoadOrStore, Half
<1>2. UNCHANGED <<memory, rev, ts, counter, arg, digits, cleaner, up, now, restarts, given,
                  made, doubled, fatal>>
  BY DEF LoadOrStore
<1>3. memory
  BY <1>1 DEF DatabaseInv
<1>4. m \in Messages /\ digits[c] \in 1..Attempts
  BY <1>1 DEF TypeOK
<1>5. row \in Rows /\ row # None /\ Own(m, row)
  <2> HIDE DEF m
  <2>1. row \in Rows
    BY <1>4, RowIn
  <2> QED
    BY <1>4, <2>1, NoneNotRow DEF Own
<1> HIDE DEF row
<1>6. fwd'[m] = row /\ \A n \in Messages : n # m => fwd'[n] = fwd[n]
  BY <1>1, <1>4 DEF TypeOK
<1>7. pc'[c] = "reverse" /\ \A d \in Callers : d # c => pc'[d] = pc[d]
  BY <1>1 DEF TypeOK
<1>8. Half' = Half /\ torn \subseteq torn' /\ (Half => m \in torn')
  BY <1>1, <1>2 DEF Half
<1>9. TypeOK'
  <2>1. fwd' \in [Messages -> Rows \cup {None}] /\ pc' \in [Callers -> {"idle", "store", "reverse"}]
    BY <1>1, <1>5 DEF TypeOK
  <2>2. /\ torn' \subseteq Messages
        /\ \A d \in Callers : pc'[d] # "idle" => arg[d] \in Messages
    BY <1>1, <1>4, <1>7 DEF TypeOK
  <2> QED
    BY <2>1, <2>2, <1>2 DEF TypeOK
<1>10. OwnRows'
  <2>1. \A n \in Messages : fwd'[n] # None => Own(n, fwd'[n])
    BY <1>3, <1>5, <1>6 DEF OwnRows
  <2>2. (\A r \in Rows : rev[r] # None => Own(rev[r], r)) /\ \A p \in given : Own(p[1], p[2])
    BY <1>3 DEF OwnRows
  <2> QED
    BY <1>2, <2>1, <2>2 DEF OwnRows, Own
<1>11. TornInv'
  BY <1>2, <1>3, <1>6, <1>8 DEF TornInv
<1>12. ReverseInv'
  <2> SUFFICES ASSUME NEW n \in Messages, fwd'[n] # None
               PROVE  \/ rev[fwd'[n]] = n \/ n \in torn' \/ Half
                      \/ \E d \in Callers : /\ pc'[d] = "reverse" /\ arg[d] = n
                                            /\ Row[n, digits[d]] = fwd'[n]
    BY <1>2, <1>8 DEF ReverseInv
  <2>1. CASE n = m
    BY <2>1, <1>6, <1>7 DEF row
  <2>2. CASE n # m
    <3>1. fwd'[n] = fwd[n] /\ fwd[n] # None
      BY <2>2, <1>6
    <3>2. \A d \in Callers : pc[d] = "reverse" => pc'[d] = "reverse"
      BY <1>7
    <3> QED
      BY <3>1, <3>2, <1>3, <1>8, ZenonT(30) DEF ReverseInv
  <2> QED
    BY <2>1, <2>2
<1>13. RivalInv'
  <2>1. ASSUME NEW d \in Callers, pc'[d] = "store", fwd'[arg[d]] # None PROVE arg[d] \in doubled
    <3>1. d # c /\ pc[d] = "store" /\ arg[d] \in Messages
      BY <2>1, <1>7 DEF TypeOK
    <3>2. CASE arg[d] = m
      BY <3>1, <3>2, <1>1 DEF RivalInv
    <3>3. CASE arg[d] # m
      BY <2>1, <3>1, <3>3, <1>6 DEF RivalInv
    <3> QED
      BY <3>2, <3>3
  <2>2. \A d \in Callers : pc'[d] # "idle" => pc[d] # "idle"
    BY <1>1, <1>7
  <2> QED
    BY <1>2, <2>1, <2>2 DEF RivalInv, OnlyDoublesAreFatal
<1>14. DatabaseInv'
  BY <1>2, <1>3 DEF DatabaseInv
<1> QED
  BY <1>9, <1>10, <1>11, <1>12, <1>13, <1>14

LEMMA MoreDigitsInv ==
  ASSUME IInv, NEW c \in Callers, MoreDigits(c) PROVE IInv'
<1> USE DEF IInv
<1>1. /\ pc[c] = "store" /\ fwd[arg[c]] # None
      /\ UNCHANGED <<memory, fwd, rev, ts, counter, pc, arg, cleaner, now, restarts, given, made,
                     torn, doubled>>
  BY DEF MoreDigits, store
<1>2. \/ digits[c] < Attempts /\ digits' = [digits EXCEPT ![c] = @ + 1] /\ UNCHANGED <<up, fatal>>
      \/ up' = FALSE /\ fatal' = fatal \cup {arg[c]} /\ digits' = digits
  BY DEF MoreDigits
<1>3. memory
  BY <1>1 DEF DatabaseInv
<1>4. arg[c] \in doubled
  BY <1>1 DEF RivalInv
<1>5. fatal' \subseteq doubled
  BY <1>2, <1>4 DEF RivalInv, OnlyDoublesAreFatal
<1>6. TypeOK'
  <2>1. digits' \in [Callers -> 1..Attempts]
    BY <1>2, BoundsAssumption DEF TypeOK
  <2> QED
    BY <1>1, <1>2, <1>5, <2>1 DEF TypeOK
<1>7. OwnRows' /\ TornInv' /\ DatabaseInv'
  BY <1>1, <1>3 DEF OwnRows, TornInv, Half, Own, DatabaseInv
<1>8. \A d \in Callers : pc[d] = "reverse" => digits'[d] = digits[d]
  BY <1>1, <1>2 DEF TypeOK
<1>9. ReverseInv'
  <2>1. Half' = Half
    BY <1>1 DEF Half
  <2> SUFFICES ASSUME NEW n \in Messages, fwd[n] # None
               PROVE  \/ rev[fwd[n]] = n \/ n \in torn \/ Half
                      \/ \E d \in Callers : /\ pc[d] = "reverse" /\ arg[d] = n
                                            /\ Row[n, digits'[d]] = fwd[n]
    BY <1>1, <2>1, ZenonT(30) DEF ReverseInv
  <2>2. CASE \E d \in Callers : /\ pc[d] = "reverse" /\ arg[d] = n
                                /\ Row[n, digits[d]] = fwd[n]
    BY <2>2, <1>8
  <2> QED
    BY <1>3, <2>2 DEF ReverseInv
<1>10. RivalInv'
  BY <1>1, <1>5 DEF RivalInv, OnlyDoublesAreFatal
<1> QED
  BY <1>6, <1>7, <1>9, <1>10

LEMMA StoreReverseInv ==
  ASSUME IInv, NEW c \in Callers, StoreReverse(c) PROVE IInv'
<1> DEFINE m == arg[c]
           row == Row[m, digits[c]]
<1> USE DEF IInv
<1>1. /\ pc[c] = "reverse"
      /\ rev' = [rev EXCEPT ![row] = m] /\ given' = given \cup {<<m, row>>}
      /\ pc' = [pc EXCEPT ![c] = "idle"] /\ arg' = [arg EXCEPT ![c] = None]
      /\ digits' = [digits EXCEPT ![c] = 1]
  BY DEF StoreReverse, Give, Return
<1>2. UNCHANGED <<memory, fwd, ts, counter, cleaner, up, now, restarts, made, torn, doubled, fatal>>
  BY DEF StoreReverse
<1>3. memory
  BY <1>1 DEF DatabaseInv
<1>4. m \in Messages /\ digits[c] \in 1..Attempts
  BY <1>1 DEF TypeOK
<1>5. row \in Rows /\ row # None /\ Own(m, row)
  <2> HIDE DEF m
  <2>1. row \in Rows
    BY <1>4, RowIn
  <2> QED
    BY <1>4, <2>1, NoneNotRow DEF Own
<1> HIDE DEF row
<1>6. rev'[row] = m /\ \A r \in Rows : r # row => rev'[r] = rev[r]
  BY <1>1, <1>5 DEF TypeOK
<1>7. /\ pc'[c] = "idle"
      /\ \A d \in Callers : d # c => pc'[d] = pc[d] /\ arg'[d] = arg[d] /\ digits'[d] = digits[d]
  BY <1>1 DEF TypeOK
<1>8. TypeOK'
  <2>1. rev' \in [Rows -> Messages \cup {None}] /\ given' \subseteq Messages \X Rows
    BY <1>1, <1>4, <1>5 DEF TypeOK
  <2>2. /\ pc' \in [Callers -> {"idle", "store", "reverse"}]
        /\ arg' \in [Callers -> Messages \cup {None}]
        /\ digits' \in [Callers -> 1..Attempts]
    BY <1>1, BoundsAssumption DEF TypeOK
  <2>3. \A d \in Callers : pc'[d] # "idle" => arg'[d] \in Messages
    BY <1>7 DEF TypeOK
  <2> QED
    BY <2>1, <2>2, <2>3, <1>2 DEF TypeOK
<1>9. OwnRows'
  <2>1. \A r \in Rows : rev'[r] # None => Own(rev'[r], r)
    BY <1>3, <1>5, <1>6 DEF OwnRows
  <2>2. \A p \in given' : Own(p[1], p[2])
    BY <1>1, <1>3, <1>5 DEF OwnRows
  <2>3. \A n \in Messages : fwd'[n] # None => Own(n, fwd'[n])
    BY <1>2, <1>3 DEF OwnRows
  <2> QED
    BY <2>1, <2>2, <2>3 DEF OwnRows, Own
<1>10. TornInv'
  BY <1>2 DEF TornInv, Half
<1>11. ReverseInv'
  <2> SUFFICES ASSUME NEW n \in Messages, fwd[n] # None
               PROVE  \/ rev'[fwd[n]] = n \/ n \in torn \/ Half
                      \/ \E d \in Callers : /\ pc'[d] = "reverse" /\ arg'[d] = n
                                            /\ Row[n, digits'[d]] = fwd[n]
    BY <1>2, ZenonT(30) DEF ReverseInv, Half
  <2>1. fwd[n] \in Rows /\ Own(n, fwd[n])
    BY <1>3 DEF TypeOK, OwnRows
  <2>2. fwd[n] = row => n = m
    BY <2>1, <1>4, <1>5, OneOwner
  <2>3. CASE rev[fwd[n]] = n \/ n \in torn \/ Half
    BY <2>1, <2>2, <2>3, <1>6
  <2>4. CASE \E d \in Callers : /\ pc[d] = "reverse" /\ arg[d] = n
                                /\ Row[n, digits[d]] = fwd[n]
    <3>1. PICK d \in Callers : /\ pc[d] = "reverse" /\ arg[d] = n /\ Row[n, digits[d]] = fwd[n]
      BY <2>4
    <3>2. CASE d = c
      BY <3>1, <3>2, <1>6 DEF row
    <3>3. CASE d # c
      BY <3>1, <3>3, <1>7
    <3> QED
      BY <3>2, <3>3
  <2> QED
    BY <2>3, <2>4, <1>3 DEF ReverseInv
<1>12. RivalInv'
  BY <1>2, <1>7 DEF RivalInv, OnlyDoublesAreFatal
<1>13. DatabaseInv'
  BY <1>2, <1>3 DEF DatabaseInv
<1> QED
  BY <1>8, <1>9, <1>10, <1>11, <1>12, <1>13

LEMMA CleanForwardInv ==
  ASSUME IInv, NEW x \in Cleaners, CleanForward(x) PROVE IInv'
<1> USE DEF IInv
<1>1. /\ memory /\ cleaner' = [cleaner EXCEPT ![x] = "half"]
      /\ fwd' = [m \in Messages |-> None] /\ torn' = {}
      /\ UNCHANGED <<memory, rev, ts, counter, pc, arg, digits, up, now, restarts, given, made,
                     doubled, fatal>>
  BY DEF CleanForward, handlers
<1>2. TypeOK'
  BY <1>1 DEF TypeOK
<1>3. \A m \in Messages : fwd'[m] = None
  BY <1>1
<1>4. OwnRows' /\ TornInv' /\ ReverseInv'
  BY <1>1, <1>3 DEF OwnRows, TornInv, ReverseInv, Own
<1>5. \A c \in Callers : pc[c] # "idle" => arg[c] \in Messages
  BY DEF TypeOK
<1>6. RivalInv' /\ DatabaseInv'
  BY <1>1, <1>3, <1>5 DEF RivalInv, DatabaseInv, OnlyDoublesAreFatal
<1> QED
  BY <1>2, <1>4, <1>6

LEMMA CleanReverseInv ==
  ASSUME IInv, NEW x \in Cleaners, CleanReverse(x) PROVE IInv'
<1> USE DEF IInv
<1>1. /\ Half /\ cleaner' = [cleaner EXCEPT ![x] = "wait"]
      /\ rev' = [r \in Rows |-> None]
      /\ UNCHANGED <<memory, fwd, ts, counter, pc, arg, digits, up, now, restarts, given, made,
                     torn, doubled, fatal>>
  BY DEF CleanReverse, handlers, Half
<1>2. memory
  BY <1>1 DEF DatabaseInv
<1>3. TypeOK'
  BY <1>1 DEF TypeOK
<1>4. \A r \in Rows : rev'[r] = None
  BY <1>1
<1>5. OwnRows'
  BY <1>1, <1>4 DEF OwnRows, Own
<1>6. \A m \in Messages : fwd'[m] # None => m \in torn'
  BY <1>1, <1>2 DEF TornInv
<1>7. TornInv' /\ ReverseInv'
  BY <1>6 DEF TornInv, ReverseInv
<1>8. RivalInv' /\ DatabaseInv'
  BY <1>1, <1>2 DEF RivalInv, OnlyDoublesAreFatal, DatabaseInv
<1> QED
  BY <1>3, <1>5, <1>7, <1>8

-----------------------------------------------------------------------------
LEMMA StoreMsgIDInv ==
  ASSUME IInv, NEW m \in Messages, StoreMsgID(m) PROVE IInv'
<1> USE DEF IInv
<1>1. /\ ~memory
      /\ UNCHANGED <<memory, pc, arg, digits, cleaner, up, now, restarts, torn, doubled, fatal>>
  BY DEF StoreMsgID, handlers
<1>2. \A c \in Callers : pc[c] = "idle"
  BY <1>1 DEF DatabaseInv
<1>3. OwnRows' /\ TornInv' /\ ReverseInv' /\ RivalInv'
  BY <1>1, <1>2 DEF OwnRows, TornInv, ReverseInv, RivalInv, OnlyDoublesAreFatal
<1>4. CASE fwd[m] # None
  <2>1. given' = given \cup {<<m, fwd[m]>>} /\ UNCHANGED <<fwd, rev, ts, counter, made>>
    BY <1>4 DEF StoreMsgID, Give, store
  <2>2. fwd[m] \in Rows
    BY <1>4 DEF TypeOK
  <2>3. TypeOK'
    BY <1>1, <2>1, <2>2 DEF TypeOK
  <2>4. DatabaseInv'
    BY <1>1, <1>4, <2>1, <2>2 DEF DatabaseInv, Half
  <2> QED
    BY <1>3, <2>3, <2>4
<1>5. CASE fwd[m] = None
  <2> DEFINE r == counter + 1
  <2>1. /\ r \in Rows /\ counter' = r
        /\ fwd' = [fwd EXCEPT ![m] = r] /\ rev' = [rev EXCEPT ![r] = m]
        /\ ts' = [ts EXCEPT ![r] = now] /\ made' = [made EXCEPT ![r] = now]
        /\ given' = given \cup {<<m, r>>}
    BY <1>5 DEF StoreMsgID, NextRow, Give
  <2>2. /\ r \in 0..MaxRow /\ r # None /\ counter < r
        /\ counter \in Nat /\ now \in Nat /\ m # None
    BY <2>1, NoneNotRow, BoundsAssumption, NoneAssumption DEF TypeOK, Rows
  <2> HIDE DEF r
  <2>3. TypeOK'
    BY <1>1, <2>1, <2>2 DEF TypeOK
  <2>4. /\ fwd'[m] = r /\ \A n \in Messages : n # m => fwd'[n] = fwd[n]
        /\ rev'[r] = m /\ \A q \in Rows : q # r => rev'[q] = rev[q]
        /\ ts'[r] = now /\ \A q \in Rows : q # r => ts'[q] = ts[q]
        /\ made'[r] = now /\ \A q \in Rows : q # r => made'[q] = made[q]
    BY <2>1 DEF TypeOK
  <2>5. \A q \in Rows : q <= counter => q # r /\ q <= r
    BY <2>2, BoundsAssumption DEF Rows
  <2>6. r <= r
    BY <2>1, BoundsAssumption DEF Rows
  <2>7. ASSUME NEW q \in Rows, rev'[q] # None
        PROVE  q <= r /\ fwd'[rev'[q]] = q /\ ts'[q] = made'[q]
    <3>1. CASE q = r
      BY <3>1, <2>4, <2>6
    <3>2. CASE q # r
      <4>1. q <= counter /\ fwd[rev[q]] = q /\ ts[q] = made[q] /\ rev[q] \in Messages
        BY <3>2, <2>4, <2>7, <1>1 DEF DatabaseInv, TypeOK
      <4>2. rev[q] # m
        BY <4>1, <1>5, NoneNotRow
      <4> QED
        BY <3>2, <4>1, <4>2, <2>4, <2>5
    <3> QED
      BY <3>1, <3>2
  <2>8. ASSUME NEW n \in Messages, fwd'[n] # None
        PROVE  rev'[fwd'[n]] = n /\ fwd'[n] <= r /\ made'[fwd'[n]] \in Nat
    <3>1. CASE n = m
      BY <3>1, <2>4, <2>6, <2>2
    <3>2. CASE n # m
      <4>1. fwd'[n] = fwd[n] /\ fwd[n] \in Rows
        BY <3>2, <2>4, <2>8 DEF TypeOK
      <4>2. rev[fwd[n]] = n /\ fwd[n] <= counter /\ made[fwd[n]] \in Nat
        BY <4>1, <2>8, <1>1 DEF DatabaseInv
      <4> QED
        BY <4>1, <4>2, <2>4, <2>5
    <3> QED
      BY <3>1, <3>2
  <2>9. ASSUME NEW p \in given'
        PROVE  /\ p[2] <= r /\ made'[p[2]] \in Nat /\ rev'[p[2]] \in {p[1], None}
               /\ now - made'[p[2]] <= Keep => rev'[p[2]] = p[1]
    <3>1. CASE p = <<m, r>>
      BY <3>1, <2>2, <2>4, <2>6
    <3>2. CASE p \in given
      <4>1. p[2] \in Rows
        BY <3>2 DEF TypeOK
      <4>2. /\ p[2] <= counter /\ made[p[2]] \in Nat /\ rev[p[2]] \in {p[1], None}
            /\ now - made[p[2]] <= Keep => rev[p[2]] = p[1]
        BY <3>2, <1>1 DEF DatabaseInv
      <4> QED
        BY <4>1, <4>2, <2>4, <2>5
    <3> QED
      BY <3>1, <3>2, <2>1
  <2>10. DatabaseInv'
    BY <1>1, <1>2, <2>1, <2>7, <2>8, <2>9 DEF DatabaseInv, Half
  <2> QED
    BY <1>3, <2>3, <2>10
<1> QED
  BY <1>4, <1>5

LEMMA SweepInv ==
  ASSUME IInv, Sweep PROVE IInv'
<1> USE DEF IInv
<1>1. /\ ~memory
      /\ fwd' = [m \in Messages |-> IF \E r \in Expired : rev[r] = m THEN None ELSE fwd[m]]
      /\ rev' = [r \in Rows |-> IF r \in Expired THEN None ELSE rev[r]]
      /\ ts' = [r \in Rows |-> IF r \in Expired THEN None ELSE ts[r]]
      /\ UNCHANGED <<memory, counter, pc, arg, digits, cleaner, up, now, restarts, given, made, torn,
                     doubled, fatal>>
  BY DEF Sweep, handlers
<1>2. \A c \in Callers : pc[c] = "idle"
  BY <1>1 DEF DatabaseInv
<1>3. OwnRows' /\ TornInv' /\ ReverseInv' /\ RivalInv'
  BY <1>1, <1>2 DEF OwnRows, TornInv, ReverseInv, RivalInv, OnlyDoublesAreFatal
<1>4. TypeOK'
  BY <1>1 DEF TypeOK
<1>5. ASSUME NEW r \in Rows, rev'[r] # None
      PROVE  r <= counter /\ fwd'[rev'[r]] = r /\ ts'[r] = made[r]
  <2>1. r \notin Expired /\ rev'[r] = rev[r] /\ ts'[r] = ts[r] /\ rev[r] \in Messages
    BY <1>1, <1>5 DEF TypeOK
  <2>2. r <= counter /\ fwd[rev[r]] = r /\ ts[r] = made[r]
    BY <1>1, <1>5, <2>1 DEF DatabaseInv
  <2>3. ASSUME NEW q \in Expired, rev[q] = rev[r] PROVE FALSE
    <3>1. q \in Rows /\ rev[q] # None
      BY <2>1, <2>3, <1>5 DEF Expired
    <3> QED
      BY <3>1, <2>1, <2>2, <2>3, <1>1 DEF DatabaseInv
  <2> QED
    BY <1>1, <2>1, <2>2, <2>3
<1>6. ASSUME NEW m \in Messages, fwd'[m] # None
      PROVE  rev'[fwd'[m]] = m /\ fwd'[m] <= counter /\ made[fwd'[m]] \in Nat
  <2>1. fwd'[m] = fwd[m] /\ fwd[m] \in Rows /\ \A r \in Expired : rev[r] # m
    BY <1>1, <1>6 DEF TypeOK
  <2>2. rev[fwd[m]] = m /\ fwd[m] <= counter /\ made[fwd[m]] \in Nat
    BY <1>1, <1>6, <2>1 DEF DatabaseInv
  <2> QED
    BY <1>1, <2>1, <2>2
<1>7. ASSUME NEW p \in given
      PROVE  /\ rev'[p[2]] \in {p[1], None}
             /\ now - made[p[2]] <= Keep => rev'[p[2]] = p[1]
  <2>1. p[1] \in Messages /\ p[2] \in Rows
    BY DEF TypeOK
  <2>2. /\ rev[p[2]] \in {p[1], None} /\ made[p[2]] \in Nat
        /\ now - made[p[2]] <= Keep => rev[p[2]] = p[1]
    BY <1>1 DEF DatabaseInv
  <2>3. ASSUME now - made[p[2]] <= Keep PROVE p[2] \notin Expired
    <3>1. ts[p[2]] = made[p[2]]
      BY <2>1, <2>2, <2>3, <1>1, NoneAssumption DEF DatabaseInv
    <3> QED
      BY <3>1, <2>2, <2>3, BoundsAssumption DEF Expired, TypeOK
  <2> QED
    BY <1>1, <2>1, <2>2, <2>3
<1>8. DatabaseInv'
  BY <1>1, <1>2, <1>5, <1>6, <1>7 DEF DatabaseInv, Half
<1> QED
  BY <1>3, <1>4, <1>8

LEMMA TickInv ==
  ASSUME IInv, Tick PROVE IInv'
<1> USE DEF IInv
<1>1. /\ ~memory /\ now < MaxTime /\ now' = now + 1
      /\ UNCHANGED <<memory, fwd, rev, ts, counter, pc, arg, digits, cleaner, up, restarts, given,
                     made, torn, doubled, fatal>>
  BY DEF Tick, store, handlers
<1>2. TypeOK'
  BY <1>1, BoundsAssumption DEF TypeOK
<1>3. OwnRows' /\ TornInv' /\ ReverseInv' /\ RivalInv'
  BY <1>1 DEF OwnRows, TornInv, ReverseInv, RivalInv, OnlyDoublesAreFatal
<1>4. ASSUME NEW p \in given, now' - made[p[2]] <= Keep PROVE rev[p[2]] = p[1]
  <2>1. made[p[2]] \in Nat /\ (now - made[p[2]] <= Keep => rev[p[2]] = p[1])
    BY <1>1 DEF DatabaseInv
  <2> QED
    BY <1>1, <1>4, <2>1, BoundsAssumption DEF TypeOK
<1>5. DatabaseInv'
  BY <1>1, <1>4 DEF DatabaseInv, Half
<1> QED
  BY <1>2, <1>3, <1>5

LEMMA RestartInv ==
  ASSUME IInv, Restart PROVE IInv'
<1> USE DEF IInv
<1>1. /\ restarts < MaxRestarts /\ restarts' = restarts + 1 /\ up' = TRUE /\ torn' = {}
      /\ pc' = [c \in Callers |-> "idle"] /\ arg' = [c \in Callers |-> None]
      /\ digits' = [c \in Callers |-> 1] /\ cleaner' = [x \in Cleaners |-> "wait"]
      /\ UNCHANGED <<memory, now, given, made, doubled, fatal>>
  BY DEF Restart
<1>2. ~Half'
  BY <1>1 DEF Half
<1>3. RivalInv'
  BY <1>1 DEF RivalInv, OnlyDoublesAreFatal
<1>4. CASE memory
  <2>1. /\ fwd' = [m \in Messages |-> None] /\ rev' = [r \in Rows |-> None]
        /\ UNCHANGED <<ts, counter>>
    BY <1>4 DEF Restart
  <2>2. TypeOK'
    BY <1>1, <2>1, BoundsAssumption DEF TypeOK
  <2>3. OwnRows' /\ TornInv' /\ ReverseInv' /\ DatabaseInv'
    BY <1>1, <1>4, <2>1 DEF OwnRows, TornInv, ReverseInv, DatabaseInv, Own
  <2> QED
    BY <1>3, <2>2, <2>3
<1>5. CASE ~memory
  <2>1. UNCHANGED <<fwd, rev, ts, counter>>
    BY <1>5 DEF Restart, store
  <2>2. TypeOK'
    BY <1>1, <2>1, BoundsAssumption DEF TypeOK
  <2>3. OwnRows' /\ TornInv' /\ ReverseInv'
    BY <1>1, <1>5 DEF OwnRows, TornInv, ReverseInv
  <2>4. DatabaseInv'
    BY <1>1, <1>2, <1>5, <2>1 DEF DatabaseInv
  <2> QED
    BY <1>3, <2>2, <2>3, <2>4
<1> QED
  BY <1>4, <1>5

-----------------------------------------------------------------------------
LEMMA StutterInv == ASSUME IInv, UNCHANGED vars PROVE IInv'
<1> USE DEF IInv
<1>1. UNCHANGED <<memory, fwd, rev, ts, counter, pc, arg, digits, cleaner, up, now, restarts, given,
                  made, torn, doubled, fatal>>
  BY DEF vars, store, handlers
<1>2. TypeOK' /\ RivalInv' /\ DatabaseInv'
  BY <1>1 DEF TypeOK, RivalInv, OnlyDoublesAreFatal, DatabaseInv, Half
<1>3. OwnRows' /\ TornInv' /\ ReverseInv'
  BY <1>1 DEF OwnRows, Own, TornInv, ReverseInv, Half
<1> QED
  BY <1>2, <1>3

LEMMA StepInv == ASSUME IInv, [Next]_vars PROVE IInv'
BY LoadInv, LoadOrStoreInv, MoreDigitsInv, StoreReverseInv, CleanForwardInv, CleanReverseInv,
   StoreMsgIDInv, SweepInv, TickInv, RestartInv, StutterInv DEF Next

LEMMA AlwaysInv == Spec => []IInv
BY InitInv, StepInv, PTL DEF Spec

\* Rows stay rows and messages messages, in the maps and in the database, whatever the
\* handlers, the cleaners, the sweep and restarts do.
THEOREM TypeCorrect == Spec => []TypeOK
<1>1. IInv => TypeOK
  BY DEF IInv
<1> QED
  BY <1>1, AlwaysInv, PTL

\* A number that an application holds never comes to name another message: not while
\* handlers and cleaners meet in the maps, and not after a sweep of the database.
THEOREM NeverElsewhere == Spec => []NeverMisdirected
<1>1. ASSUME IInv PROVE NeverMisdirected
  <2> SUFFICES ASSUME NEW p \in given, rev[p[2]] # None PROVE rev[p[2]] = p[1]
    BY DEF NeverMisdirected
  <2>1. p[1] \in Messages /\ p[2] \in Rows /\ rev[p[2]] \in Messages
    BY <1>1 DEF IInv, TypeOK
  <2>2. CASE memory
    BY <2>1, <2>2, <1>1, OneOwner DEF IInv, OwnRows
  <2>3. CASE ~memory
    BY <2>3, <1>1 DEF IInv, DatabaseInv
  <2> QED
    BY <2>2, <2>3
<1> QED
  BY <1>1, AlwaysInv, PTL

\* A message that the memory maps know can be resolved back, or is about to be, unless it
\* was stored between the two halves of a cleaner's work.
THEOREM ResolvableInMemory == Spec => []ResolvableUnlessTorn
<1>1. IInv => ResolvableUnlessTorn
  BY DEF IInv, ReverseInv, ResolvableUnlessTorn, Half
<1> QED
  BY <1>1, AlwaysInv, PTL

\* StoreCacheInMemory runs out of digits, which ends the process, only for a message that
\* two handlers had in hand at the same time.
THEOREM FatalOnlyForDoubles == Spec => []OnlyDoublesAreFatal
<1>1. IInv => OnlyDoublesAreFatal
  BY DEF IInv, RivalInv
<1> QED
  BY <1>1, AlwaysInv, PTL

\* In the database a number resolves for Keep minutes from when it was made, across sweeps
\* and restarts.
THEOREM FreshResolves == Spec => []ResolvesWhileFresh
<1>1. ASSUME IInv PROVE ResolvesWhileFresh
  <2> SUFFICES ASSUME ~memory, NEW p \in given
               PROVE  /\ now - made[p[2]] <= Keep => rev[p[2]] = p[1]
                      /\ rev[p[2]] = p[1] => fwd[p[1]] = p[2] /\ ts[p[2]] = made[p[2]]
    BY DEF ResolvesWhileFresh
  <2>1. p[1] \in Messages /\ p[2] \in Rows
    BY <1>1 DEF IInv, TypeOK
  <2> QED
    BY <1>1, <2>1, NoneAssumption DEF IInv, DatabaseInv
<1> QED
  BY <1>1, AlwaysInv, PTL
=============================================================================
