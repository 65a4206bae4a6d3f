--------------------------- MODULE ReverseWsProofs ---------------------------
(* Proofs about the reverse websocket: the flag keeps reconnects apart, and    *)
(* only the heartbeat forgets an event, for any number of connections, events, *)
(* heartbeats and dials.                                                       *)
EXTENDS ReverseWs, TLAPS

USE BoundsAssumption, MetaAssumption, FlagsAssumption

Beating(g) == beat[g] \notin {"none", "gone"}

\* A Reconnect holds the flag from its first step on.
FlagInv == /\ \A g, h \in Gens : AtWork(g) /\ AtWork(h) => g = h
           /\ \A g \in Gens : recon[g] \in {"dial", "announce", "spawn", "reset"} => isReconnecting

\* What it replaces: the connection whose reader started it, then nothing.
ReconInv(g) ==
  /\ recon[g] \in {"begin", "dial"} => g = conn /\ reader[g] = "gone"
  /\ recon[g] \in {"announce", "spawn"} => conn = g + 1 /\ beat[conn] = "none"
  /\ recon[g] = "dial" => retries <= MaxRetries
  /\ recon[g] \in {"begin", "dial", "announce", "spawn"} =>
       \A h \in Gens : ~Reading(h) /\ (Beating(h) => h \in cancelled)

\* The goroutines of a connection.
ConnInv(g) ==
  /\ Reading(g) => g = conn
  /\ Beating(g) /\ g \notin cancelled => g = conn
  /\ reader[g] \in {"failed", "gone"} => g \in cancelled
  /\ g > conn => beat[g] = "none"

\* What the writer appends to, and what a heartbeat still has to resend.
FailuresInv == /\ IF writer = "store" THEN sendFailures \in {loaded, <<>>} ELSE loaded = <<>>
               /\ \A g \in Gens : beat[g] # "resend" => resend[g] = <<>>

IInv == /\ TypeOK
        /\ FlagInv
        /\ \A g \in Gens : ReconInv(g) /\ ConnInv(g)
        /\ FailuresInv

-----------------------------------------------------------------------------
LEMMA InitInv == Init => IInv
<1> SUFFICES ASSUME Init PROVE IInv
  OBVIOUS
<1> USE DEF Init
<1>1. TypeOK
  <2>1. /\ <<Meta>> \in Seq(Events) /\ Len(<<Meta>>) = 1
        /\ <<>> \in Seq(Events) /\ Meta \in Events /\ 1 \in Gens
    BY DEF Events, Gens
  <2>2. quick \in BOOLEAN
    OBVIOUS
  <2>3. /\ writeCh \in Seq(Events) /\ Len(writeCh) <= Capacity
        /\ sendFailures \in Seq(Events) /\ loaded \in Seq(Events)
    BY <2>1
  <2>4. resend \in [Gens -> Seq(Events)]
    BY <2>1
  <2>5. /\ reader \in [Gens -> {"none", "reading", "failed", "gone"}]
        /\ beat \in [Gens -> {"none", "wait", "send", "load", "resend", "gone"}]
        /\ recon \in [Gens -> {"none", "begin", "dial", "announce", "spawn", "reset", "gaveup"}]
    OBVIOUS
  <2>6. retries \in 0..MaxRetries + 1 /\ beats \in 0..MaxBeats
    OBVIOUS
  <2> QED
    BY <2>1, <2>2, <2>3, <2>4, <2>5, <2>6 DEF TypeOK
<1>2. FlagInv /\ FailuresInv
  BY DEF FlagInv, AtWork, FailuresInv
<1>3. \A g \in Gens : ReconInv(g) /\ ConnInv(g)
  BY DEF ReconInv, ConnInv, Reading, Beating, Gens
<1> QED
  BY <1>1, <1>2, <1>3 DEF IInv

-----------------------------------------------------------------------------
\* Types

LEMMA PostType ==
  ASSUME writeCh \in Seq(Events), NEW f \in Events, Post(f)
  PROVE  writeCh' \in Seq(Events) /\ Len(writeCh') <= Capacity
BY DEF Post

LEMMA TakeType ==
  ASSUME writeCh \in Seq(Events), Len(writeCh) <= Capacity, Take
  PROVE  /\ writeCh' \in Seq(Events) /\ Len(writeCh') <= Capacity
         /\ Head(writeCh) \in Events
BY DEF Take

LEMMA WriterType ==
  ASSUME TypeOK, WriterNext \/ \E m \in Messages : Send(m)
  PROVE  TypeOK'
<1>1. ASSUME NEW m \in Messages, Send(m) PROVE TypeOK'
  <2>1. writeCh' \in Seq(Events) /\ Len(writeCh') <= Capacity
    BY <1>1, PostType DEF Send, TypeOK, Events
  <2> QED
    BY <1>1, <2>1 DEF Send, TypeOK, network, writing, beating, connecting
<1>2. CASE Write
  BY <1>2, TakeType DEF Write, Take, TypeOK, network, writing, beating, connecting, Events
<1>3. CASE WriteFails
  BY <1>3, TakeType DEF WriteFails, Take, TypeOK, network, writing, beating, connecting
<1>4. CASE StoreFailure
  BY <1>4 DEF StoreFailure, TypeOK, network, beating, connecting, Events
<1> QED
  BY <1>1, <1>2, <1>3, <1>4 DEF WriterNext

LEMMA ReaderType ==
  ASSUME TypeOK, NEW g \in Gens, ReadFails(g) \/ StartReconnect(g)
  PROVE  TypeOK'
BY DEF ReadFails, StartReconnect, TypeOK, network, writing, beating, connecting

LEMMA ReconnectType ==
  ASSUME TypeOK, NEW g \in Gens, ReconInv(g), ReconnectNext(g)
  PROVE  TypeOK'
<1> USE DEF Reconnect, TypeOK, network, writing, beating
<1>1. CASE Begin(g)
  BY <1>1 DEF Begin
<1>2. CASE DialFails(g)
  BY <1>2 DEF DialFails, ReconInv
<1>3. CASE DialSucceeds(g)
  BY <1>3 DEF DialSucceeds, Gens
<1>4. CASE Announce(g)
  BY <1>4, PostType DEF Announce, Events
<1>5. CASE Spawn(g)
  BY <1>5 DEF Spawn, ReconInv, Gens
<1>6. CASE Reset(g)
  BY <1>6 DEF Reset
<1> QED
  BY <1>1, <1>2, <1>3, <1>4, <1>5, <1>6 DEF ReconnectNext

LEMMA BeatType ==
  ASSUME TypeOK, NEW g \in Gens, BeatNext(g)
  PROVE  TypeOK'
<1> USE DEF Beat, TypeOK, network, writing, connecting
<1>1. CASE StopBeating(g)
  BY <1>1 DEF StopBeating
<1>2. CASE Tick(g)
  BY <1>2 DEF Tick
<1>3. CASE SendBeat(g)
  BY <1>3, PostType DEF SendBeat, Events
<1>4. CASE LoadFailures(g)
  BY <1>4 DEF LoadFailures
<1>5. CASE Resend(g)
  <2>1. Head(resend[g]) \in Events /\ Tail(resend[g]) \in Seq(Events)
    BY <1>5 DEF Resend
  <2> QED
    BY <1>5, <2>1, PostType DEF Resend
<1>6. CASE ClearFailures(g)
  BY <1>6 DEF ClearFailures
<1> QED
  BY <1>1, <1>2, <1>3, <1>4, <1>5, <1>6 DEF BeatNext

-----------------------------------------------------------------------------
\* One Reconnect

RecInv == FlagInv /\ \A g \in Gens : ReconInv(g) /\ ConnInv(g)

LEMMA ReaderInv ==
  ASSUME TypeOK, RecInv, NEW g \in Gens, ReadFails(g) \/ StartReconnect(g)
  PROVE  RecInv'
<1> USE DEF RecInv, beating
<1>0. /\ reader \in [Gens -> {"none", "reading", "failed", "gone"}]
      /\ recon \in [Gens -> {"none", "begin", "dial", "announce", "spawn", "reset", "gaveup"}]
  BY DEF TypeOK
<1>1. CASE ReadFails(g)
  <2> USE <1>0, <1>1 DEF ReadFails, connecting
  <2>1. \A h \in Gens : recon[h] \notin {"begin", "dial", "announce", "spawn"}
    BY DEF ReconInv, Reading
  <2>2. FlagInv'
    BY DEF FlagInv, AtWork
  <2>3. ASSUME NEW h \in Gens PROVE ReconInv(h)' /\ ConnInv(h)'
    BY <2>1, <2>3 DEF ReconInv, ConnInv, Reading, Beating
  <2> QED
    BY <2>2, <2>3
<1>2. CASE StartReconnect(g)
  <2> USE <1>0, <1>2 DEF StartReconnect
  <2>1. g = conn /\ g \in cancelled /\ reader[g] = "failed"
    BY DEF ConnInv, Reading
  <2>2. \A h \in Gens : recon[h] \notin {"begin", "dial", "announce", "spawn"}
    BY <2>1 DEF ReconInv, Reading
  <2>3. ~isReconnecting => \A h \in Gens : ~AtWork(h)
    BY <2>2 DEF FlagInv, AtWork
  <2>4. \A h \in Gens : ~Reading(h)'
    BY <2>1 DEF ConnInv, Reading
  <2>5. \A h \in Gens : Beating(h) => h \in cancelled
    BY <2>1 DEF ConnInv
  <2>6. FlagInv'
    BY <2>2, <2>3 DEF FlagInv, AtWork
  <2>7. ASSUME NEW h \in Gens PROVE ReconInv(h)' /\ ConnInv(h)'
    BY <2>1, <2>2, <2>4, <2>5, <2>7 DEF ReconInv, ConnInv, Reading, Beating
  <2> QED
    BY <2>6, <2>7
<1> QED
  BY <1>1, <1>2

LEMMA ReconnectInv ==
  ASSUME TypeOK, RecInv, NEW g \in Gens, ReconnectNext(g)
  PROVE  RecInv'
<1> USE DEF RecInv, Reconnect, beating, network
<1>0. /\ reader \in [Gens -> {"none", "reading", "failed", "gone"}]
      /\ recon \in [Gens -> {"none", "begin", "dial", "announce", "spawn", "reset", "gaveup"}]
      /\ beat \in [Gens -> {"none", "wait", "send", "load", "resend", "gone"}]
      /\ conn \in Gens /\ retries \in Int
  BY DEF TypeOK
<1>1. AtWork(g) /\ \A h \in Gens : h # g => ~AtWork(h)
  BY DEF FlagInv, AtWork, ReconnectNext, Begin, DialFails, DialSucceeds, Announce, Spawn, Reset
<1>2. \A h \in Gens : h # g => recon[h] \in {"none", "gaveup"} /\ recon'[h] = recon[h]
  BY <1>0, <1>1
     DEF AtWork, ReconnectNext, Begin, DialFails, DialSucceeds, Announce, Spawn, Reset
<1>3. FlagInv'
  BY <1>0, <1>1, <1>2
     DEF FlagInv, AtWork, ReconnectNext, Begin, DialFails, DialSucceeds, Announce, Spawn, Reset
<1>4. ASSUME NEW h \in Gens PROVE ReconInv(h)' /\ ConnInv(h)'
  <2> USE <1>0, <1>4
  <2>1. CASE Begin(g)
    BY <1>2, <2>1 DEF Begin, ReconInv, ConnInv, Reading, Beating
  <2>2. CASE DialFails(g)
    BY <1>2, <2>2 DEF DialFails, ReconInv, ConnInv, Reading, Beating
  <2>3. CASE DialSucceeds(g)
    <3>1. g = conn /\ \A j \in Gens : ~Reading(j) /\ (Beating(j) => j \in cancelled)
      BY <2>3 DEF DialSucceeds, ReconInv
    <3>2. conn' \in Gens /\ beat[conn'] = "none"
      BY <2>3 DEF DialSucceeds, ConnInv, Gens
    <3>3. ConnInv(h)'
      <4>1. /\ UNCHANGED <<reader, beat, cancelled>> /\ conn' = conn + 1
            /\ h > conn + 1 => h > conn
        BY <2>3 DEF DialSucceeds, Gens
      <4>2. ConnInv(h) /\ ~Reading(h) /\ (Beating(h) => h \in cancelled)
        BY <3>1
      <4> QED
        BY <4>1, <4>2 DEF ConnInv, Reading, Beating
    <3>4. ReconInv(h)'
      BY <1>2, <2>3, <3>1, <3>2 DEF DialSucceeds, ReconInv, Reading, Beating
    <3> QED
      BY <3>3, <3>4
  <2>4. CASE Announce(g)
    BY <1>2, <2>4 DEF Announce, ReconInv, ConnInv, Reading, Beating
  <2>5. CASE Spawn(g)
    <3>1. \A j \in Gens : ~Reading(j) /\ (Beating(j) => j \in cancelled)
      BY <2>5 DEF Spawn, ReconInv
    <3>2. ConnInv(h)'
      <4>1. conn \in Int /\ h \in Int
        BY DEF Gens
      <4> QED
        BY <2>5, <3>1, <4>1 DEF Spawn, ConnInv, Reading, Beating
    <3>3. ReconInv(h)'
      BY <1>2, <2>5 DEF Spawn, ReconInv
    <3> QED
      BY <3>2, <3>3
  <2>6. CASE Reset(g)
    BY <1>2, <2>6 DEF Reset, ReconInv, ConnInv, Reading, Beating
  <2> QED
    BY <2>1, <2>2, <2>3, <2>4, <2>5, <2>6 DEF ReconnectNext
<1> QED
  BY <1>3, <1>4

LEMMA BeatInv ==
  ASSUME TypeOK, RecInv, NEW g \in Gens, BeatNext(g)
  PROVE  RecInv'
<1> USE DEF RecInv, network
<1>0. beat \in [Gens -> {"none", "wait", "send", "load", "resend", "gone"}]
  BY DEF TypeOK
<1>1. /\ UNCHANGED <<reader, cancelled, recon, retries, isReconnecting, conn>>
      /\ Beating(g)
      /\ \A h \in Gens : /\ Beating(h)' => Beating(h)
                         /\ beat[h] = "none" => beat'[h] = "none"
  BY <1>0 DEF BeatNext, StopBeating, Tick, SendBeat, LoadFailures, Resend, ClearFailures, Beat,
              connecting, Beating
<1>2. FlagInv'
  BY <1>1 DEF FlagInv, AtWork
<1>3. ASSUME NEW h \in Gens PROVE ReconInv(h)' /\ ConnInv(h)'
  <2>1. conn \in Gens
    BY DEF TypeOK
  <2> QED
    BY <1>1, <1>3, <2>1 DEF ReconInv, ConnInv, Reading
<1> QED
  BY <1>2, <1>3

-----------------------------------------------------------------------------
\* The failures

LEMMA FailuresStep ==
  ASSUME IInv, Next PROVE FailuresInv'
<1> USE DEF IInv
<1>0. /\ beat \in [Gens -> {"none", "wait", "send", "load", "resend", "gone"}]
      /\ resend \in [Gens -> Seq(Events)] /\ conn \in Gens
      /\ sendFailures \in Seq(Events) /\ loaded \in Seq(Events)
  BY DEF TypeOK
<1>1. ASSUME NEW m \in Messages, Send(m) PROVE FailuresInv'
  BY <1>1 DEF Send, FailuresInv, writing, beating
<1>2. CASE WriterNext
  BY <1>2 DEF WriterNext, Write, WriteFails, StoreFailure, Take, FailuresInv, writing, beating
<1>3. ASSUME NEW g \in Gens, ReadFails(g) \/ StartReconnect(g) PROVE FailuresInv'
  BY <1>3 DEF ReadFails, StartReconnect, FailuresInv, writing, beating
<1>4. ASSUME NEW g \in Gens, ReconnectNext(g) PROVE FailuresInv'
  <2>1. CASE Spawn(g)
    BY <1>0, <2>1 DEF Spawn, Reconnect, FailuresInv, ReconInv, writing
  <2>2. CASE ~Spawn(g)
    BY <1>4, <2>2 DEF ReconnectNext, Begin, DialFails, DialSucceeds, Announce, Reset, Reconnect,
                      FailuresInv, writing, beating
  <2> QED
    BY <2>1, <2>2
<1>5. ASSUME NEW g \in Gens, BeatNext(g) PROVE FailuresInv'
  BY <1>0, <1>5 DEF BeatNext, StopBeating, Tick, SendBeat, LoadFailures, Resend, ClearFailures,
                    Beat, FailuresInv, writing
<1>6. CASE Break
  BY <1>6 DEF Break, FailuresInv, writing, beating
<1> QED
  BY <1>1, <1>2, <1>3, <1>4, <1>5, <1>6 DEF Next

LEMMA NextInv == IInv /\ [Next]_vars => IInv'
<1> SUFFICES ASSUME IInv, [Next]_vars PROVE IInv'
  OBVIOUS
<1>0. TypeOK /\ RecInv
  BY DEF IInv, RecInv
<1>1. CASE Next
  <2>1. TypeOK' /\ RecInv'
    <3>1. CASE WriterNext \/ \E m \in Messages : Send(m)
      <4>1. UNCHANGED <<reader, cancelled, beat, recon, retries, isReconnecting, conn>>
        BY <3>1 DEF WriterNext, Write, WriteFails, StoreFailure, Take, Send, beating, connecting
      <4> QED
        BY <1>0, <3>1, <4>1, WriterType
           DEF RecInv, FlagInv, AtWork, ReconInv, ConnInv, Reading, Beating
    <3>2. ASSUME NEW g \in Gens, ReadFails(g) \/ StartReconnect(g) PROVE TypeOK' /\ RecInv'
      BY <1>0, <3>2, ReaderType, ReaderInv
    <3>3. ASSUME NEW g \in Gens, ReconnectNext(g) PROVE TypeOK' /\ RecInv'
      BY <1>0, <3>3, ReconnectType, ReconnectInv DEF RecInv
    <3>4. ASSUME NEW g \in Gens, BeatNext(g) PROVE TypeOK' /\ RecInv'
      BY <1>0, <3>4, BeatType, BeatInv
    <3>5. CASE Break
      BY <1>0, <3>5 DEF Break, TypeOK, RecInv, FlagInv, AtWork, ReconInv, ConnInv, Reading,
                        Beating, writing, beating, connecting
    <3> QED
      BY <1>1, <3>1, <3>2, <3>3, <3>4, <3>5 DEF Next
  <2>2. FailuresInv'
    BY <1>1, FailuresStep
  <2> QED
    BY <2>1, <2>2 DEF IInv, RecInv
<1>2. CASE UNCHANGED vars
  BY <1>2 DEF vars, network, writing, beating, connecting, IInv, TypeOK, FlagInv, AtWork,
              ReconInv, ConnInv, Reading, Beating, FailuresInv
<1> QED
  BY <1>1, <1>2

LEMMA Invariance == Spec => []IInv
BY InitInv, NextInv, PTL DEF Spec

\* The variables keep their types, the channel its capacity (ws.go).
THEOREM TypeCorrect == Spec => []TypeOK
<1>1. IInv => TypeOK
  BY DEF IInv
<1> QED
  BY Invariance, <1>1, PTL

\* isReconnecting, without a lock, keeps two Reconnects apart, and a Reconnect from
\* a reader or a live heartbeat of the connection it replaces (ws.go:81-195), for
\* any number of connections that may break at any time.
THEOREM FlagKeepsApart == Spec => []OneReconnect
<1>1. IInv => OneReconnect
  BY DEF IInv, FlagInv, ReconInv, ConnInv, OneReconnect, Beating
<1> QED
  BY Invariance, <1>1, PTL

-----------------------------------------------------------------------------
\* Who forgets an event

In(s, m) == \E k \in 1..Len(s) : s[k] = m

LEMMA InAppend ==
  ASSUME NEW s \in Seq(Events), NEW m, NEW x
  PROVE  In(Append(s, x), x) /\ (In(s, m) => In(Append(s, x), m))
<1>1. Len(Append(s, x)) = Len(s) + 1 /\ Append(s, x)[Len(s) + 1] = x
  OBVIOUS
<1>2. \A k \in 1..Len(s) : Append(s, x)[k] = s[k]
  OBVIOUS
<1> QED
  BY <1>1, <1>2 DEF In

LEMMA InTail ==
  ASSUME NEW s \in Seq(Events), s # <<>>, NEW m, In(s, m)
  PROVE  Head(s) = m \/ In(Tail(s), m)
<1>1. PICK k \in 1..Len(s) : s[k] = m
  BY DEF In
<1>2. CASE k = 1
  BY <1>1, <1>2
<1>3. CASE k # 1
  <2>1. k - 1 \in 1..Len(Tail(s)) /\ Tail(s)[k - 1] = s[k]
    BY <1>3
  <2> QED
    BY <1>1, <2>1 DEF In
<1> QED
  BY <1>2, <1>3

\* Where an event can be, by name; only the parts that a step disturbs matter to it.
Queued(m)  == In(writeCh, m)
Listed(m)  == In(sendFailures, m)
Storing(m) == In(loaded, m) \/ (writer = "store" /\ failed = m)
Resent(m)  == \E g \in Gens : In(resend[g], m)

LEMMA KeptParts ==
  ASSUME NEW m \in Messages
  PROVE  Kept(m) <=> \/ m \in toSend \/ Queued(m) \/ Listed(m) \/ Storing(m) \/ Resent(m)
                     \/ m \in written
BY DEF Kept, In, Queued, Listed, Storing, Resent

LEMMA KeptPartsNext ==
  ASSUME NEW m \in Messages
  PROVE  Kept(m)' <=> \/ m \in toSend' \/ Queued(m)' \/ Listed(m)' \/ Storing(m)' \/ Resent(m)'
                      \/ m \in written'
BY DEF Kept, In, Queued, Listed, Storing, Resent

LEMMA WriterKeeps ==
  ASSUME IInv, NEW m \in Messages, Kept(m),
         (WriterNext /\ ~DisableErrorChan) \/ \E f \in Messages : Send(f)
  PROVE  Kept(m)'
<1> USE KeptParts, KeptPartsNext DEF beating
<1>0. /\ writeCh \in Seq(Events) /\ sendFailures \in Seq(Events) /\ loaded \in Seq(Events)
      /\ m # Meta
  BY DEF IInv, TypeOK
<1>1. ASSUME NEW f \in Messages, Send(f) PROVE Kept(m)'
  BY <1>0, <1>1, InAppend
     DEF Send, Post, Queued, Listed, Storing, Resent, writing
<1>2. CASE Write
  BY <1>0, <1>2, InTail DEF Write, Take, Queued, Listed, Storing, Resent, writing
<1>3. CASE WriteFails /\ ~DisableErrorChan
  <2>1. loaded' = sendFailures /\ writer' = "store" /\ failed' = Head(writeCh)
    BY <1>3 DEF WriteFails
  <2>2. ~Storing(m)
    BY <1>3 DEF WriteFails, Take, Storing, IInv, FailuresInv, In
  <2> QED
    BY <1>0, <1>3, <2>1, <2>2, InTail DEF WriteFails, Take, Queued, Listed, Storing, Resent
<1>4. CASE StoreFailure
  BY <1>0, <1>4, InAppend
     DEF StoreFailure, IInv, FailuresInv, Queued, Listed, Storing, Resent, In
<1> QED
  BY <1>1, <1>2, <1>3, <1>4 DEF WriterNext

LEMMA BeatKeeps ==
  ASSUME IInv, NEW m \in Messages, Kept(m), NEW g \in Gens, BeatNext(g), ~ClearFailures(g)
  PROVE  Kept(m)'
<1> USE KeptParts, KeptPartsNext DEF Beat, writing
<1>0. /\ writeCh \in Seq(Events) /\ resend \in [Gens -> Seq(Events)]
      /\ beat \in [Gens -> {"none", "wait", "send", "load", "resend", "gone"}]
  BY DEF IInv, TypeOK
<1>1. CASE StopBeating(g) \/ Tick(g)
  BY <1>1 DEF StopBeating, Tick, Queued, Listed, Storing, Resent
<1>2. CASE SendBeat(g)
  BY <1>0, <1>2, InAppend DEF SendBeat, Post, Queued, Listed, Storing, Resent
<1>3. CASE LoadFailures(g)
  <2>1. ~In(resend[g], m)
    <3>1. resend[g] = <<>>
      BY <1>3 DEF LoadFailures, IInv, FailuresInv
    <3> QED
      BY <3>1 DEF In
  <2>2. \A h \in Gens \ {g} : resend'[h] = resend[h]
    BY <1>0, <1>3 DEF LoadFailures
  <2>3. Resent(m) => Resent(m)'
    BY <2>1, <2>2 DEF Resent
  <2> QED
    BY <1>3, <2>3 DEF LoadFailures, Queued, Listed, Storing
<1>4. CASE Resend(g)
  <2>1. resend[g] \in Seq(Events) /\ resend'[g] = Tail(resend[g])
    BY <1>0, <1>4 DEF Resend
  <2>2. \A h \in Gens \ {g} : resend'[h] = resend[h]
    BY <1>0, <1>4 DEF Resend
  <2>3. In(resend[g], m) => Queued(m)' \/ In(resend'[g], m)
    BY <1>0, <1>4, <2>1, InTail, InAppend DEF Resend, Post, Queued
  <2>4. Resent(m) => Resent(m)' \/ Queued(m)'
    BY <2>2, <2>3 DEF Resent
  <2>5. Queued(m) => Queued(m)'
    BY <1>0, <1>4, InAppend DEF Resend, Post, Queued
  <2> QED
    BY <1>4, <2>4, <2>5 DEF Resend, Listed, Storing
<1> QED
  BY <1>1, <1>2, <1>3, <1>4 DEF BeatNext

LEMMA OthersKeep ==
  ASSUME IInv, NEW m \in Messages, Kept(m),
         \/ \E g \in Gens : ReadFails(g) \/ StartReconnect(g) \/ ReconnectNext(g)
         \/ Break
  PROVE  Kept(m)'
<1> USE KeptParts, KeptPartsNext DEF Queued, Listed, Storing, Resent, writing, beating
<1>1. ASSUME NEW g \in Gens, ReadFails(g) \/ StartReconnect(g) PROVE Kept(m)'
  BY <1>1 DEF ReadFails, StartReconnect
<1>2. ASSUME NEW g \in Gens, ReconnectNext(g) PROVE Kept(m)'
  <2> USE DEF Reconnect
  <2>1. CASE Announce(g)
    <3>1. writeCh \in Seq(Events)
      BY DEF IInv, TypeOK
    <3> QED
      BY <2>1, <3>1, InAppend DEF Announce, Post
  <2>2. CASE ~Announce(g)
    BY <1>2, <2>2 DEF ReconnectNext, Begin, DialFails, DialSucceeds, Spawn, Reset
  <2> QED
    BY <2>1, <2>2
<1>3. CASE Break
  BY <1>3 DEF Break
<1> QED
  BY <1>1, <1>2, <1>3

\* Whoever loads, appends or resends at the same time, an event whose write failed is
\* lost in one way only: a heartbeat clears the list (ws.go:60-80, 197-208).
THEOREM OnlyOneForgets == Spec => OnlyTheHeartbeatForgets
<1> DEFINE Clears == \E g \in Gens : beat[g] = "resend" /\ beat'[g] = "wait"
           Keeps  == ~DisableErrorChan => \A m \in Messages : Kept(m) => Kept(m)' \/ Clears
<1>1. IInv /\ Next => Keeps
  <2> SUFFICES ASSUME IInv, Next, ~DisableErrorChan, NEW m \in Messages, Kept(m), ~Clears
               PROVE  Kept(m)'
    OBVIOUS
  <2>1. \A g \in Gens : ~ClearFailures(g)
    <3>1. beat \in [Gens -> {"none", "wait", "send", "load", "resend", "gone"}]
      BY DEF IInv, TypeOK
    <3> QED
      BY <3>1 DEF ClearFailures, Beat
  <2> QED
    <3>1. CASE WriterNext \/ \E f \in Messages : Send(f)
      BY <3>1, WriterKeeps
    <3>2. ASSUME NEW g \in Gens, BeatNext(g) PROVE Kept(m)'
      BY <2>1, <3>2, BeatKeeps
    <3>3. CASE Break \/ \E g \in Gens : ReadFails(g) \/ StartReconnect(g) \/ ReconnectNext(g)
      BY <3>3, OthersKeep
    <3> QED
      BY <3>1, <3>2, <3>3 DEF Next
<1>2. UNCHANGED vars => Keeps
  BY DEF vars, writing, beating, Kept
<1> QED
  BY Invariance, <1>1, <1>2, PTL DEF Spec, OnlyTheHeartbeatForgets
=============================================================================
