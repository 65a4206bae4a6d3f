----------------------- MODULE GatewaySessionProofs -------------------------
(* Proofs about the gateway session: one connection at a time, and no event    *)
(* skipped by a resume, for any number of connections, events and failures.    *)
EXTENDS GatewaySession, SequenceTheorems, TLAPS

USE BoundsAssumption, NoneAssumption

\* Before a connection is authenticated it carries no session of the gateway.
Unattached(c) == /\ messageQueue[c] = <<>>
                 /\ sendNext[c] = 1

\* The queue holds the events up to the next one that the gateway sends, and
\* those before the queue were handled.
QueueInv(c) ==
  /\ Len(messageQueue[c]) < sendNext[c]
  /\ \A k \in 1..Len(messageQueue[c]) :
       messageQueue[c][k] = sendNext[c] - Len(messageQueue[c]) - 1 + k
  /\ \A n \in 1..(sendNext[c] - Len(messageQueue[c]) - 1) : <<attached[c], n>> \in handled

ConnInv(c) ==
  /\ pc[c] \in {"unused", "dial", "auth"} => attached[c] = None
  /\ attached[c] = None => Unattached(c)
  /\ attached[c] # None => QueueInv(c)
  /\ attached[c] # None /\ session[c].id # None => session[c].id = attached[c]
  /\ Covered(session[c])
  /\ Covered(param[c])

ChanInv == \A k \in 1..Len(sessionChan) : Covered(sessionChan[k])

IInv == /\ TypeOK
        /\ OneConnection
        /\ ChanInv
        /\ \A c \in Conns : ConnInv(c)

-----------------------------------------------------------------------------
LEMMA SessionShape == /\ NewSession \in Sessions
                      /\ \A s \in Sessions : s.id \in Conns \cup {None} /\ s.seq \in Seqs
BY DEF NewSession, Sessions, Seqs

LEMMA InitInv == Init => IInv
<1> SUFFICES ASSUME Init PROVE IInv
  OBVIOUS
<1> USE DEF Init
<1>1. TypeOK
  BY SessionShape DEF TypeOK, Seqs
<1>2. OneConnection
  BY DEF OneConnection, Live
<1>3. ChanInv
  BY DEF ChanInv, Covered, NewSession
<1>4. \A c \in Conns : ConnInv(c)
  BY DEF ConnInv, Unattached, Covered, NewSession
<1> QED
  BY <1>1, <1>2, <1>3, <1>4 DEF IInv

-----------------------------------------------------------------------------
\* Types

LEMMA ManageType ==
  ASSUME TypeOK, NEW c \in Conns, Manage(c) PROVE TypeOK'
<1> USE DEF TypeOK, client, gateway
<1>1. CASE StartConnect(c)
  <2>1. Head(sessionChan) \in Sessions /\ Tail(sessionChan) \in Seq(Sessions)
    BY <1>1 DEF StartConnect
  <2> QED
    BY <1>1, <2>1 DEF StartConnect, At
<1>2. CASE Connect(c)
  <2>1. CASE At(c, "dial", "auth") /\ UNCHANGED <<sessionChan, param, client, gateway, handled, running, breaks>>
    BY <2>1 DEF At
  <2>2. CASE /\ At(c, "dial", "gone")
             /\ Fails("dial")
             /\ PutBack(param[c])
             /\ UNCHANGED <<param, client, gateway, handled, running>>
    BY <2>2 DEF At, Fails, PutBack
  <2> QED
    BY <1>2, <2>1, <2>2 DEF Connect
<1>3. CASE Authenticate(c)
  <2>1. CASE /\ At(c, "auth", "listen")
             /\ Identify(c)
             /\ reading' = [reading EXCEPT ![c] = TRUE]
             /\ UNCHANGED <<sessionChan, param, session, messageQueue, handled, running, breaks>>
    BY <2>1 DEF At, Identify, Seqs
  <2>2. CASE /\ At(c, "auth", "listen")
             /\ Resume(c)
             /\ reading' = [reading EXCEPT ![c] = TRUE]
             /\ UNCHANGED <<sessionChan, param, session, messageQueue, handled, running, breaks>>
    <3>1. session[c].id \in Conns /\ session[c].seq + 1 \in 1..MaxSeq + 1
      BY <2>2, SessionShape DEF Resume, Seqs
    <3>2. "invalid" \in ConnErrors
      BY DEF ConnErrors
    <3>3. closeErr' \in [Conns -> ConnErrors \cup {None}]
      BY <2>2, <3>2 DEF Resume
    <3>4. /\ attached' = [attached EXCEPT ![c] = session[c].id] \/ attached' = attached
          /\ sendNext' = [sendNext EXCEPT ![c] = session[c].seq + 1] \/ sendNext' = sendNext
      BY <2>2 DEF Resume
    <3>5. attached' \in [Conns -> Conns \cup {None}]
      BY <3>1, <3>4
    <3>6. sendNext' \in [Conns -> 1..MaxSeq + 1]
      BY <3>1, <3>4
    <3> QED
      BY <2>2, <3>3, <3>5, <3>6 DEF At, Resume
  <2>3. CASE /\ At(c, "auth", "gone")
             /\ Fails("write")
             /\ UNCHANGED <<sessionChan, param, client, gateway, handled, running>>
    BY <2>3 DEF At, Fails
  <2> QED
    BY <1>3, <2>1, <2>2, <2>3 DEF Authenticate
<1>4. CASE ListenStop(c)
  <2>1. CASE CanNotIdentify(closeErr[c])
    <3>1. <<param[c]>> \in Seq(Sessions)
      OBVIOUS
    <3>2. sessionChan' \in Seq(Sessions) /\ running' \in BOOLEAN
      BY <1>4, <2>1, <3>1 DEF ListenStop, PutBack
    <3> QED
      BY <1>4, <2>1, <3>2 DEF ListenStop, At
  <2>2. CASE ~CanNotIdentify(closeErr[c])
    <3>1. session' \in [Conns -> Sessions]
      BY <1>4, <2>2, SessionShape DEF ListenStop
    <3> QED
      BY <1>4, <2>2, <3>1 DEF ListenStop, At
  <2> QED
    BY <2>1, <2>2
<1>5. CASE Requeue(c)
  BY <1>5 DEF Requeue, At, PutBack
<1> QED
  BY <1>1, <1>2, <1>3, <1>4, <1>5 DEF Manage

LEMMA SavedType ==
  ASSUME TypeOK, NEW c \in Conns, messageQueue[c] # <<>>
  PROVE  /\ Head(messageQueue[c]) \in 1..MaxSeq
         /\ Tail(messageQueue[c]) \in Seq(1..MaxSeq)
         /\ Saved(c, Head(messageQueue[c])) \in Sessions
<1>1. messageQueue[c] \in Seq(1..MaxSeq)
  BY DEF TypeOK
<1>2. Head(messageQueue[c]) \in 1..MaxSeq /\ Tail(messageQueue[c]) \in Seq(1..MaxSeq)
  BY <1>1, HeadTailProperties
<1>3. attached[c] \in Conns \cup {None} /\ session[c].id \in Conns \cup {None}
  BY SessionShape DEF TypeOK
<1> QED
  BY <1>2, <1>3 DEF Saved, Sessions, Seqs

LEMMA ClientType ==
  ASSUME TypeOK, NEW c \in Conns,
         Receive(c) \/ Handle(c) \/ (\E err \in ConnErrors : Break(c, err)) \/ Emit(c)
  PROVE  TypeOK'
<1> USE DEF TypeOK, client, gateway
<1>1. CASE Receive(c)
  <2>1. attached[c] \in Conns /\ sendNext[c] \in 1..MaxSeq
    BY <1>1 DEF Receive, Seqs
  <2>2. Append(messageQueue[c], sendNext[c]) \in Seq(1..MaxSeq)
    BY <2>1
  <2> QED
    BY <1>1, <2>1, <2>2 DEF Receive
<1>2. CASE Handle(c)
  <2>1. messageQueue[c] # <<>>
    BY <1>2 DEF Handle
  <2> QED
    BY <1>2, <2>1, SavedType, SMTT(30) DEF Handle
<1>3. ASSUME NEW err \in ConnErrors, Break(c, err) PROVE TypeOK'
  BY <1>3 DEF Break, Fails
<1>4. CASE Emit(c)
  BY <1>4 DEF Emit, Seqs
<1> QED
  BY <1>1, <1>2, <1>3, <1>4

-----------------------------------------------------------------------------
\* One connection at a time

\* What the channel holds when it is not empty.
LEMMA FullChannel ==
  ASSUME TypeOK, OneConnection, sessionChan # <<>>
  PROVE  /\ Len(sessionChan) = 1
         /\ Head(sessionChan) = sessionChan[1]
         /\ Tail(sessionChan) = <<>>
<1>1. sessionChan \in Seq(Sessions)
  BY DEF TypeOK
<1>2. Len(sessionChan) = 1
  <2>1. Len(sessionChan) \in Nat \ {0}
    BY <1>1, EmptySeq
  <2>2. Len(sessionChan) <= 1
    BY DEF OneConnection
  <2>3. \A n \in Nat \ {0} : n <= 1 => n = 1
    OBVIOUS
  <2> QED
    BY <2>1, <2>2, <2>3, Zenon
<1>3. Tail(sessionChan) \in Seq(Sessions) /\ Len(Tail(sessionChan)) = 0
  BY <1>1, <1>2, HeadTailProperties
<1>4. Tail(sessionChan) = <<>>
  BY <1>3, EmptySeq
<1> QED
  BY <1>2, <1>4

LEMMA OneConnectionStep ==
  ASSUME TypeOK, OneConnection, NEW c \in Conns, Manage(c) PROVE OneConnection'
<1> USE DEF OneConnection, Live, TypeOK
<1>0. /\ pc \in [Conns -> {"unused", "dial", "auth", "listen", "requeue", "gone"}]
      /\ \A s : Len(<<s>>) = 1
  OBVIOUS
<1>1. CASE StartConnect(c)
  <2>1. sessionChan' = <<>>
    BY <1>1, FullChannel DEF StartConnect
  <2>2. Live = {}
    BY <1>1 DEF StartConnect
  <2>3. \A d \in Conns : d \in Live' => d = c
    BY <1>0, <1>1, <2>2 DEF StartConnect, At
  <2> QED
    BY <2>1, <2>3
<1>2. ASSUME NEW from, NEW to, At(c, from, to), from \in {"dial", "auth", "listen", "requeue"},
             \/ to \in {"dial", "auth", "listen", "requeue"} /\ UNCHANGED sessionChan
             \/ to = "gone" /\ UNCHANGED sessionChan
             \/ to = "gone" /\ \E s : PutBack(s)
      PROVE  OneConnection'
  <2>1. Live' \subseteq Live /\ \A d \in Live : d = c
    BY <1>0, <1>2 DEF At
  <2>2. to = "gone" => Live' = {}
    BY <1>0, <1>2, <2>1 DEF At
  <2>3. sessionChan = <<>>
    BY <1>0, <1>2 DEF At
  <2>4. CASE UNCHANGED sessionChan
    BY <2>1, <2>3, <2>4
  <2>5. ASSUME NEW s, to = "gone", PutBack(s) PROVE OneConnection'
    <3>1. Len(sessionChan') <= 1
      BY <1>0, <2>5 DEF PutBack
    <3> QED
      BY <2>2, <2>5, <3>1
  <2> QED
    BY <1>2, <2>4, <2>5
<1>3. CASE Connect(c)
  BY <1>2, <1>3 DEF Connect
<1>4. CASE Authenticate(c)
  BY <1>2, <1>4 DEF Authenticate
<1>5. CASE ListenStop(c)
  BY <1>2, <1>5 DEF ListenStop
<1>6. CASE Requeue(c)
  BY <1>2, <1>6 DEF Requeue
<1> QED
  BY <1>1, <1>3, <1>4, <1>5, <1>6 DEF Manage
-----------------------------------------------------------------------------
\* No event is skipped

LEMMA StartConnectInv ==
  ASSUME TypeOK, OneConnection, ChanInv, \A d \in Conns : ConnInv(d),
         NEW c \in Conns, StartConnect(c)
  PROVE  ChanInv' /\ \A d \in Conns : ConnInv(d)'
<1> USE DEF StartConnect, At, client, gateway
<1>1. sessionChan[1] = Head(sessionChan) /\ 1 \in 1..Len(sessionChan) /\ sessionChan' = <<>>
  BY FullChannel
<1>2. ChanInv'
  <2>1. \A k \in 1..Len(<<>>) : FALSE
    OBVIOUS
  <2> QED
    BY <1>1, <2>1 DEF ChanInv
<1>3. Covered(Head(sessionChan))
  BY <1>1 DEF ChanInv
<1>4. /\ pc[c] = "unused" /\ pc' = [pc EXCEPT ![c] = "dial"]
      /\ param' = [param EXCEPT ![c] = Head(sessionChan)] /\ param \in [Conns -> Sessions]
      /\ session' = [session EXCEPT ![c] = Head(sessionChan)] /\ session \in [Conns -> Sessions]
      /\ UNCHANGED <<messageQueue, attached, sendNext, handled>>
  BY DEF TypeOK
<1>0. pc \in [Conns -> {"unused", "dial", "auth", "listen", "requeue", "gone"}]
  BY DEF TypeOK
<1>5. ASSUME NEW d \in Conns PROVE ConnInv(d)'
  BY <1>0, <1>3, <1>4, <1>5, SMTT(30) DEF ConnInv, Covered, Unattached, QueueInv
<1> QED
  BY <1>2, <1>5

LEMMA ConnectInv ==
  ASSUME TypeOK, ChanInv, \A d \in Conns : ConnInv(d), NEW c \in Conns, Connect(c)
  PROVE  ChanInv' /\ \A d \in Conns : ConnInv(d)'
<1> USE DEF Connect, At, client, gateway
<1>1. ChanInv'
  <2>1. Covered(param[c])
    BY DEF ConnInv
  <2> QED
    BY <2>1 DEF ChanInv, PutBack, Covered
<1>2. /\ pc[c] = "dial" /\ pc' \in {[pc EXCEPT ![c] = "auth"], [pc EXCEPT ![c] = "gone"]}
      /\ UNCHANGED <<param, session, messageQueue, attached, sendNext, handled>>
  OBVIOUS
<1>3. pc \in [Conns -> {"unused", "dial", "auth", "listen", "requeue", "gone"}]
  BY DEF TypeOK
<1>4. ASSUME NEW d \in Conns PROVE ConnInv(d)'
  BY <1>2, <1>3, <1>4 DEF ConnInv, Covered, Unattached, QueueInv
<1> QED
  BY <1>1, <1>4

LEMMA AuthenticateInv ==
  ASSUME TypeOK, ChanInv, \A d \in Conns : ConnInv(d), NEW c \in Conns, Authenticate(c)
  PROVE  ChanInv' /\ \A d \in Conns : ConnInv(d)'
<1> USE DEF At, client, gateway
<1>1. UNCHANGED <<sessionChan, param, session, messageQueue, handled>>
  BY DEF Authenticate
<1>2. ChanInv'
  BY <1>1 DEF ChanInv, Covered
<1>3. /\ pc[c] = "auth" /\ attached[c] = None /\ Unattached(c)
      /\ pc' \in {[pc EXCEPT ![c] = "listen"], [pc EXCEPT ![c] = "gone"]}
  BY DEF Authenticate, ConnInv
<1>4. ASSUME NEW d \in Conns, d # c PROVE ConnInv(d)'
  BY <1>1, <1>3, <1>4, SMTT(30) DEF Authenticate, Identify, Resume, ConnInv, Covered, Unattached, QueueInv, TypeOK
<1>5. ConnInv(c)'
  <2>1. CASE Identify(c)
    BY <1>1, <1>3, <2>1 DEF Identify, ConnInv, Covered, Unattached, QueueInv, TypeOK
  <2>2. CASE Resume(c)
    BY <1>1, <1>3, <2>2, SessionShape, SMTT(30) DEF Resume, ConnInv, Covered, Unattached, QueueInv, TypeOK, Seqs
  <2>3. CASE UNCHANGED <<attached, sendNext>>
    BY <1>1, <1>3, <2>3 DEF ConnInv, Covered, Unattached, TypeOK
  <2> QED
    BY <2>1, <2>2, <2>3 DEF Authenticate
<1> QED
  BY <1>2, <1>4, <1>5

LEMMA ListenStopInv ==
  ASSUME TypeOK, ChanInv, \A d \in Conns : ConnInv(d), NEW c \in Conns, ListenStop(c)
  PROVE  ChanInv' /\ \A d \in Conns : ConnInv(d)'
<1> USE DEF ListenStop, At, gateway
<1>1. ChanInv'
  <2>1. Covered(param[c])
    BY DEF ConnInv
  <2> QED
    BY <2>1 DEF ChanInv, PutBack, Covered
<1>2. ASSUME NEW d \in Conns PROVE ConnInv(d)'
  <2>1. /\ UNCHANGED <<param, messageQueue, attached, sendNext, handled>>
        /\ pc[c] = "listen" /\ pc' \in {[pc EXCEPT ![c] = "requeue"], [pc EXCEPT ![c] = "gone"]}
    OBVIOUS
  <2>2. CASE UNCHANGED session
    BY <1>2, <2>1, <2>2 DEF ConnInv, Covered, Unattached, QueueInv, TypeOK
  <2>3. CASE session' = [session EXCEPT ![c] = NewSession]
    <3>1. session'[d] = session[d] \/ session'[d].id = None
      BY <2>3 DEF TypeOK, NewSession
    <3> QED
      BY <1>2, <2>1, <3>1, SMTT(30) DEF ConnInv, Covered, Unattached, QueueInv, TypeOK
  <2> QED
    BY <2>2, <2>3
<1> QED
  BY <1>1, <1>2

LEMMA RequeueInv ==
  ASSUME TypeOK, ChanInv, \A d \in Conns : ConnInv(d), NEW c \in Conns, Requeue(c)
  PROVE  ChanInv' /\ \A d \in Conns : ConnInv(d)'
<1> USE DEF Requeue, At, client, gateway
<1>1. ChanInv'
  <2>1. Covered(session[c])
    BY DEF ConnInv
  <2> QED
    BY <2>1 DEF ChanInv, PutBack, Covered
<1>2. ASSUME NEW d \in Conns PROVE ConnInv(d)'
  BY <1>2 DEF ConnInv, Covered, Unattached, QueueInv, TypeOK
<1> QED
  BY <1>1, <1>2

\* An event is read: the queue grows with the sequence number that follows.
LEMMA ReceiveInv ==
  ASSUME TypeOK, ChanInv, \A d \in Conns : ConnInv(d), NEW c \in Conns, Receive(c)
  PROVE  ChanInv' /\ \A d \in Conns : ConnInv(d)'
<1> DEFINE q == messageQueue[c]
<1>1. /\ UNCHANGED <<sessionChan, pc, param, session, attached, handled>>
      /\ attached[c] # None /\ sendNext[c] \in 1..MaxSeq
      /\ messageQueue' = [messageQueue EXCEPT ![c] = Append(q, sendNext[c])]
      /\ sendNext' = [sendNext EXCEPT ![c] = sendNext[c] + 1]
  BY DEF Receive, TypeOK, Seqs
<1>2. ChanInv'
  BY <1>1 DEF ChanInv, Covered
<1>3. ASSUME NEW d \in Conns, d # c PROVE ConnInv(d)'
  BY <1>1, <1>3 DEF ConnInv, Covered, Unattached, QueueInv, TypeOK
<1>4. QueueInv(c)'
  <2>1. q \in Seq(1..MaxSeq) /\ QueueInv(c)
    BY <1>1 DEF TypeOK, ConnInv
  <2>2. /\ Len(Append(q, sendNext[c])) = Len(q) + 1 /\ Len(q) \in Nat
        /\ \A k \in 1..Len(q) : Append(q, sendNext[c])[k] = q[k]
        /\ Append(q, sendNext[c])[Len(q) + 1] = sendNext[c]
    BY <1>1, <2>1
  <2>3. messageQueue'[c] = Append(q, sendNext[c]) /\ sendNext'[c] = sendNext[c] + 1
    BY <1>1 DEF TypeOK
  <2>4. \A k \in 1..Len(q) + 1 : Append(q, sendNext[c])[k] = sendNext[c] - Len(q) - 1 + k
    <3>1. \A k \in 1..Len(q) : q[k] = sendNext[c] - Len(q) - 1 + k
      BY <2>1 DEF QueueInv
    <3> HIDE DEF q
    <3>2. \A k \in 1..Len(q) : Append(q, sendNext[c])[k] = sendNext[c] - Len(q) - 1 + k
      BY <2>2, <3>1, Zenon
    <3>3. Append(q, sendNext[c])[Len(q) + 1] = sendNext[c] - Len(q) - 1 + (Len(q) + 1)
      <4>1. \A l \in Nat, m \in 1..MaxSeq : m = m - l - 1 + (l + 1)
        OBVIOUS
      <4> QED
        BY <1>1, <2>2, <4>1, Zenon
    <3>4. \A l \in Nat : \A k \in 1..l + 1 : k \in 1..l \/ k = l + 1
      OBVIOUS
    <3> QED
      BY <2>2, <3>2, <3>3, <3>4, Zenon
  <2> HIDE DEF q
  <2> QED
    BY <1>1, <2>1, <2>2, <2>3, <2>4, SMTT(30) DEF QueueInv, q
<1>5. ConnInv(c)'
  BY <1>1, <1>4 DEF ConnInv, Covered, Unattached, TypeOK
<1> QED
  BY <1>2, <1>3, <1>5

\* An event is handled: it is the one after those that were handled before, and
\* LastSeq becomes its number.
LEMMA HandleInv ==
  ASSUME TypeOK, ChanInv, \A d \in Conns : ConnInv(d), NEW c \in Conns, Handle(c)
  PROVE  ChanInv' /\ \A d \in Conns : ConnInv(d)'
<1> DEFINE q == messageQueue[c]
<1> DEFINE n == Head(q)
<1>1. /\ q # <<>> /\ q \in Seq(1..MaxSeq) /\ attached[c] # None /\ QueueInv(c)
      /\ UNCHANGED <<sessionChan, pc, param, attached, sendNext>>
      /\ messageQueue' = [messageQueue EXCEPT ![c] = Tail(q)]
      /\ session' = [session EXCEPT ![c] = Saved(c, n)]
      /\ handled' = handled \cup {<<attached[c], n>>}
  BY DEF Handle, gateway, TypeOK, ConnInv, Unattached
<1>2. /\ Len(q) \in Nat \ {0} /\ n = q[1] /\ n \in 1..MaxSeq
      /\ Tail(q) \in Seq(1..MaxSeq) /\ Len(Tail(q)) = Len(q) - 1
      /\ \A k \in 1..Len(Tail(q)) : Tail(q)[k] = q[k+1]
  <2> HIDE DEF q
  <2>1. Len(q) \in Nat \ {0}
    BY <1>1, EmptySeq
  <2>2. /\ n = q[1] /\ n \in 1..MaxSeq
        /\ Tail(q) \in Seq(1..MaxSeq) /\ Len(Tail(q)) = Len(q) - 1
        /\ \A k \in 1..Len(Tail(q)) : Tail(q)[k] = q[k+1]
    BY <1>1, HeadTailProperties
  <2> QED
    BY <2>1, <2>2
<1>3. sendNext[c] \in 1..MaxSeq + 1 /\ n = sendNext[c] - Len(q)
  BY <1>1, <1>2 DEF QueueInv, TypeOK
<1>4. /\ messageQueue'[c] = Tail(q) /\ sendNext'[c] = sendNext[c] /\ attached'[c] = attached[c]
      /\ session'[c] = Saved(c, n)
  BY <1>1 DEF TypeOK
<1> HIDE DEF q, n
<1>5. ChanInv'
  BY <1>1 DEF ChanInv, Covered
<1>6. ASSUME NEW d \in Conns, d # c PROVE ConnInv(d)'
  BY <1>1, <1>6 DEF ConnInv, Covered, Unattached, QueueInv, TypeOK
<1>7. \A m \in 1..n : <<attached[c], m>> \in handled'
  BY <1>1, <1>2, <1>3 DEF QueueInv, q
<1>8. QueueInv(c)'
  <2>1. Len(Tail(q)) < sendNext[c]
    BY <1>1, <1>2, <1>3
  <2>2. \A k \in 1..Len(Tail(q)) : Tail(q)[k] = sendNext[c] - Len(Tail(q)) - 1 + k
    <3>1. \A k \in 1..Len(q) : q[k] = sendNext[c] - Len(q) - 1 + k
      BY <1>1 DEF QueueInv, q
    <3>2. ASSUME NEW k \in 1..Len(Tail(q))
          PROVE  /\ k + 1 \in 1..Len(q)
                 /\ sendNext[c] - Len(q) - 1 + (k + 1) = sendNext[c] - Len(Tail(q)) - 1 + k
      <4>1. \A l \in Nat \ {0}, m \in 1..MaxSeq + 1 : \A i \in 1..l - 1 :
              i + 1 \in 1..l /\ m - l - 1 + (i + 1) = m - (l - 1) - 1 + i
        OBVIOUS
      <4>2. Len(q) \in Nat \ {0} /\ k \in 1..Len(q) - 1 /\ sendNext[c] \in 1..MaxSeq + 1
        BY <1>2, <1>3, Zenon
      <4>3. /\ k + 1 \in 1..Len(q)
            /\ sendNext[c] - Len(q) - 1 + (k + 1) = sendNext[c] - (Len(q) - 1) - 1 + k
        BY <4>1, <4>2, Zenon
      <4> QED
        BY <1>2, <4>3, Zenon
    <3> QED
      BY <1>2, <3>1, <3>2
  <2>3. sendNext[c] - Len(Tail(q)) - 1 = n
    BY <1>2, <1>3
  <2> QED
    BY <1>4, <1>7, <2>1, <2>2, <2>3 DEF QueueInv
<1>9. /\ Saved(c, n).id \in {None, attached[c]}
      /\ Saved(c, n).seq = n
  BY <1>1 DEF Saved, ConnInv
<1>10. ConnInv(c)'
  BY <1>1, <1>4, <1>7, <1>8, <1>9 DEF ConnInv, Covered
<1> QED
  BY <1>5, <1>6, <1>10

LEMMA BreakInv ==
  ASSUME TypeOK, ChanInv, \A d \in Conns : ConnInv(d), NEW c \in Conns,
         (\E err \in ConnErrors : Break(c, err)) \/ Emit(c)
  PROVE  ChanInv' /\ \A d \in Conns : ConnInv(d)'
<1>1. UNCHANGED <<sessionChan, pc, param, session, messageQueue, attached, sendNext, handled>>
  BY DEF Break, Emit, client
<1> QED
  BY <1>1 DEF ChanInv, ConnInv, Covered, Unattached, QueueInv

-----------------------------------------------------------------------------
LEMMA NextInv == IInv /\ [Next]_vars => IInv'
<1> SUFFICES ASSUME IInv, [Next]_vars PROVE IInv'
  OBVIOUS
<1>0. TypeOK /\ OneConnection /\ ChanInv /\ \A d \in Conns : ConnInv(d)
  BY DEF IInv
<1>1. ASSUME NEW c \in Conns, Manage(c) PROVE IInv'
  <2>1. TypeOK' /\ OneConnection'
    BY <1>0, <1>1, ManageType, OneConnectionStep
  <2>2. ChanInv' /\ \A d \in Conns : ConnInv(d)'
    BY <1>0, <1>1, StartConnectInv, ConnectInv, AuthenticateInv, ListenStopInv, RequeueInv
       DEF Manage
  <2> QED
    BY <2>1, <2>2 DEF IInv
<1>2. ASSUME NEW c \in Conns,
             Receive(c) \/ Handle(c) \/ (\E err \in ConnErrors : Break(c, err)) \/ Emit(c)
      PROVE  IInv'
  <2>1. TypeOK'
    BY <1>0, <1>2, ClientType
  <2>2. OneConnection'
    BY <1>0, <1>2 DEF Receive, Handle, Break, Emit, client, OneConnection, Live
  <2>3. ChanInv' /\ \A d \in Conns : ConnInv(d)'
    BY <1>0, <1>2, ReceiveInv, HandleInv, BreakInv
  <2> QED
    BY <2>1, <2>2, <2>3 DEF IInv
<1>3. CASE UNCHANGED vars
  BY <1>0, <1>3 DEF vars, client, gateway, IInv, TypeOK, OneConnection, Live, ChanInv,
                    ConnInv, Covered, Unattached, QueueInv
<1> QED
  BY <1>1, <1>2, <1>3 DEF Next

LEMMA Invariance == Spec => []IInv
BY InitInv, NextInv, PTL DEF Spec

\* The variables keep their types (local.go, multi.go, client.go).
THEOREM TypeCorrect == Spec => []TypeOK
<1>1. IInv => TypeOK
  BY DEF IInv
<1> QED
  BY Invariance, <1>1, PTL

\* However a connection ended, the manager never holds the session twice: one
\* connection at a time, and nothing queued meanwhile (newConnect in local.go and
\* multi.go).
THEOREM NeverTwice == Spec => []OneConnection
<1>1. IInv => OneConnection
  BY DEF IInv
<1> QED
  BY Invariance, <1>1, PTL

\* A resume never skips an event that was not handled, although the old client's
\* handler goes on while newConnect puts its session back (listenMessageAndHandle
\* and saveSeq in client.go).
THEOREM NothingSkipped == Spec => []ResumeSkipsNothing
<1>1. IInv => ResumeSkipsNothing
  BY DEF IInv, ChanInv, ConnInv, ResumeSkipsNothing, Live
<1> QED
  BY Invariance, <1>1, PTL

\* A ban is found while Listening waits, by a reader that reads only then; whoever
\* leaves Listening with it ends the process.
BanInv == running => \A c \in Conns : reading[c] \/ closeErr[c] = "banned" => pc[c] = "listen"

LEMMA BanStep ==
  ASSUME ~Recovers, TypeOK, BanInv, NEW c \in Conns, Manage(c) PROVE BanInv'
<1> SUFFICES ASSUME running', NEW d \in Conns, reading'[d] \/ closeErr'[d] = "banned"
             PROVE  pc'[d] = "listen"
  BY DEF BanInv
<1> USE DEF At, client, gateway
<1>0. running /\ (reading[d] \/ closeErr[d] = "banned" => pc[d] = "listen")
  BY DEF BanInv, Manage, StartConnect, Connect, Authenticate, ListenStop, Requeue
<1>1. CASE StartConnect(c) \/ Connect(c) \/ Requeue(c)
  BY <1>0, <1>1 DEF StartConnect, Connect, Requeue, TypeOK
<1>2. CASE Authenticate(c)
  BY <1>0, <1>2, ZenonT(30) DEF Authenticate, Identify, Resume, TypeOK
<1>3. CASE ListenStop(c)
  <2>1. closeErr[c] # "banned"
    BY <1>3 DEF ListenStop, CanNotIdentify
  <2> QED
    BY <1>0, <1>3, <2>1 DEF ListenStop, CanNotIdentify, TypeOK
<1> QED
  BY <1>1, <1>2, <1>3 DEF Manage

\* Where newConnect does not recover from a panic, a bot that the gateway refuses for good
\* does not come back, whatever other connections and failures came before (sessions/multi).
THEOREM BannedStops == ASSUME ~Recovers PROVE Spec => []StopsWhenBanned
<1>1. Init => BanInv
  <2>1. None # "banned"
    BY DEF ConnErrors
  <2> QED
    BY <2>1 DEF Init, BanInv
<1>2. TypeOK /\ BanInv /\ [Next]_vars => BanInv'
  <2> SUFFICES ASSUME TypeOK, BanInv, [Next]_vars PROVE BanInv'
    OBVIOUS
  <2>1. ASSUME NEW c \in Conns, Receive(c) \/ Handle(c) \/ Emit(c) PROVE BanInv'
    BY <2>1 DEF Receive, Handle, Emit, client, BanInv
  <2>2. ASSUME NEW c \in Conns, NEW err \in ConnErrors, Break(c, err) PROVE BanInv'
    BY <2>2 DEF Break, TypeOK, BanInv
  <2>3. CASE UNCHANGED vars
    BY <2>3 DEF vars, client, gateway, BanInv
  <2> QED
    BY <2>1, <2>2, <2>3, BanStep DEF Next
<1>3. BanInv => StopsWhenBanned
  BY DEF BanInv, StopsWhenBanned
<1>4. IInv => TypeOK
  BY DEF IInv
<1> QED
  BY Invariance, <1>1, <1>2, <1>3, <1>4, PTL DEF Spec
=============================================================================
