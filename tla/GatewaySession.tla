--------------------------- MODULE GatewaySession ---------------------------
(***************************************************************************)
(* One shard's session with the QQ gateway: the session manager that       *)
(* reconnects it (src/botgo/sessions/local, sessions/multi) and the        *)
(* websocket client of each connection (src/botgo/websocket/client).       *)
(*                                                                         *)
(* The session manager's channel holds the session between connections. A  *)
(* connection has three goroutines: newConnect/Listening, the reader that  *)
(* fills messageQueue, and the handler that drains it and goes on draining *)
(* after the connection is closed.  The gateway (external) numbers the     *)
(* events of a session from 1, which is READY, and replays from LastSeq+1  *)
(* on a resume.                                                            *)
(*                                                                         *)
(* Abstractions: heartbeats only matter by their write errors (Break       *)
(* "network"); messageQueue (10000) and closeChan (10) never fill up; the  *)
(* first error in closeChan decides, later ones are never read.            *)
(***************************************************************************)
EXTENDS Integers, Sequences

CONSTANTS
  MaxConns,    \* bound: connections of a behaviour
  MaxSeq,      \* bound: events of a session
  MaxBreaks,   \* bound: failures of a behaviour
  Breaks,      \* the failures that occur
  Recovers,    \* newConnect recovers from a panic: sessions/local does, multi not
  None         \* no session id, no error

\* What ends a connection.
ConnErrors == {"network", "reconnect", "invalid", "timeout", "close", "banned"}

Conns == 1..MaxConns
Seqs  == 0..MaxSeq

ASSUME BoundsAssumption == MaxConns \in Nat \ {0} /\ MaxSeq \in Nat \ {0} /\ MaxBreaks \in Nat
ASSUME BreaksAssumption ==
  Breaks \subseteq {"dial", "write", "network", "reconnect", "invalid",
                    "timeout", "close", "banned"}
ASSUME RecoversAssumption == Recovers \in BOOLEAN
ASSUME NoneAssumption == None \notin Int \cup ConnErrors

VARIABLES
  sessionChan,   \* the manager's channel: sessions to connect
  pc,            \* newConnect of each connection
  param,         \* its argument, which the deferred recover puts back
  session,       \* the client's session: ID and LastSeq
  messageQueue,  \* payloads read and not handled
  reading,       \* the reader goroutine reads
  closeErr,      \* the first error in closeChan
  attached,      \* gateway: the session that the connection carries
  sendNext,      \* gateway: the next event to send on the connection
  emitted,       \* gateway: events of each session, named by its first connection
  valid,         \* gateway: sessions that can be resumed
  handled,       \* history: the events given to the handlers
  running,       \* the process runs
  breaks         \* bound: failures so far

client  == <<session, messageQueue, reading, closeErr>>
gateway == <<attached, sendNext, emitted, valid>>
vars    == <<sessionChan, pc, param, client, gateway, handled, running, breaks>>

NewSession == [id |-> None, seq |-> 0]

Init == /\ sessionChan = <<NewSession>>
        /\ pc = [c \in Conns |-> "unused"]
        /\ param = [c \in Conns |-> NewSession]
        /\ session = [c \in Conns |-> NewSession]
        /\ messageQueue = [c \in Conns |-> <<>>]
        /\ reading = [c \in Conns |-> FALSE]
        /\ closeErr = [c \in Conns |-> None]
        /\ attached = [c \in Conns |-> None]
        /\ sendNext = [c \in Conns |-> 1]
        /\ emitted = [c \in Conns |-> 0]
        /\ valid = {}
        /\ handled = {}
        /\ running = TRUE
        /\ breaks = 0

-----------------------------------------------------------------------------
\* The session manager

At(c, from, to) == /\ running
                   /\ pc[c] = from
                   /\ pc' = [pc EXCEPT ![c] = to]

\* A failure of the environment; a failed heartbeat acts like "reconnect".
Fails(kind) == kind \in Breaks /\ breaks < MaxBreaks /\ breaks' = breaks + 1

\* The send blocks while the channel, of capacity 1, is full.
PutBack(s) == sessionChan = <<>> /\ sessionChan' = <<s>>

\* The loop over the channel (Start, StartShard).
StartConnect(c) ==
  /\ At(c, "unused", "dial")
  /\ \A d \in Conns : d < c => pc[d] # "unused"
  /\ sessionChan # <<>>
  /\ sessionChan' = Tail(sessionChan)
  /\ param' = [param EXCEPT ![c] = Head(sessionChan)]
  /\ session' = [session EXCEPT ![c] = Head(sessionChan)]
  /\ UNCHANGED <<messageQueue, reading, closeErr, gateway, handled, running, breaks>>

\* Definitions whose names begin with M are mutants: a plausible bug each, which
\* the runs are shown to notice.  After a failed dial, this one goes on without
\* a return.
MConnectGoesOn(c) ==
  \/ /\ At(c, "dial", "auth")
     /\ UNCHANGED <<sessionChan, param, client, gateway, handled, running, breaks>>
  \/ /\ At(c, "dial", "auth")
     /\ Fails("dial")
     /\ PutBack(param[c])
     /\ UNCHANGED <<param, client, gateway, handled, running>>

Connect(c) ==
  \/ /\ At(c, "dial", "auth")
     /\ UNCHANGED <<sessionChan, param, client, gateway, handled, running, breaks>>
  \/ /\ At(c, "dial", "gone")
     /\ Fails("dial")
     /\ PutBack(param[c])
     /\ UNCHANGED <<param, client, gateway, handled, running>>

\* Identify: the gateway opens a session, READY is its first event.
Identify(c) ==
  /\ session[c].id = None
  /\ attached' = [attached EXCEPT ![c] = c]
  /\ emitted' = [emitted EXCEPT ![c] = 1]
  /\ valid' = valid \cup {c}
  /\ UNCHANGED <<sendNext, closeErr>>

\* Mutant: asks for the events behind the next one.
MResume(c) ==
  /\ session[c].id \in valid
  /\ attached' = [attached EXCEPT ![c] = session[c].id]
  /\ sendNext' = [sendNext EXCEPT ![c] = session[c].seq + 2]
  /\ UNCHANGED <<closeErr, emitted, valid>>

\* Resume: the gateway continues behind LastSeq, or answers "invalid session".
Resume(c) ==
  /\ session[c].id # None
  /\ IF session[c].id \in valid
     THEN /\ attached' = [attached EXCEPT ![c] = session[c].id]
          /\ sendNext' = [sendNext EXCEPT ![c] = session[c].seq + 1]
          /\ UNCHANGED closeErr
     ELSE /\ closeErr' = [closeErr EXCEPT ![c] = "invalid"]
          /\ UNCHANGED <<attached, sendNext>>
  /\ UNCHANGED <<emitted, valid>>

\* The session id decides; then Listening starts the reader and the handler.
\* When the write fails newConnect returns.
Authenticate(c) ==
  \/ /\ At(c, "auth", "listen")
     /\ Identify(c) \/ Resume(c)
     /\ reading' = [reading EXCEPT ![c] = TRUE]
     /\ UNCHANGED <<sessionChan, param, session, messageQueue, handled, running, breaks>>
  \/ /\ At(c, "auth", "gone")
     /\ Fails("write")
     /\ UNCHANGED <<sessionChan, param, client, gateway, handled, running>>

\* Mutants: every error forbids a resume; a ban is an error like others.
MCanNotResume(err)   == TRUE
MCanNotIdentify(err) == FALSE

\* Unexpected close codes and "invalid session" forbid a resume; network errors,
\* 4009 and the gateway's reconnect request do not.
CanNotResume(err)   == err \in {"invalid", "close"}
CanNotIdentify(err) == err = "banned"

\* Listening returns the error and closes the connection, which ends the reader.
\* newConnect clears the session, or panics; sessions/local recovers and puts
\* its argument back, in sessions/multi the panic ends the process.
ListenStop(c) ==
  /\ closeErr[c] # None
  /\ reading' = [reading EXCEPT ![c] = FALSE]
  /\ IF CanNotIdentify(closeErr[c])
     THEN /\ At(c, "listen", "gone")
          /\ IF Recovers THEN PutBack(param[c]) /\ UNCHANGED running
             ELSE running' = FALSE /\ UNCHANGED sessionChan
          /\ UNCHANGED session
     ELSE /\ At(c, "listen", "requeue")
          /\ session' = IF CanNotResume(closeErr[c])
                        THEN [session EXCEPT ![c] = NewSession] ELSE session
          /\ UNCHANGED <<sessionChan, running>>
  /\ UNCHANGED <<param, messageQueue, closeErr, gateway, handled, breaks>>

\* Mutant: returns without the session.
MRequeue(c) == /\ At(c, "requeue", "gone")
               /\ UNCHANGED <<sessionChan, param, client, gateway, handled, running, breaks>>

\* The handler may have changed the session since.
Requeue(c) == /\ At(c, "requeue", "gone")
              /\ PutBack(session[c])
              /\ UNCHANGED <<param, client, gateway, handled, running, breaks>>

-----------------------------------------------------------------------------
\* The client's goroutines

\* Mutant: saves the sequence number when an event is read.
MReceive(c) ==
  /\ running /\ reading[c]
  /\ attached[c] # None
  /\ sendNext[c] <= emitted[attached[c]]
  /\ messageQueue' = [messageQueue EXCEPT ![c] = Append(@, sendNext[c])]
  /\ session' = [session EXCEPT ![c].seq = sendNext[c]]
  /\ sendNext' = [sendNext EXCEPT ![c] = @ + 1]
  /\ UNCHANGED <<sessionChan, pc, param, reading, closeErr, attached, emitted,
                 valid, handled, running, breaks>>

\* readMessageToQueue
Receive(c) ==
  /\ running /\ reading[c]
  /\ attached[c] # None
  /\ sendNext[c] <= emitted[attached[c]]
  /\ messageQueue' = [messageQueue EXCEPT ![c] = Append(@, sendNext[c])]
  /\ sendNext' = [sendNext EXCEPT ![c] = @ + 1]
  /\ UNCHANGED <<sessionChan, pc, param, session, reading, closeErr, attached, emitted,
                 valid, handled, running, breaks>>

\* Sequence number and session id after the handler took event n.
Saved(c, n) == [id |-> IF n = 1 THEN attached[c] ELSE session[c].id, seq |-> n]

\* listenMessageAndHandle: save the sequence number, take the session id from
\* READY, hand other events to a goroutine of their own.
Handle(c) ==
  /\ running
  /\ messageQueue[c] # <<>>
  /\ session' = [session EXCEPT ![c] = Saved(c, Head(messageQueue[c]))]
  /\ handled' = handled \cup {<<attached[c], Head(messageQueue[c])>>}
  /\ messageQueue' = [messageQueue EXCEPT ![c] = Tail(@)]
  /\ UNCHANGED <<sessionChan, pc, param, reading, closeErr, gateway, running, breaks>>

\* A connection ends.  The gateway's requests leave the reader reading; a
\* read error ends it.  "close" is any close code but 4009 ("timeout"), 4914 and
\* 4915 ("banned").
Break(c, err) ==
  /\ running /\ reading[c]
  /\ closeErr[c] = None
  /\ Fails(err)
  /\ closeErr' = [closeErr EXCEPT ![c] = err]
  /\ reading' = [reading EXCEPT ![c] = err \in {"reconnect", "invalid"}]
  /\ valid' = IF err \in {"invalid", "close", "banned"} THEN valid \ {attached[c]} ELSE valid
  /\ UNCHANGED <<sessionChan, pc, param, session, messageQueue, attached, sendNext,
                 emitted, handled, running>>

\* The gateway: a new event of a session.
Emit(id) ==
  /\ id \in valid
  /\ emitted[id] < MaxSeq
  /\ emitted' = [emitted EXCEPT ![id] = @ + 1]
  /\ UNCHANGED <<sessionChan, pc, param, client, attached, sendNext, valid, handled,
                 running, breaks>>

Manage(c) == StartConnect(c) \/ Connect(c) \/ Authenticate(c) \/ ListenStop(c) \/ Requeue(c)

Next == \E c \in Conns :
          \/ Manage(c)
          \/ Receive(c)
          \/ Handle(c)
          \/ \E err \in ConnErrors : Break(c, err)
          \/ Emit(c)

Spec == Init /\ [][Next]_vars

\* Goroutines are scheduled; the gateway may stay silent.
Fairness == \A c \in Conns : WF_vars(Manage(c)) /\ WF_vars(Receive(c)) /\ WF_vars(Handle(c))

FairSpec == Spec /\ Fairness

-----------------------------------------------------------------------------
Sessions == [id : Conns \cup {None}, seq : Seqs]

TypeOK ==
  /\ sessionChan \in Seq(Sessions)
  /\ pc \in [Conns -> {"unused", "dial", "auth", "listen", "requeue", "gone"}]
  /\ param \in [Conns -> Sessions] /\ session \in [Conns -> Sessions]
  /\ messageQueue \in [Conns -> Seq(1..MaxSeq)]
  /\ reading \in [Conns -> BOOLEAN]
  /\ closeErr \in [Conns -> ConnErrors \cup {None}]
  /\ attached \in [Conns -> Conns \cup {None}]
  /\ sendNext \in [Conns -> 1..MaxSeq + 1]
  /\ emitted \in [Conns -> Seqs]
  /\ valid \subseteq Conns
  /\ handled \subseteq (Conns \cup {None}) \X (1..MaxSeq)
  /\ running \in BOOLEAN
  /\ breaks \in 0..MaxBreaks

Live == {c \in Conns : pc[c] \in {"dial", "auth", "listen", "requeue"}}

\* The session is never connected twice at the same time, whatever connection
\* died when: in the channel or in the hands of one newConnect.
OneConnection == /\ Len(sessionChan) <= 1
                 /\ sessionChan # <<>> => Live = {}
                 /\ \A c, d \in Live : c = d

\* A session that is put back or about to be resumed was never saved ahead of its
\* handlers: events up to LastSeq, which the gateway will not replay, were handled.
Covered(s) == s.id # None => \A n \in 1..s.seq : <<s.id, n>> \in handled

ResumeSkipsNothing == /\ \A c \in Live : Covered(param[c])
                      /\ \A k \in 1..Len(sessionChan) : Covered(sessionChan[k])

\* After the gateway refused the bot (4914, 4915) it is not connected again
\* (local.go:133-137).
StopsWhenBanned ==
  (\E c \in Conns : pc[c] = "gone" /\ closeErr[c] = "banned") =>
    (running => Live = {} /\ sessionChan = <<>>)

\* The shard comes back after every failure.
ComesBack == []<>(\E c \in Conns : pc[c] = "listen")

\* Every event of a session that can still be resumed and whose id the live
\* connection has reaches the handlers, through however many connections it takes.
EventsAreHandled ==
  \A id \in Conns, n \in 1..MaxSeq :
    ((\E c \in Live : session[c].id = id) /\ id \in valid /\ emitted[id] >= n)
      ~> (<<id, n>> \in handled \/ id \notin valid)
=============================================================================
