----------------------------- MODULE ReverseWs ------------------------------
(***************************************************************************)
(* One reverse websocket to a OneBot application (src/wsclient/ws.go): the *)
(* writer goroutine behind writeCh, and for each connection a reader, a    *)
(* heartbeat that also resends what the writer failed to send, and the     *)
(* Reconnect that the reader starts.                                       *)
(*                                                                         *)
(* The fields conn, isReconnecting and sendFailures are shared without a   *)
(* lock.  The writer's append is a load and a store here, so that it can   *)
(* be torn by the heartbeat; slice headers are read whole.                 *)
(*                                                                         *)
(* Abstractions: what the writer stores of a failed event, and resends, is *)
(* {"message": event} in the code, not the event itself; actions of the    *)
(* application are not followed behind recvMessage; the first dial of      *)
(* NewWebSocketClient succeeded; Close has no caller.                      *)
(***************************************************************************)
EXTENDS Integers, Sequences

CONSTANTS
  MaxConns,         \* bound: connections of a behaviour
  Messages,         \* OneBot events to send
  Meta,             \* lifecycle and heartbeat events
  Capacity,         \* of writeCh (5000 in the code)
  MaxRetries,       \* config reconnect_times
  MaxBeats,         \* bound: heartbeats of a behaviour
  DisableErrorChan, \* config disable_error_chan
  QuickDrops        \* whether connections also break before Reconnect has returned

Gens == 1..MaxConns

ASSUME BoundsAssumption ==
  MaxConns \in Nat \ {0} /\ Capacity \in Nat \ {0} /\ MaxRetries \in Nat /\ MaxBeats \in Nat
ASSUME MetaAssumption == Meta \notin Messages
ASSUME FlagsAssumption == DisableErrorChan \in BOOLEAN /\ QuickDrops \subseteq BOOLEAN

VARIABLES
  conn,            \* client.conn, by the number of the connection
  up,              \* connections that are not broken
  isReconnecting,
  writeCh,
  sendFailures,
  writer,          \* the writer: "select", or "store" in the middle of an append
  failed, loaded,  \* the frame it failed to send, the slice it loaded
  reader,          \* handleIncomingMessages of each connection
  cancelled,       \* connections whose context was cancelled
  beat, resend,    \* sendHeartbeat of each connection, what it has to resend
  recon, retries,  \* the Reconnect started by each connection's reader
  toSend,          \* events that are not handed to SendMessage yet
  written,         \* events written to a connection without an error
  beats,           \* bound: heartbeats so far
  quick            \* what it is of QuickDrops

writing    == <<writer, failed, loaded>>
beating    == <<beat, resend, beats>>
connecting == <<recon, retries, isReconnecting, conn>>
network    == <<up, quick>>
vars == <<network, writeCh, sendFailures, writing, reader, cancelled, beating, connecting,
          toSend, written>>

Events == Messages \cup {Meta}

Init == /\ conn = 1 /\ up = {1}
        /\ isReconnecting = FALSE
        /\ writeCh = <<Meta>>
        /\ sendFailures = <<>>
        /\ writer = "select" /\ failed = Meta /\ loaded = <<>>
        /\ reader = [g \in Gens |-> IF g = 1 THEN "reading" ELSE "none"]
        /\ cancelled = {}
        /\ beat = [g \in Gens |-> IF g = 1 THEN "wait" ELSE "none"]
        /\ resend = [g \in Gens |-> <<>>]
        /\ recon = [g \in Gens |-> "none"]
        /\ retries = 0
        /\ toSend = Messages
        /\ written = {}
        /\ beats = 0
        /\ quick \in QuickDrops

-----------------------------------------------------------------------------
\* Definitions whose names begin with M are mutants: a plausible bug each, which
\* the runs are shown to notice.  This one does not block.
MPost(f) == writeCh' = Append(writeCh, f)

\* SendMessage blocks while the channel is full.
Post(f) == Len(writeCh) < Capacity /\ writeCh' = Append(writeCh, f)

Send(m) == /\ m \in toSend
           /\ Post(m)
           /\ toSend' = toSend \ {m}
           /\ UNCHANGED <<network, sendFailures, writing, reader, cancelled, beating, connecting,
                          written>>

\* startWriter: WriteMessage on whatever connection is the client's now.  On a
\* broken one it fails, or the kernel takes the frame and nobody reads it.
Take == /\ writer = "select"
        /\ writeCh # <<>>
        /\ writeCh' = Tail(writeCh)
        /\ UNCHANGED <<network, sendFailures, reader, cancelled, beating, connecting, toSend>>

Write == /\ Take
         /\ written' = written \cup ({Head(writeCh)} \ {Meta})
         /\ UNCHANGED writing

WriteFails == /\ Take
              /\ conn \notin up
              /\ IF DisableErrorChan THEN UNCHANGED writing
                 ELSE /\ writer' = "store"
                      /\ failed' = Head(writeCh)
                      /\ loaded' = sendFailures
              /\ UNCHANGED written

\* Mutants: the writer puts the frame back into its own channel; the list is set
\* anew.
MStoreFailure == /\ writer = "store"
                 /\ Post(failed)
                 /\ writer' = "select" /\ failed' = Meta /\ loaded' = <<>>
                 /\ UNCHANGED <<network, sendFailures, reader, cancelled, beating, connecting,
                                toSend, written>>

MStoreFailureOnly == /\ writer = "store"
                     /\ sendFailures' = <<failed>>
                     /\ writer' = "select" /\ failed' = Meta /\ loaded' = <<>>
                     /\ UNCHANGED <<network, writeCh, reader, cancelled, beating, connecting,
                                    toSend, written>>

StoreFailure == /\ writer = "store"
                /\ sendFailures' = Append(loaded, failed)
                /\ writer' = "select" /\ failed' = Meta /\ loaded' = <<>>
                /\ UNCHANGED <<network, writeCh, reader, cancelled, beating, connecting, toSend,
                               written>>

WriterNext == Write \/ WriteFails \/ StoreFailure

-----------------------------------------------------------------------------
\* handleIncomingMessages: the read fails, the heartbeat is cancelled ...
ReadFails(g) == /\ reader[g] = "reading"
                /\ g \notin up
                /\ reader' = [reader EXCEPT ![g] = "failed"]
                /\ cancelled' = cancelled \cup {g}
                /\ UNCHANGED <<network, writeCh, sendFailures, writing, beating, connecting, toSend,
                               written>>

\* Mutants: Reconnect is always started; only while one is at work.
MStartReconnect(g) ==
  /\ reader[g] = "failed"
  /\ reader' = [reader EXCEPT ![g] = "gone"]
  /\ recon' = [recon EXCEPT ![g] = "begin"]
  /\ UNCHANGED <<network, writeCh, sendFailures, writing, cancelled, beating, retries,
                 isReconnecting, conn, toSend, written>>

MStartReconnectInverted(g) ==
  /\ reader[g] = "failed"
  /\ reader' = [reader EXCEPT ![g] = "gone"]
  /\ recon' = IF isReconnecting THEN [recon EXCEPT ![g] = "begin"] ELSE recon
  /\ UNCHANGED <<network, writeCh, sendFailures, writing, cancelled, beating, retries,
                 isReconnecting, conn, toSend, written>>

\* ... and Reconnect is started, unless one is at work.
StartReconnect(g) ==
  /\ reader[g] = "failed"
  /\ reader' = [reader EXCEPT ![g] = "gone"]
  /\ recon' = IF isReconnecting THEN recon ELSE [recon EXCEPT ![g] = "begin"]
  /\ UNCHANGED <<network, writeCh, sendFailures, writing, cancelled, beating, retries,
                 isReconnecting, conn, toSend, written>>

-----------------------------------------------------------------------------
\* Reconnect

Reconnect(g, at, next) ==
  /\ recon[g] = at
  /\ recon' = [recon EXCEPT ![g] = next]
  /\ UNCHANGED <<quick, sendFailures, writing, toSend, written>>

Begin(g) == /\ Reconnect(g, "begin", "dial")
            /\ isReconnecting' = TRUE
            /\ retries' = 0
            /\ UNCHANGED <<network, writeCh, reader, cancelled, beating, conn>>

DialFails(g) ==
  /\ Reconnect(g, "dial", IF retries + 1 > MaxRetries THEN "gaveup" ELSE "dial")
  /\ retries' = retries + 1
  /\ UNCHANGED <<network, writeCh, reader, cancelled, beating, isReconnecting, conn>>

DialSucceeds(g) ==
  /\ conn < MaxConns
  /\ Reconnect(g, "dial", "announce")
  /\ conn' = conn + 1
  /\ up' = up \cup {conn + 1}
  /\ retries' = 0
  /\ UNCHANGED <<quick, writeCh, reader, cancelled, beating, isReconnecting>>

\* The lifecycle event is sent again.
Announce(g) == /\ Reconnect(g, "announce", "spawn")
               /\ Post(Meta)
               /\ UNCHANGED <<network, reader, cancelled, beating, retries, isReconnecting, conn>>

\* client.cancel ends the last heartbeat; a new heartbeat and a new reader start.
Spawn(g) == /\ Reconnect(g, "spawn", "reset")
            /\ cancelled' = cancelled \cup {conn - 1}
            /\ beat' = [beat EXCEPT ![conn] = "wait"]
            /\ reader' = [reader EXCEPT ![conn] = "reading"]
            /\ UNCHANGED <<network, writeCh, resend, beats, retries, isReconnecting, conn>>

\* The deferred reset, after the new reader was started.
Reset(g) == /\ Reconnect(g, "reset", "none")
            /\ isReconnecting' = FALSE
            /\ UNCHANGED <<network, writeCh, reader, cancelled, beating, retries, conn>>

ReconnectNext(g) == \/ Begin(g) \/ DialFails(g) \/ DialSucceeds(g)
                    \/ Announce(g) \/ Spawn(g) \/ Reset(g)

-----------------------------------------------------------------------------
\* sendHeartbeat

Beat(g, at, next) ==
  /\ beat[g] = at
  /\ beat' = [beat EXCEPT ![g] = next]
  /\ UNCHANGED <<network, writing, reader, cancelled, connecting, toSend, written>>

StopBeating(g) == /\ g \in cancelled
                  /\ Beat(g, "wait", "gone")
                  /\ UNCHANGED <<writeCh, sendFailures, resend, beats>>

\* When the timer and the context are both ready, select picks either.
Tick(g) == /\ beats < MaxBeats
           /\ beats' = beats + 1
           /\ Beat(g, "wait", "send")
           /\ UNCHANGED <<writeCh, sendFailures, resend>>

SendBeat(g) == /\ Beat(g, "send", "load")
               /\ Post(Meta)
               /\ UNCHANGED <<sendFailures, resend, beats>>

\* processFailedMessages: the range is evaluated once, the list cleared at the end.
LoadFailures(g) == /\ Beat(g, "load", "resend")
                   /\ resend' = [resend EXCEPT ![g] = sendFailures]
                   /\ UNCHANGED <<writeCh, sendFailures, beats>>

Resend(g) == /\ resend[g] # <<>>
             /\ Beat(g, "resend", "resend")
             /\ Post(Head(resend[g]))
             /\ resend' = [resend EXCEPT ![g] = Tail(@)]
             /\ UNCHANGED <<sendFailures, beats>>

ClearFailures(g) == /\ resend[g] = <<>>
                    /\ Beat(g, "resend", "wait")
                    /\ sendFailures' = <<>>
                    /\ UNCHANGED <<writeCh, resend, beats>>

BeatNext(g) == \/ StopBeating(g) \/ Tick(g)
               \/ SendBeat(g) \/ LoadFailures(g) \/ Resend(g) \/ ClearFailures(g)

-----------------------------------------------------------------------------
\* The connection breaks.
Break == /\ conn \in up
         /\ quick \/ ~isReconnecting
         /\ up' = up \ {conn}
         /\ UNCHANGED <<quick, writeCh, sendFailures, writing, reader, cancelled, beating,
                        connecting, toSend, written>>

Next == \/ \E m \in Messages : Send(m)
        \/ WriterNext
        \/ \E g \in Gens : \/ ReadFails(g) \/ StartReconnect(g)
                           \/ ReconnectNext(g)
                           \/ BeatNext(g)
        \/ Break

Spec == Init /\ [][Next]_vars

\* Goroutines are scheduled.  Nothing is asked of the network: connections and
\* dials may fail as long as the bounds allow.
Fairness == /\ \A m \in Messages : SF_vars(Send(m))
            /\ WF_vars(WriterNext)
            /\ \A g \in Gens : /\ WF_vars(ReadFails(g) \/ StartReconnect(g))
                               /\ SF_vars(ReconnectNext(g))
                               /\ SF_vars(BeatNext(g))

FairSpec == Spec /\ Fairness

-----------------------------------------------------------------------------
TypeOK ==
  /\ conn \in Gens /\ up \subseteq Gens
  /\ isReconnecting \in BOOLEAN
  /\ writeCh \in Seq(Events) /\ Len(writeCh) <= Capacity
  /\ sendFailures \in Seq(Events)
  /\ writer \in {"select", "store"} /\ failed \in Events /\ loaded \in Seq(Events)
  /\ reader \in [Gens -> {"none", "reading", "failed", "gone"}]
  /\ cancelled \subseteq Gens
  /\ beat \in [Gens -> {"none", "wait", "send", "load", "resend", "gone"}]
  /\ resend \in [Gens -> Seq(Events)]
  /\ recon \in [Gens -> {"none", "begin", "dial", "announce", "spawn", "reset", "gaveup"}]
  /\ retries \in 0..MaxRetries + 1
  /\ toSend \subseteq Messages
  /\ written \subseteq Messages
  /\ beats \in 0..MaxBeats
  /\ quick \in BOOLEAN

AtWork(g)  == recon[g] \in {"begin", "dial", "announce", "spawn", "reset"}
GaveUp     == \E g \in Gens : recon[g] = "gaveup"
Reading(g) == reader[g] \in {"reading", "failed"}

\* The flag keeps reconnects apart although it is read and written without a
\* lock: there is one Reconnect at a time; it only replaces a connection that
\* nobody reads any more; and so there is one reader, on the connection that the
\* writer writes to, and at most one heartbeat that is not cancelled, its own.
OneReconnect ==
  /\ \A g, h \in Gens : AtWork(g) /\ AtWork(h) => g = h
  /\ \A g \in Gens : recon[g] \in {"begin", "dial", "announce", "spawn"} =>
                       \A h \in Gens : ~Reading(h)
  /\ \A g \in Gens : /\ Reading(g) => g = conn
                     /\ beat[g] \notin {"none", "gone"} /\ g \notin cancelled => g = conn

\* Until reconnect_times is used up, the client reads from the application or is
\* on its way to a new connection (readme.md:94, config_template.go:9).
NeverStranded == GaveUp \/ \E g \in Gens : Reading(g) \/ AtWork(g)

\* Where an event is that was not lost.
Kept(m) ==
  LET in(s) == \E k \in 1..Len(s) : s[k] = m
  IN \/ m \in toSend
     \/ in(writeCh) \/ in(sendFailures) \/ in(loaded)
     \/ writer = "store" /\ failed = m
     \/ \E g \in Gens : in(resend[g])
     \/ m \in written

\* With disable_error_chan off, an event whose write failed is only ever lost by a
\* heartbeat that clears the list (ws.go:207), whoever appends, loads or resends
\* meanwhile.
OnlyTheHeartbeatForgets ==
  [][~DisableErrorChan =>
       \A m \in Messages :
         Kept(m) => Kept(m)' \/ \E g \in Gens : beat[g] = "resend" /\ beat'[g] = "wait"]_vars

\* Whoever blocks on the full channel gets through: the writer never waits for
\* those that feed it, and Reconnect is not held up by its own lifecycle event.
SendersReturn ==
  /\ \A m \in Messages : <>(m \notin toSend)
  /\ \A g \in Gens : beat[g] \in {"send", "load", "resend"} ~> beat[g] = "wait"
  /\ (\E g \in Gens : recon[g] = "announce") ~> (\A g \in Gens : recon[g] # "announce")

\* A connection that breaks is replaced, or reconnect_times is used up; but for one
\* that breaks before Reconnect has returned (NeverStranded).
Reconnects == ~quick => []<>(GaveUp \/ (reader[conn] = "reading" /\ conn \in up))
=============================================================================
