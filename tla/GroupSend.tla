----------------------------- MODULE GroupSend ------------------------------
(***************************************************************************)
(* Messages to QQ groups: HandleSendGroupMsg (src/handlers) with the       *)
(* counters of msg_seq and the stack of refused active messages that it    *)
(* shares with every other call (src/echo).  QQ refuses a message whose    *)
(* (msg_id, msg_seq) it has seen; an active message, one without msg_id,   *)
(* may be refused with 22009, is stacked, and goes out with the next       *)
(* passive one.                                                            *)
(*                                                                         *)
(* Every call is a goroutine.  A counter is read in one call of echo and   *)
(* written in another.  The stack is a Go slice: who walks over it looks   *)
(* at its backing array while others shift and append.                     *)
(*                                                                         *)
(* A request that is lost, or whose answer is, is sent again by the HTTP   *)
(* client, with the number it had (SetRetryCount, botgo/openapi/v2).       *)
(*                                                                         *)
(* Abstractions: lazy_message_id is on, as only then is the stack walked;  *)
(* which of the recent message ids a call takes is left open; ramdom_seq   *)
(* is off; uploads, which have no number, are one step with their retries; *)
(* slice headers are written whole; other types than "group" are left out. *)
(***************************************************************************)
EXTENDS Integers, Sequences, Functions

CONSTANTS
  Calls,        \* send_group_msg actions
  GroupOf,      \* the group of each call and of each message stacked before
  Items,        \* what each sends
  WithUser,     \* calls that may be passive: they name a user, and no [CQ:active]
  WithEvent,    \* calls that find an event_id when no message id is recent
  Quotes,       \* messages that quote another
  Old,          \* the messages stacked before
  Ids,          \* recent message ids that replies may use
  None,         \* no message id
  AtoPCount,    \* config AtoPCount
  RetryCount,   \* retryCount (3 in the code)
  HttpRetries,  \* SetRetryCount (3 in the code)
  MaxFailures,  \* bound: messages posted and uploads that fail, however often re-sent
  MaxCleanups   \* bound: ticks of the echo cleanup

\* A text, or a picture in one that needs no upload; a text with a picture that is
\* uploaded; then, in the loop over foundItems, what is sent as it is ("single") and
\* what is uploaded first.
Leading  == {"text", "mixed"}
Kinds == Leading \cup {"single", "media"}

Sent     == UNION {{<<c, k>> : k \in DOMAIN Items[c]} : c \in Calls}
Messages == Sent \cup Range(Old)

ASSUME ItemsAssumption ==
  /\ Items \in [Calls -> Seq(Kinds)]
  /\ \A m \in Sent : Items[m[1]][m[2]] \in Leading => m[2] = 1
ASSUME CallsAssumption  ==
  WithUser \subseteq Calls /\ Quotes \subseteq Sent /\ WithEvent \subseteq WithUser
ASSUME BoundsAssumption ==
  /\ AtoPCount \in Nat /\ RetryCount \in Nat \ {0} /\ HttpRetries \in Nat
  /\ MaxFailures \in Nat /\ MaxCleanups \in Nat
ASSUME OldAssumption    == Old \in Seq(Range(Old)) /\ Range(Old) \cap Sent = {}
ASSUME NoneAssumption   == None \notin Ids /\ None \notin Messages

VARIABLES
  heap,        \* the backing arrays of the stack so far
  stack,       \* globalMessageGroupStack.stack: its array and length
  seqOf,       \* globalStringToIntMappingSeq
  pc, id,      \* of each call: where it is, the message id it uses
  n, try, k,   \* ... the counter it read, the retry, the item
  view, i, cur,\* ... the slice it walks over, the index, the message it read there
  msg,         \* the fields of each MessageToCreate: msg_id, msg_seq, event_id
  resp,        \* of each call: the message that resp of the loop is about
  answer,      \* what the application was answered for each message
  attempt,     \* of each call: how often the request under way was sent
  accepted,    \* at QQ: the (msg_id, msg_seq) seen, and what came with them
  delivered,   \* at QQ: the messages delivered
  refused,     \* history: message ids with a msg_seq refused as another message's
  disturbed,   \* history: ids whose numbers were not given by one call at a time
  overlapped,  \* history: calls that walk over a stack which others changed
  cleaner,     \* the echo cleanup
  failures, cleanups

local   == <<pc, id, n, try, k, view, i, cur>>
app     == <<resp, answer>>
qq      == <<attempt, accepted, delivered, refused, failures>>
history == <<disturbed, overlapped>>
cleanup == <<cleaner, cleanups>>
vars    == <<heap, stack, seqOf, local, msg, app, qq, history, cleanup>>

Nothing == [arr |-> 1, len |-> 0]
Blank == [id |-> None, seq |-> 0, event |-> FALSE]

Init ==
  /\ heap = <<Old>>
  /\ stack = [arr |-> 1, len |-> Len(Old)]
  /\ seqOf = [a \in Ids \cup {None} |-> 0]
  /\ pc = [c \in Calls |-> "idle"]
  /\ id = [c \in Calls |-> None]
  /\ n = [c \in Calls |-> 0] /\ try = [c \in Calls |-> 1]
  /\ k = [c \in Calls |-> 1]
  /\ view = [c \in Calls |-> Nothing] /\ i = [c \in Calls |-> 1]
  /\ cur = [c \in Calls |-> None]
  /\ msg = [m \in Messages |-> Blank]
  /\ resp = [c \in Calls |-> None] /\ answer = [m \in Sent |-> None]
  /\ attempt = [c \in Calls |-> 1]
  /\ accepted = {} /\ delivered = {} /\ refused = {}
  /\ disturbed = {} /\ overlapped = {}
  /\ cleaner = "wait"
  /\ failures = 0 /\ cleanups = 0

-----------------------------------------------------------------------------
\* The stack: append and re-slicing as Go does them.  Arrays grow 1, 2, 4, 8.

Cells     == heap[stack.arr]
Cap(h)    == IF h = <<>> THEN 1 ELSE 2 * Len(h)
Stacked   == {Cells[j] : j \in 1..stack.len}
Walking(c) == pc[c] \in {"visit", "stamp", "postOld", "remove", "pushOld"}

\* Whoever else walks over the stack is disturbed by the change.
Disturb(walkers) == overlapped' = overlapped \cup {c \in walkers : Walking(c)}

\* PushGlobalStack.  Who pushes while it walks is not exempt.
PushGlobalStack(m) ==
  /\ IF stack.len < Len(Cells)
     THEN /\ heap' = [heap EXCEPT ![stack.arr][stack.len + 1] = m]
          /\ stack' = [stack EXCEPT !.len = @ + 1]
     ELSE /\ heap' = Append(heap, [j \in 1..Cap(Cells) |->
                                     IF j <= stack.len THEN Cells[j] ELSE m])
          /\ stack' = [arr |-> Len(heap) + 1, len |-> stack.len + 1]
  /\ Disturb(Calls)

\* RemoveFromGlobalStack: what follows the index moves down, in place.
RemoveFromGlobalStack(c, index) ==
  /\ IF index <= stack.len
     THEN /\ heap' = [heap EXCEPT ![stack.arr] =
                        [j \in DOMAIN @ |-> IF j \in index..stack.len - 1 THEN @[j + 1] ELSE @[j]]]
          /\ stack' = [stack EXCEPT !.len = @ - 1]
          /\ Disturb(Calls \ {c})
     ELSE UNCHANGED <<heap, stack, overlapped>>

-----------------------------------------------------------------------------
\* The counters.  A call prepares a message from the moment it reads a counter
\* until the last time it writes it.
Preparing(c) == pc[c] \in {"stamp", "put", "upload", "get", "putAgain", "reput"}
Counter(c)   == IF pc[c] \in {"retry", "reput"} THEN msg[<<c, k[c]>>].id ELSE id[c]

\* GetMappingSeq, by a call that uses message id a.
GetSeq(c, a) ==
  /\ n' = [n EXCEPT ![c] = seqOf[a]]
  /\ disturbed' = disturbed \cup
       {b \in Ids \cap {a} : \E d \in Calls \ {c} : Preparing(d) /\ Counter(d) = b}

PutSeq(c, a) == seqOf' = [seqOf EXCEPT ![a] = n[c] + 1]

-----------------------------------------------------------------------------
\* PostGroupMessage, and what QQ makes of it.

\* The last two are of the transport: nobody knows what QQ made of the request.
Results == {"ok", "22009", "40034025", "error", "deadline", "broken"}
Lost    == {"deadline", "broken"}

Fails(c) == IF attempt[c] = 1 THEN failures < MaxFailures /\ failures' = failures + 1
            ELSE UNCHANGED failures

\* The messages that came with a number.
Seen(a, seq) == {x \in Messages : <<a, seq, x>> \in accepted}

\* Nothing is delivered.  Only what has an event_id has a bad one.
Refuse(c, m, result) ==
  /\ Fails(c)
  /\ result = "40034025" => msg[m].event
  /\ result # "ok"
  /\ UNCHANGED <<accepted, delivered, refused>>

\* The answer to what is delivered may be lost.
Accept(c, m, result) ==
  LET a == msg[m].id
  IN /\ Seen(a, msg[m].seq) = {}
     /\ accepted' = accepted \cup (IF a = None THEN {} ELSE {<<a, msg[m].seq, m>>})
     /\ delivered' = delivered \cup {m}
     /\ \/ result = "ok" /\ UNCHANGED failures
        \/ result \in Lost /\ Fails(c)
     /\ UNCHANGED refused

\* Refused as used: by itself, sent before, or by another.
Repeated(m, result) ==
  LET a == msg[m].id
  IN /\ Seen(a, msg[m].seq) # {}
     /\ result = "error"
     /\ refused' = refused \cup (IF m \in Seen(a, msg[m].seq) THEN {} ELSE {a})
     /\ UNCHANGED <<accepted, delivered, failures>>

Request(c, m, result) == Refuse(c, m, result) \/ Accept(c, m, result) \/ Repeated(m, result)

Pending(c) == pc[c] \in {"postOld", "post", "repost", "retryPost"}
Target(c)  == IF pc[c] = "postOld" THEN cur[c] ELSE <<c, k[c]>>

\* The client sends the same again: msg_id and msg_seq are those of the message, and
\* the caller hears nothing of it.
Resend(c) ==
  /\ Pending(c)
  /\ attempt[c] <= HttpRetries
  /\ \E result \in Lost : Request(c, Target(c), result)
  /\ attempt' = [attempt EXCEPT ![c] = @ + 1]
  /\ UNCHANGED <<heap, stack, seqOf, local, msg, app, history, cleanup>>

\* What the caller hears in the end.
PostGroupMessage(c, m, result) ==
  /\ result \in Lost => attempt[c] > HttpRetries
  /\ Request(c, m, result)
  /\ attempt' = [attempt EXCEPT ![c] = 1]

-----------------------------------------------------------------------------
\* SendStackMessages

AtPc(c, at, next) == pc[c] = at /\ pc' = [pc EXCEPT ![c] = next]

\* The lazy message id, or "2000" when none is recent: then no walk.
Start(c) ==
  /\ \/ /\ AtPc(c, "idle", "visit")
        /\ \E a \in Ids : id' = [id EXCEPT ![c] = a]
        /\ view' = [view EXCEPT ![c] =
                      [stack EXCEPT !.len = IF @ < AtoPCount THEN @ ELSE AtoPCount]]
     \/ AtPc(c, "idle", "item") /\ UNCHANGED <<id, view>>
  /\ UNCHANGED <<heap, stack, seqOf, n, try, k, i, cur, msg, app, qq, history, cleanup>>

NextIndex(c) == i' = [i EXCEPT ![c] = @ + 1]

SkipGroup(c) ==
  /\ AtPc(c, "visit", "visit")
  /\ i[c] <= view[c].len
  /\ GroupOf[heap[view[c].arr][i[c]]] # GroupOf[c]
  /\ NextIndex(c)
  /\ UNCHANGED <<heap, stack, seqOf, id, n, try, k, view, cur, msg, app, qq, history, cleanup>>

Visit(c) ==
  /\ AtPc(c, "visit", "stamp")
  /\ i[c] <= view[c].len
  /\ cur' = [cur EXCEPT ![c] = heap[view[c].arr][i[c]]]
  /\ GroupOf[cur'[c]] = GroupOf[c]
  /\ GetSeq(c, id[c])
  /\ UNCHANGED <<heap, stack, seqOf, id, try, k, view, i, msg, app, qq, overlapped, cleanup>>

\* Definitions whose names begin with M are mutants: a plausible bug each, which
\* the runs are shown to notice.  This one does not write the counter.
MStamp(c) ==
  /\ AtPc(c, "stamp", "postOld")
  /\ msg' = [msg EXCEPT ![cur[c]].id = id[c], ![cur[c]].seq = n[c] + 1]
  /\ UNCHANGED <<heap, stack, seqOf, id, n, try, k, view, i, cur, app, qq, history, cleanup>>

\* The message itself is stamped: another walk may be about to post it.
Stamp(c) ==
  /\ AtPc(c, "stamp", "postOld")
  /\ PutSeq(c, id[c])
  /\ msg' = [msg EXCEPT ![cur[c]].id = id[c], ![cur[c]].seq = n[c] + 1]
  /\ UNCHANGED <<heap, stack, id, n, try, k, view, i, cur, app, qq, history, cleanup>>

\* Mutant: what was posted leaves the stack, whatever QQ answers.
MPostOld(c) ==
  pc[c] = "postOld" /\ \E result \in Results :
    /\ PostGroupMessage(c, cur[c], result)
    /\ AtPc(c, "postOld", "remove")
    /\ UNCHANGED <<heap, stack, seqOf, id, n, try, k, view, i, cur, msg, app, history, cleanup>>

PostOld(c) ==
  pc[c] = "postOld" /\ \E result \in Results :
    /\ PostGroupMessage(c, cur[c], result)
    /\ AtPc(c, "postOld", CASE result = "ok" -> "remove" [] result = "22009" -> "pushOld"
                             [] OTHER -> "visit")
    /\ IF result \in {"ok", "22009"} THEN UNCHANGED i ELSE NextIndex(c)
    /\ UNCHANGED <<heap, stack, seqOf, id, n, try, k, view, cur, msg, app, history, cleanup>>

Remove(c) ==
  /\ AtPc(c, "remove", "visit")
  /\ RemoveFromGlobalStack(c, i[c])
  /\ NextIndex(c)
  /\ UNCHANGED <<seqOf, id, n, try, k, view, cur, msg, app, qq, disturbed, cleanup>>

PushOld(c) ==
  /\ AtPc(c, "pushOld", "visit")
  /\ PushGlobalStack(cur[c])
  /\ NextIndex(c)
  /\ UNCHANGED <<seqOf, id, n, try, k, view, cur, msg, app, qq, disturbed, cleanup>>

\* Without a user the message itself is active after all.
EndWalk(c) ==
  /\ AtPc(c, "visit", "item")
  /\ i[c] > view[c].len
  /\ id' = [id EXCEPT ![c] = IF c \in WithUser THEN @ ELSE None]
  /\ view' = [view EXCEPT ![c] = Nothing] /\ i' = [i EXCEPT ![c] = 1]
  /\ cur' = [cur EXCEPT ![c] = None]
  /\ overlapped' = overlapped \ {c}
  /\ UNCHANGED <<heap, stack, seqOf, n, try, k, msg, app, qq, disturbed, cleanup>>

StackNext(c) == \/ Start(c) \/ SkipGroup(c) \/ Visit(c) \/ Stamp(c) \/ PostOld(c)
                \/ Remove(c) \/ PushOld(c) \/ EndWalk(c)

-----------------------------------------------------------------------------
\* The items of a call.  What a step does not touch of its own call:
keepWalk == <<id, view, i, cur>>

\* SendResponse: the status is "ok" whatever the error, which only the text shows;
\* the message id is that of resp, or a constant.  The next item is due.
Answer(c, error, names) ==
  /\ answer' = [answer EXCEPT ![<<c, k[c]>>] =
                   [status |-> "ok", error |-> error, names |-> names]]
  /\ resp' = [resp EXCEPT ![c] = IF Items[c][k[c]] \in Leading THEN None ELSE names]
  /\ k' = [k EXCEPT ![c] = @ + 1]
  /\ try' = [try EXCEPT ![c] = 1]

AnswerError(c) == Answer(c, TRUE, None)
AnswerSent(c)  == Answer(c, FALSE, <<c, k[c]>>)

BeginItem(c) ==
  /\ AtPc(c, "item", "put")
  /\ k[c] <= Len(Items[c])
  /\ GetSeq(c, id[c])
  /\ UNCHANGED <<heap, stack, seqOf, keepWalk, try, k, msg, app, qq, overlapped, cleanup>>

\* No message could be made of the item: the call returns without an answer, or goes
\* on with the next item if the loop does not know the kind.
Abandon(c) ==
  /\ AtPc(c, "put", "done")
  /\ PutSeq(c, id[c])
  /\ UNCHANGED <<heap, stack, keepWalk, n, try, k, msg, app, qq, history, cleanup>>

SkipItem(c) ==
  /\ AtPc(c, "put", "item")
  /\ Items[c][k[c]] \notin Leading
  /\ PutSeq(c, id[c])
  /\ k' = [k EXCEPT ![c] = @ + 1]
  /\ UNCHANGED <<heap, stack, keepWalk, n, try, msg, app, qq, history, cleanup>>

Done(c) ==
  /\ AtPc(c, "item", "done")
  /\ k[c] > Len(Items[c])
  /\ UNCHANGED <<heap, stack, seqOf, keepWalk, n, try, k, msg, app, qq, history, cleanup>>

Message(c, a, seq) == [id |-> a, seq |-> seq, event |-> c \in WithEvent /\ id[c] = None]

\* What quotes a message is sent under the quoted message's id, with the counter of
\* the other.
PutText(c) ==
  /\ AtPc(c, "put", "post")
  /\ Items[c][k[c]] \in {"text", "single"}
  /\ PutSeq(c, id[c])
  /\ \E a \in IF <<c, k[c]>> \in Quotes THEN Ids \cup {id[c]} ELSE {id[c]} :
       /\ msg' = [msg EXCEPT ![<<c, k[c]>>] = Message(c, a, n[c] + 1)]
       /\ disturbed' = disturbed \cup ({a} \ {id[c]})
  /\ UNCHANGED <<heap, stack, keepWalk, n, try, k, app, qq, overlapped, cleanup>>

\* The number read for the upload is not used.
PutUpload(c) ==
  /\ AtPc(c, "put", "upload")
  /\ Items[c][k[c]] \in {"mixed", "media"}
  /\ PutSeq(c, id[c])
  /\ UNCHANGED <<heap, stack, keepWalk, n, try, k, msg, app, qq, history, cleanup>>

Uploaded(c) ==
  /\ AtPc(c, "upload", "get")
  /\ UNCHANGED <<heap, stack, seqOf, keepWalk, n, try, k, msg, app, qq, history, cleanup>>

\* After its last try.  With a text to go with it the call ends without an answer;
\* else the answer names what resp is about, of an item before this one.
UploadFails(c) ==
  /\ failures < MaxFailures /\ failures' = failures + 1
  /\ \/ AtPc(c, "upload", "item") /\ Items[c][k[c]] = "media" /\ Answer(c, TRUE, resp[c])
     \/ AtPc(c, "upload", "done") /\ Items[c][k[c]] = "mixed" /\ UNCHANGED <<app, k, try>>
  /\ UNCHANGED <<heap, stack, seqOf, keepWalk, n, msg, attempt, accepted, delivered, refused,
                 history, cleanup>>

\* No error, and no file_info: nothing is posted, and no error answered.
UploadedNothing(c) ==
  /\ AtPc(c, "upload", "item")
  /\ Items[c][k[c]] = "media"
  /\ Answer(c, FALSE, resp[c])
  /\ UNCHANGED <<heap, stack, seqOf, keepWalk, n, msg, qq, history, cleanup>>

GetAgain(c) ==
  /\ AtPc(c, "get", "putAgain")
  /\ GetSeq(c, id[c])
  /\ UNCHANGED <<heap, stack, seqOf, keepWalk, try, k, msg, app, qq, overlapped, cleanup>>

\* It is sent with the number read, not with the one written.
PutAgain(c) ==
  /\ AtPc(c, "putAgain", "post")
  /\ PutSeq(c, id[c])
  /\ msg' = [msg EXCEPT ![<<c, k[c]>>] = Message(c, id[c], n[c])]
  /\ UNCHANGED <<heap, stack, keepWalk, n, try, k, app, qq, history, cleanup>>

PrepareNext(c) == \/ BeginItem(c) \/ Done(c) \/ Abandon(c) \/ SkipItem(c) \/ PutText(c)
                  \/ PutUpload(c) \/ Uploaded(c) \/ UploadFails(c) \/ UploadedNothing(c)
                  \/ GetAgain(c) \/ PutAgain(c)

-----------------------------------------------------------------------------
\* Posting an item, and what follows each answer of QQ.

Post(c) ==
  pc[c] = "post" /\ \E result \in Results :
    /\ PostGroupMessage(c, <<c, k[c]>>, result)
    /\ AtPc(c, "post", CASE result = "22009" -> "push" [] result = "40034025" -> "repost"
                          [] result = "deadline" -> "retry" [] OTHER -> "item")
    /\ CASE result = "ok" -> AnswerSent(c)
         [] result \in {"error", "broken"} -> AnswerError(c)
         [] OTHER -> UNCHANGED <<app, k, try>>
    /\ msg' = [msg EXCEPT ![<<c, k[c]>>].event = @ /\ result # "40034025"]
    /\ UNCHANGED <<heap, stack, seqOf, keepWalk, n, history, cleanup>>

\* 22009: kept for the next passive message, and answered as an error.
Push(c) ==
  /\ AtPc(c, "push", "item")
  /\ PushGlobalStack(<<c, k[c]>>)
  /\ AnswerError(c)
  /\ UNCHANGED <<seqOf, keepWalk, n, msg, qq, disturbed, cleanup>>

\* 40034025: once more without the event_id.
Repost(c) ==
  pc[c] = "repost" /\ \E result \in Results :
    /\ PostGroupMessage(c, <<c, k[c]>>, result)
    /\ AtPc(c, "repost", "item")
    /\ IF result = "ok" THEN AnswerSent(c) ELSE AnswerError(c)
    /\ UNCHANGED <<heap, stack, seqOf, keepWalk, n, msg, history, cleanup>>

\* postGroupMessageWithRetry.  The caller drops what it returns: the answer is the
\* first error, whatever becomes of the retries.
\* Mutant: one try too many.
MNextTry(c, at) ==
  IF try[c] <= RetryCount THEN /\ AtPc(c, at, "retry")
                               /\ try' = [try EXCEPT ![c] = @ + 1]
                               /\ UNCHANGED <<app, k>>
  ELSE AtPc(c, at, "item") /\ AnswerError(c)

NextTry(c, at) ==
  IF try[c] < RetryCount THEN /\ AtPc(c, at, "retry")
                     /\ try' = [try EXCEPT ![c] = @ + 1]
                     /\ UNCHANGED <<app, k>>
  ELSE AtPc(c, at, "item") /\ AnswerError(c)

RetryGet(c) ==
  /\ AtPc(c, "retry", "reput")
  /\ GetSeq(c, msg[<<c, k[c]>>].id)
  /\ UNCHANGED <<heap, stack, seqOf, keepWalk, try, k, msg, app, qq, overlapped, cleanup>>

\* Mutants: the limiter's timeout is not counted as a try; the caller answers with
\* what the retries return, and they return no error when no request was made.
MRetryPutForever(c) ==
  /\ \/ /\ AtPc(c, "reput", "retryPost")
        /\ PutSeq(c, msg[<<c, k[c]>>].id)
        /\ msg' = [msg EXCEPT ![<<c, k[c]>>].seq = n[c] + 1]
     \/ AtPc(c, "reput", "retry") /\ UNCHANGED <<seqOf, msg>>
  /\ UNCHANGED <<heap, stack, keepWalk, n, try, k, app, qq, history, cleanup>>

MRetryPutAnswers(c) ==
  /\ pc[c] = "reput"
  /\ PutSeq(c, msg[<<c, k[c]>>].id)
  /\ msg' = [msg EXCEPT ![<<c, k[c]>>].seq = n[c] + 1]
  /\ \/ AtPc(c, "reput", "retryPost") /\ UNCHANGED <<try, app, k>>
     \/ try[c] < RetryCount /\ NextTry(c, "reput")
     \/ try[c] = RetryCount /\ AtPc(c, "reput", "item") /\ Answer(c, FALSE, None)
  /\ UNCHANGED <<heap, stack, keepWalk, n, qq, history, cleanup>>

\* Then the rate limiter grants the request, or does not within five seconds.
RetryPut(c) ==
  /\ pc[c] = "reput"
  /\ PutSeq(c, msg[<<c, k[c]>>].id)
  /\ msg' = [msg EXCEPT ![<<c, k[c]>>].seq = n[c] + 1]
  /\ \/ AtPc(c, "reput", "retryPost") /\ UNCHANGED <<try, app, k>>
     \/ NextTry(c, "reput")
  /\ UNCHANGED <<heap, stack, keepWalk, n, qq, history, cleanup>>

RetryPost(c) ==
  pc[c] = "retryPost" /\ \E result \in Results :
    /\ PostGroupMessage(c, <<c, k[c]>>, result)
    /\ IF result = "deadline" THEN NextTry(c, "retryPost")
       ELSE AtPc(c, "retryPost", "item") /\ AnswerError(c)
    /\ UNCHANGED <<heap, stack, seqOf, keepWalk, n, msg, history, cleanup>>

PostNext(c) == Post(c) \/ Push(c) \/ Repost(c) \/ RetryGet(c) \/ RetryPut(c) \/ RetryPost(c)

-----------------------------------------------------------------------------
\* cleanupGlobalMaps, every 30 minutes: the stack, without its mutex, then the counters.

CleanStack ==
  /\ cleaner = "wait"
  /\ cleanups < MaxCleanups
  /\ cleaner' = "seqs" /\ cleanups' = cleanups + 1
  /\ heap' = Append(heap, <<>>)
  /\ stack' = [arr |-> Len(heap) + 1, len |-> 0]
  /\ Disturb(Calls)
  /\ UNCHANGED <<seqOf, local, msg, app, qq, disturbed>>

CleanSeqs ==
  /\ cleaner = "seqs"
  /\ cleaner' = "wait"
  /\ seqOf' = [a \in DOMAIN seqOf |-> 0]
  /\ disturbed' = disturbed \cup {a \in Ids : seqOf[a] > 0}
  /\ UNCHANGED <<heap, stack, local, msg, app, qq, overlapped, cleanups>>

CallNext(c) == StackNext(c) \/ PrepareNext(c) \/ PostNext(c) \/ Resend(c)

Next == CleanStack \/ CleanSeqs \/ \E c \in Calls : CallNext(c)

Spec == Init /\ [][Next]_vars

\* Goroutines are scheduled, requests time out: every step of a call that can be
\* taken is.
Fairness == \A c \in Calls : WF_vars(pc[c] # "idle" /\ CallNext(c))

-----------------------------------------------------------------------------
TypeOK ==
  /\ heap \in Seq(Seq(Messages))
  /\ stack.arr \in DOMAIN heap /\ stack.len \in 0..Len(Cells)
  /\ \A c \in Calls : view[c].arr \in DOMAIN heap /\ view[c].len <= Len(heap[view[c].arr])
  /\ seqOf \in [Ids \cup {None} -> Nat]
  /\ id \in [Calls -> Ids \cup {None}]
  /\ n \in [Calls -> Nat] /\ try \in [Calls -> 1..RetryCount]
  /\ attempt \in [Calls -> 1..HttpRetries + 1]
  /\ \A c \in Calls : k[c] \in 1..Len(Items[c]) + 1
  /\ msg \in [Messages -> [id : Ids \cup {None}, seq : Nat, event : BOOLEAN]]
  /\ resp \in [Calls -> Messages \cup {None}]
  /\ answer \in [Sent -> {None} \cup [status : {"ok"}, error : BOOLEAN,
                                      names : Messages \cup {None}]]
  /\ accepted \subseteq Ids \X Nat \X Messages
  /\ delivered \subseteq Messages
  /\ refused \subseteq Ids /\ disturbed \subseteq Ids
  /\ overlapped \subseteq Calls
  /\ cleaner \in {"wait", "seqs"} /\ failures \in 0..MaxFailures

\* A walk that nobody overlaps takes no message off the stack but those that QQ
\* has (config_template.go:221): it is pushes and walks in between, and the
\* cleanup, that lose one.
OnlyOverlapsLose ==
  [][\A m \in Messages :
       m \in Stacked /\ m \notin Stacked' /\ m \notin delivered =>
         cleaner' = "seqs" \/ \E c \in overlapped : pc[c] = "remove" /\ pc'[c] # "remove"]_vars

\* QQ refuses a number as used by another message only if two calls prepared messages
\* under the same id at the same time, or a quote took its number from another counter,
\* or the cleanup cleared one that was in use.  What the HTTP client sends again meets
\* only itself, even when a walk stamps it in between.
SeqReuseExplained == refused \subseteq disturbed

\* The message id in an answer is that of a message which QQ has and this call sent:
\* the one answered for, but for an upload that fails or yields nothing, whose answer
\* may name an item before it.  No error in the text means that, but for an upload, QQ
\* has it.  (The status says nothing: every answer has "ok".)
AnswersNameSent ==
  \A m \in Sent :
    LET a == answer[m]  media == Items[m[1]][m[2]] = "media"
    IN a # None =>
         /\ a.names # None => /\ a.names \in delivered
                              /\ a.names[1] = m[1] /\ a.names[2] <= m[2]
                              /\ a.names = m \/ media
         /\ ~media /\ ~a.error => a.names = m

\* Every call comes to an end, whatever fails: retries are counted, and a walk
\* does not follow what it stacks itself.
CallsReturn == <>[](\A c \in Calls : pc[c] \in {"idle", "done"})
=============================================================================
