------------------------- MODULE GroupSendSeqProofs -------------------------
(* The numbers of group messages: QQ refuses one as another message's only if  *)
(* calls were in each other's way, for any number of calls, ids, stacked       *)
(* messages and re-sends of the HTTP client.  A message id that is not         *)
(* "disturbed" has one call at a time between the read and the last write of   *)
(* its counter; every number that QQ has seen of it, or is about to see, has   *)
(* been counted, and belongs to one message.                                   *)
EXTENDS GroupSendProofs

USE DEF app

Number(c)      == msg[Target(c)].seq
Posts(c, a)    == Pending(c) /\ msg[Target(c)].id = a
Prepares(c, a) == Preparing(c) /\ Counter(c) = a

\* Message m has, or is about to take, number s of a.
Brings(c, a, s, m) == Posts(c, a) /\ Number(c) = s /\ Target(c) = m
Holds(a, s, m)     == <<a, s, m>> \in accepted \/ \E c \in Calls : Brings(c, a, s, m)
Used(a, s)         == \E m \in Messages : Holds(a, s, m)

\* One call at a time prepares a message; the number it read is still the counter;
\* what is used has been counted; the number an upload will use is not used; no two
\* messages have the same number.  (One message may have it twice: the client sends it
\* again, or two walks post what one of them stamped.)
Alone(a)  == \A c, d \in Calls : Prepares(c, a) /\ Prepares(d, a) => c = d
Fresh(a)  == \A c \in Calls :
               Prepares(c, a) /\ pc[c] \in {"stamp", "put", "putAgain", "reput"} => n[c] = seqOf[a]
Counted(a) == \A s \in Nat : Used(a, s) => s <= seqOf[a]
Kept(a)   == \A c \in Calls :
               Prepares(c, a) /\ pc[c] \in {"upload", "get", "putAgain"} => ~Used(a, seqOf[a])
Once(a)   == \A s \in Nat : \A m, x \in Messages : Holds(a, s, m) /\ Holds(a, s, x) => m = x
Sound(a)  == Alone(a) /\ Fresh(a) /\ Counted(a) /\ Kept(a) /\ Once(a)

SeqInv == \A a \in Ids \ disturbed : Sound(a)
-----------------------------------------------------------------------------
LEMMA NumberIn ==
  ASSUME Types, NEW c \in Calls, Pending(c) PROVE Target(c) \in Messages /\ Number(c) \in Nat
BY TargetIn DEF Number, Types, QqType

\* A message in hand is not on the stack.
LEMMA OwnNotStackable ==
  ASSUME Types, NEW c \in Calls, HasItem(c) PROVE <<c, k[c]>> \notin Stackable
<1>1. <<c, k[c]>> \in Sent /\ ~(k[c] < k[c])
  BY OwnSent
<1> QED
  BY <1>1, OldAssumption DEF Stackable

\* What a step of c may change: its own variables, and the fields of the message it
\* has in hand or stamps.
SameKey(m) == msg'[m].id = msg[m].id /\ msg'[m].seq = msg[m].seq
OwnStep(c) ==
  /\ \A d \in Calls \ {c} : /\ pc'[d] = pc[d] /\ id'[d] = id[d] /\ n'[d] = n[d]
                            /\ k'[d] = k[d] /\ cur'[d] = cur[d]
  /\ \A m \in Messages : \/ SameKey(m)
                         \/ HasItem(c) /\ m = <<c, k[c]>>
                         \/ Stamp(c) /\ m = cur[c]
  /\ disturbed \subseteq disturbed'

LEMMA OwnWalk == ASSUME Types, NEW c \in Calls, StackNext(c) PROVE OwnStep(c)
<1> USE DEF OwnStep, SameKey, AtPc, NextIndex, qq, history, cleanup
<1>1. CASE Start(c) \/ SkipGroup(c) \/ EndWalk(c) \/ Remove(c) \/ PushOld(c)
  BY <1>1 DEF Start, SkipGroup, EndWalk, Remove, PushOld, Types, CallType
<1>2. CASE Visit(c)
  BY <1>2 DEF Visit, GetSeq, Types, CallType
<1>3. CASE Stamp(c)
  <2>1. /\ pc' = [pc EXCEPT ![c] = "postOld"] /\ UNCHANGED <<id, n, k, cur>>
        /\ msg' = [msg EXCEPT ![cur[c]].id = id[c], ![cur[c]].seq = n[c] + 1]
        /\ disturbed \subseteq disturbed'
    BY <1>3 DEF Stamp
  <2> QED
    BY <1>3, <2>1 DEF Types, CallType, QqType
<1>4. CASE PostOld(c)
  BY <1>4 DEF PostOld, Types, CallType
<1> QED
  BY <1>1, <1>2, <1>3, <1>4 DEF StackNext

LEMMA OwnPrepare == ASSUME Types, NEW c \in Calls, PrepareNext(c) PROVE OwnStep(c)
<1> USE DEF OwnStep, SameKey, AtPc, keepWalk, qq, history, cleanup
<1>1. CASE BeginItem(c) \/ GetAgain(c)
  BY <1>1 DEF BeginItem, GetAgain, GetSeq, Types, CallType
<1>2. CASE Done(c) \/ Abandon(c) \/ SkipItem(c) \/ PutUpload(c) \/ Uploaded(c)
  BY <1>2 DEF Done, Abandon, SkipItem, PutUpload, Uploaded, Types, CallType
<1>3. CASE UploadFails(c) \/ UploadedNothing(c)
  BY <1>3 DEF UploadFails, UploadedNothing, Answer, Types, CallType
<1>4. CASE PutText(c)
  <2>1. PICK r : msg' = [msg EXCEPT ![<<c, k[c]>>] = r]
    BY <1>4 DEF PutText
  <2>2. HasItem(c)
    BY <1>4 DEF PutText, HasItem
  <2> QED
    BY <1>4, <2>1, <2>2 DEF PutText, Types, CallType, QqType
<1>5. CASE PutAgain(c)
  <2>1. PICK r : msg' = [msg EXCEPT ![<<c, k[c]>>] = r]
    BY <1>5 DEF PutAgain
  <2>2. HasItem(c)
    BY <1>5 DEF PutAgain, HasItem
  <2> QED
    BY <1>5, <2>1, <2>2 DEF PutAgain, Types, CallType, QqType
<1> QED
  BY <1>1, <1>2, <1>3, <1>4, <1>5 DEF PrepareNext

LEMMA OwnPost == ASSUME Types, NEW c \in Calls, PostNext(c) PROVE OwnStep(c)
<1> USE DEF OwnStep, SameKey, AtPc, keepWalk, qq, history, cleanup
<1>1. CASE Post(c)
  <2>1. PICK result \in Results :
          /\ IF result \in {"ok", "error", "broken"} THEN AnswerError(c) \/ AnswerSent(c)
             ELSE UNCHANGED <<app, k, try>>
          /\ msg' = [msg EXCEPT ![<<c, k[c]>>].event = @ /\ result # "40034025"]
    BY <1>1 DEF Post
  <2>2. k' = k \/ k' = [k EXCEPT ![c] = @ + 1]
    BY <2>1 DEF AnswerError, AnswerSent, Answer
  <2>3. \A m \in Messages : SameKey(m)
    BY <2>1 DEF Types, QqType
  <2>4. PICK next : pc' = [pc EXCEPT ![c] = next]
    BY <1>1 DEF Post
  <2>5. UNCHANGED <<id, n, cur, disturbed>>
    BY <1>1 DEF Post
  <2> QED
    BY <2>2, <2>3, <2>4, <2>5 DEF Types, CallType
<1>2. CASE Push(c) \/ Repost(c)
  BY <1>2 DEF Push, Repost, AnswerError, AnswerSent, Answer, Types, CallType
<1>3. CASE RetryGet(c)
  BY <1>3 DEF RetryGet, GetSeq, Types, CallType
<1>4. CASE RetryPut(c)
  <2>1. /\ msg' = [msg EXCEPT ![<<c, k[c]>>].seq = n[c] + 1] /\ pc[c] = "reput"
        /\ UNCHANGED <<id, n, cur, disturbed>>
    BY <1>4 DEF RetryPut
  <2>2. HasItem(c)
    BY <2>1 DEF HasItem
  <2>3. PICK next : pc' = [pc EXCEPT ![c] = next]
    BY <1>4 DEF RetryPut, NextTry
  <2>4. k' = k \/ k' = [k EXCEPT ![c] = @ + 1]
    BY <1>4 DEF RetryPut, NextTry, AnswerError, Answer
  <2> QED
    BY <2>1, <2>2, <2>3, <2>4 DEF Types, CallType, QqType
<1>5. CASE RetryPost(c)
  BY <1>5 DEF RetryPost, NextTry, AnswerError, Answer, Types, CallType
<1> QED
  BY <1>1, <1>2, <1>3, <1>4, <1>5 DEF PostNext

LEMMA OwnResend == ASSUME NEW c \in Calls, Resend(c) PROVE OwnStep(c)
BY DEF OwnStep, SameKey, Resend, local, history

LEMMA Own == ASSUME Types, NEW c \in Calls, CallNext(c) PROVE OwnStep(c)
BY OwnWalk, OwnPrepare, OwnPost, OwnResend DEF CallNext

\* So other calls see nothing of it: what they have in hand is their own, and a message
\* that two walks share is posted by both with what the later one stamped.
OthersKeep(c, a) ==
  \A d \in Calls \ {c} : /\ pc'[d] = pc[d] /\ n'[d] = n[d]
                         /\ Prepares(d, a)' => Prepares(d, a)
                         /\ \A s, m : Brings(d, a, s, m)' => \/ Brings(d, a, s, m)
                                                              \/ Brings(c, a, s, m)'

LEMMA Others ==
  ASSUME Types, NEW c \in Calls, CallNext(c), NEW a \in Ids PROVE OthersKeep(c, a)
<1>1. OwnStep(c)
  BY Own
<1> SUFFICES ASSUME NEW d \in Calls \ {c}
             PROVE  /\ pc'[d] = pc[d] /\ n'[d] = n[d]
                    /\ Prepares(d, a)' => Prepares(d, a)
                    /\ \A s, m : Brings(d, a, s, m)' => \/ Brings(d, a, s, m)
                                                        \/ Brings(c, a, s, m)'
  BY DEF OthersKeep
<1>2. pc'[d] = pc[d] /\ id'[d] = id[d] /\ n'[d] = n[d] /\ k'[d] = k[d] /\ cur'[d] = cur[d]
  BY <1>1 DEF OwnStep
<1>3. Stamp(c) => cur[c] \in Stackable
  BY DEF Stamp, AtPc, HasCur, Types, CallType
<1>4. HasItem(d) => SameKey(<<d, k[d]>>)
  BY <1>1, <1>3, OwnIn, OwnNotStackable DEF OwnStep
<1>5. Prepares(d, a)' => Prepares(d, a)
  <2>1. pc[d] \in {"retry", "reput"} => HasItem(d)
    BY DEF HasItem
  <2> QED
    BY <1>2, <1>4, <2>1 DEF Prepares, Preparing, Counter, SameKey
<1>6. ASSUME NEW s, NEW m, Brings(d, a, s, m)'
      PROVE  Brings(d, a, s, m) \/ Brings(c, a, s, m)'
  <2>1. Pending(d) /\ Target(d)' = Target(d)
    BY <1>2, <1>6 DEF Brings, Posts, Pending, Target
  <2>2. CASE SameKey(Target(d))
    BY <1>6, <2>1, <2>2 DEF Brings, Posts, Number, SameKey
  <2>3. CASE ~SameKey(Target(d))
    <3>1. pc[d] = "postOld"
      BY <1>4, <2>1, <2>3 DEF Pending, HasItem, Target
    <3>2. cur[d] \in Stackable /\ cur[d] \in Messages /\ Target(d) = cur[d]
      BY <3>1, StackableIn DEF HasCur, Target, Types, CallType
    <3>3. HasItem(c) => cur[d] # <<c, k[c]>>
      BY <3>2, OwnNotStackable
    <3>4. Stamp(c) /\ cur[d] = cur[c]
      BY <1>1, <2>3, <3>2, <3>3 DEF OwnStep
    <3>5. pc'[c] = "postOld" /\ cur' = cur
      BY <3>4 DEF Stamp, AtPc, Types, CallType
    <3>6. Pending(c)' /\ Target(c)' = Target(d)'
      BY <2>1, <3>2, <3>4, <3>5 DEF Pending, Target
    <3> QED
      BY <1>6, <3>6 DEF Brings, Posts, Number
  <2> QED
    BY <2>2, <2>3
<1> QED
  BY <1>2, <1>5, <1>6
-----------------------------------------------------------------------------
\* The kinds of steps.  One that neither reads nor counts a number: c may go on with
\* its upload, go on with the message it posts, or have QQ take it.
Passes(c, a) ==
  /\ seqOf'[a] = seqOf[a]
  /\ Prepares(c, a)' => Prepares(c, a) /\ pc[c] = "upload" /\ pc'[c] = "get"
  /\ \A s \in Nat, m \in Messages :
       <<a, s, m>> \in accepted' \/ Brings(c, a, s, m)' => Holds(a, s, m)

LEMMA PassesSound ==
  ASSUME Types, NEW a \in Ids, Sound(a), NEW c \in Calls, OthersKeep(c, a), Passes(c, a)
  PROVE  Sound(a)'
<1>0. \A s \in Nat, m \in Messages : Holds(a, s, m)' => Holds(a, s, m)
  BY DEF Holds, OthersKeep, Passes
<1>1. \A s \in Nat : Used(a, s)' => Used(a, s)
  BY <1>0 DEF Used
<1>2. \A d \in Calls : Prepares(d, a)' => Prepares(d, a)
  BY DEF OthersKeep, Passes
<1>3. seqOf[a] \in Nat /\ seqOf'[a] = seqOf[a]
  BY DEF Passes, Types, QqType
<1>4. Alone(a)'
  BY <1>2 DEF Sound, Alone
<1>5. Fresh(a)'
  <2> SUFFICES ASSUME NEW d \in Calls, Prepares(d, a)',
                      pc'[d] \in {"stamp", "put", "putAgain", "reput"}
               PROVE  n'[d] = seqOf'[a]
    BY DEF Fresh
  <2>1. d # c
    BY DEF Passes
  <2> QED
    BY <1>3, <2>1 DEF OthersKeep, Sound, Fresh
<1>6. Counted(a)'
  BY <1>1, <1>3 DEF Sound, Counted
<1>7. Kept(a)'
  <2> SUFFICES ASSUME NEW d \in Calls, Prepares(d, a)', pc'[d] \in {"upload", "get", "putAgain"}
               PROVE  ~Used(a, seqOf[a])'
    BY DEF Kept
  <2>1. Prepares(d, a) /\ pc[d] \in {"upload", "get", "putAgain"}
    BY DEF OthersKeep, Passes
  <2>2. PICK s \in Nat : s = seqOf[a] /\ s = seqOf'[a]
    BY <1>3
  <2>3. ~Used(a, s)'
    BY <1>1, <2>1, <2>2 DEF Sound, Kept
  <2> QED
    BY <2>2, <2>3 DEF Used, Holds
<1>8. Once(a)'
  BY <1>0 DEF Sound, Once
<1> QED
  BY <1>4, <1>5, <1>6, <1>7, <1>8 DEF Sound

\* One that reads the counter of b.  No other call is at it, or b is disturbed.
Reads(c, a) ==
  /\ UNCHANGED <<seqOf, accepted>>
  /\ ~Posts(c, a)'
  /\ Prepares(c, a)' => /\ n'[c] = seqOf[a]
                        /\ \A d \in Calls \ {c} : ~Prepares(d, a)
                        /\ \/ pc'[c] \in {"stamp", "put", "reput"}
                           \/ pc'[c] = "putAgain" /\ Prepares(c, a) /\ pc[c] = "get"

LEMMA ReadsSound ==
  ASSUME Types, NEW a \in Ids, Sound(a), NEW c \in Calls, OthersKeep(c, a), Reads(c, a)
  PROVE  Sound(a)'
<1>0. \A s, m : Holds(a, s, m)' => Holds(a, s, m)
  BY DEF Holds, OthersKeep, Reads, Brings
<1>1. \A s : Used(a, s)' => Used(a, s)
  BY <1>0 DEF Used
<1>2. \A d \in Calls \ {c} : Prepares(d, a)' => Prepares(d, a) /\ ~Prepares(c, a)'
  BY DEF OthersKeep, Reads
<1>3. seqOf' = seqOf /\ accepted' = accepted
  BY DEF Reads
<1>4. Alone(a)'
  BY <1>2 DEF OthersKeep, Sound, Alone
<1>5. Fresh(a)'
  BY <1>3 DEF OthersKeep, Sound, Fresh, Reads
<1>6. Counted(a)'
  BY <1>1, <1>3 DEF Sound, Counted
<1>7. Kept(a)'
  <2> SUFFICES ASSUME NEW d \in Calls, Prepares(d, a)', pc'[d] \in {"upload", "get", "putAgain"}
               PROVE  ~Used(a, seqOf[a])'
    BY DEF Kept
  <2>1. Prepares(d, a) /\ pc[d] \in {"upload", "get", "putAgain"}
    BY DEF OthersKeep, Reads
  <2>2. PICK s \in Nat : s = seqOf[a]
    BY DEF Types, QqType
  <2>3. ~Used(a, s)'
    BY <1>1, <2>1, <2>2 DEF Sound, Kept
  <2> QED
    BY <1>3, <2>2, <2>3 DEF Used, Holds
<1>8. Once(a)'
  BY <1>0 DEF Sound, Once
<1> QED
  BY <1>4, <1>5, <1>6, <1>7, <1>8 DEF Sound

\* One that counts: what c may now post has the number counted, or, after an upload,
\* the one it read.
Counts(c, a) ==
  /\ accepted' = accepted
  /\ Prepares(c, a) /\ seqOf'[a] = seqOf[a] + 1
  /\ Prepares(c, a)' => pc'[c] = "upload" /\ ~Posts(c, a)'
  /\ Posts(c, a)' => \/ Number(c)' = seqOf[a] + 1
                     \/ Number(c)' = seqOf[a] /\ pc[c] = "putAgain"

LEMMA CountsSound ==
  ASSUME Types, NEW a \in Ids, Sound(a), NEW c \in Calls, OthersKeep(c, a), Counts(c, a)
  PROVE  Sound(a)'
<1>0. seqOf[a] \in Nat /\ seqOf'[a] = seqOf[a] + 1 /\ accepted' = accepted
  BY DEF Counts, Types, QqType
<1>1. \A d \in Calls : Prepares(d, a)' => d = c /\ pc'[c] = "upload" /\ ~Posts(c, a)'
  BY DEF OthersKeep, Counts, Sound, Alone
<1>2. \A s, m : Holds(a, s, m)' => Holds(a, s, m) \/ Brings(c, a, s, m)'
  BY DEF Holds, OthersKeep, Counts
<1>3. ASSUME NEW s \in Nat, Used(a, s) PROVE s <= seqOf[a]
  BY <1>3 DEF Sound, Counted
<1>4. ASSUME NEW s, NEW m, Brings(c, a, s, m)'
      PROVE  s \in Nat /\ s <= seqOf[a] + 1 /\ ~Used(a, s)
  <2>1. s = seqOf[a] + 1 \/ (s = seqOf[a] /\ pc[c] = "putAgain")
    BY <1>4 DEF Brings, Counts
  <2>2. CASE s = seqOf[a] + 1
    <3>1. s \in Nat /\ ~(s <= seqOf[a])
      BY <1>0, <2>2
    <3> QED
      BY <1>0, <1>3, <2>2, <3>1
  <2>3. CASE s = seqOf[a] /\ pc[c] = "putAgain"
    <3>1. ~Used(a, s)
      BY <2>3 DEF Counts, Sound, Kept
    <3> QED
      BY <1>0, <2>3, <3>1
  <2> QED
    BY <2>1, <2>2, <2>3
<1>5. Alone(a)' /\ Fresh(a)'
  BY <1>1 DEF Alone, Fresh
<1>6. Counted(a)'
  <2> SUFFICES ASSUME NEW s \in Nat, Used(a, s)' PROVE s <= seqOf[a] + 1
    BY <1>0 DEF Counted
  <2>1. PICK m \in Messages : Holds(a, s, m) \/ Brings(c, a, s, m)'
    BY <1>2 DEF Used
  <2>2. CASE Holds(a, s, m)
    BY <1>0, <1>3, <2>2 DEF Used
  <2>3. CASE Brings(c, a, s, m)'
    BY <1>4, <2>3
  <2> QED
    BY <2>1, <2>2, <2>3
<1>7. Kept(a)'
  <2> SUFFICES ASSUME NEW d \in Calls, Prepares(d, a)' PROVE ~Used(a, seqOf[a])'
    BY DEF Kept
  <2>1. PICK s \in Nat : s = seqOf[a] + 1 /\ s = seqOf'[a] /\ ~(s <= seqOf[a])
    BY <1>0
  <2>2. \A m : ~Brings(c, a, s, m)'
    BY <1>1 DEF Brings
  <2>3. ~Used(a, s)'
    BY <1>2, <1>3, <2>1, <2>2 DEF Used
  <2> QED
    BY <2>1, <2>3 DEF Used, Holds
<1>8. Once(a)'
  <2> SUFFICES ASSUME NEW s \in Nat, NEW m \in Messages, NEW x \in Messages,
                      Holds(a, s, m)', Holds(a, s, x)'
               PROVE  m = x
    BY DEF Once
  <2>1. CASE Holds(a, s, m) /\ Holds(a, s, x)
    BY <2>1 DEF Sound, Once
  <2>2. CASE Brings(c, a, s, m)' /\ Brings(c, a, s, x)'
    BY <2>2 DEF Brings
  <2>3. CASE Used(a, s) /\ (Brings(c, a, s, m)' \/ Brings(c, a, s, x)')
    BY <1>4, <2>3
  <2> QED
    BY <1>2, <2>1, <2>2, <2>3 DEF Used
<1> QED
  BY <1>5, <1>6, <1>7, <1>8 DEF Sound
-----------------------------------------------------------------------------
\* Each step is of one of the kinds.
LEMMA OwnCall ==
  ASSUME Types, NEW c \in Calls, NEW next, pc' = [pc EXCEPT ![c] = next] PROVE pc'[c] = next
BY DEF Types, CallType

\* One that leaves c with nothing in preparation, and nothing to post.
LEMMA Idles ==
  ASSUME Types, NEW c \in Calls, NEW a \in Ids,
         NEW next \in {"visit", "remove", "pushOld", "item", "push", "retry", "done"},
         pc' = [pc EXCEPT ![c] = next], seqOf'[a] = seqOf[a], accepted' = accepted
  PROVE  Passes(c, a)
<1>1. pc'[c] = next
  BY OwnCall
<1>2. ~Prepares(c, a)' /\ ~Posts(c, a)'
  BY <1>1 DEF Prepares, Preparing, Posts, Pending
<1> QED
  BY <1>2 DEF Passes, Brings, Holds

\* What QQ has seen after it, beyond what it had: the message posted, with its number.
LEMMA Taken ==
  ASSUME NEW c, NEW t, NEW result, Request(c, t, result), NEW a \in Ids, NEW s, NEW m,
         <<a, s, m>> \in accepted'
  PROVE  <<a, s, m>> \in accepted \/ (msg[t].id = a /\ msg[t].seq = s /\ t = m)
BY DEF Request, Refuse, Accept, Repeated

LEMMA TakenHeld ==
  ASSUME NEW c \in Calls, Pending(c), NEW result, Request(c, Target(c), result),
         NEW a \in Ids, NEW s, NEW m, <<a, s, m>> \in accepted'
  PROVE  Holds(a, s, m)
BY Taken DEF Holds, Brings, Posts, Number

LEMMA PostedPasses ==
  ASSUME Types, NEW c \in Calls, NEW a \in Ids, Pending(c), NEW result,
         PostGroupMessage(c, Target(c), result), seqOf' = seqOf,
         NEW next \in {"visit", "remove", "pushOld", "item", "push", "retry"},
         pc' = [pc EXCEPT ![c] = next]
  PROVE  Passes(c, a)
<1>1. pc'[c] = next
  BY OwnCall
<1>2. ~Prepares(c, a)' /\ ~Posts(c, a)'
  BY <1>1 DEF Prepares, Preparing, Posts, Pending
<1>3. \A s, m : <<a, s, m>> \in accepted' => Holds(a, s, m)
  BY TakenHeld DEF PostGroupMessage
<1> QED
  BY <1>2, <1>3 DEF Passes, Brings

LEMMA ResendPasses ==
  ASSUME Types, NEW c \in Calls, NEW a \in Ids, Resend(c) PROVE Passes(c, a)
<1>1. PICK result \in Lost : Request(c, Target(c), result)
  BY DEF Resend
<1>2. Pending(c) /\ UNCHANGED <<seqOf, pc, k, cur, msg>>
  BY DEF Resend, local
<1>3. \A s, m : <<a, s, m>> \in accepted' => Holds(a, s, m)
  BY <1>1, <1>2, TakenHeld
<1>4. \A s, m : Brings(c, a, s, m)' => Holds(a, s, m)
  BY <1>2 DEF Holds, Brings, Posts, Pending, Target, Number
<1>5. ~Preparing(c)'
  BY <1>2 DEF Preparing, Pending
<1> QED
  BY <1>2, <1>3, <1>4, <1>5 DEF Passes, Prepares

LEMMA GetReads ==
  ASSUME Types, NEW c \in Calls, NEW b, GetSeq(c, b), Counter(c)' = b,
         NEW a \in Ids \ disturbed', UNCHANGED <<seqOf, accepted>>,
         NEW next \in {"stamp", "put", "reput", "putAgain"},
         pc' = [pc EXCEPT ![c] = next],
         next = "putAgain" => pc[c] = "get" /\ Counter(c) = b
  PROVE  Reads(c, a)
<1>1. pc'[c] = next
  BY OwnCall
<1>2. ~Posts(c, a)'
  BY <1>1 DEF Posts, Pending
<1>3. ASSUME Prepares(c, a)'
      PROVE  n'[c] = seqOf[a] /\ \A d \in Calls \ {c} : ~Prepares(d, a)
  <2>1. a = b
    BY <1>3 DEF Prepares
  <2>2. \A d \in Calls \ {c} : ~Prepares(d, a)
    BY <2>1 DEF GetSeq, Prepares
  <2> QED
    BY <2>1, <2>2 DEF GetSeq, Types, CallType
<1>4. ASSUME Prepares(c, a)', next = "putAgain" PROVE Prepares(c, a) /\ pc[c] = "get"
  BY <1>4 DEF Prepares, Preparing
<1> QED
  BY <1>1, <1>2, <1>3, <1>4 DEF Reads

\* A step that writes the counter of b counts, or is about another message id.
LEMMA PutCounts ==
  ASSUME Types, NEW a \in Ids, Sound(a), NEW c \in Calls,
         pc[c] \in {"stamp", "put", "putAgain", "reput"}, PutSeq(c, Counter(c)),
         accepted' = accepted, NEW next, pc' = [pc EXCEPT ![c] = next],
         next # "get", ~(Preparing(c)' /\ Pending(c)'),
         Preparing(c)' => next = "upload" /\ Counter(c)' = Counter(c),
         Posts(c, a)' => /\ Counter(c) = a
                         /\ \/ Number(c)' = n[c] + 1
                            \/ Number(c)' = n[c] /\ pc[c] = "putAgain"
  PROVE  Passes(c, a) \/ Counts(c, a)
<1>1. pc'[c] = next
  BY OwnCall
<1>2. Preparing(c)
  BY DEF Preparing
<1>3. CASE Counter(c) = a
  <2>1. Prepares(c, a) /\ n[c] = seqOf[a]
    BY <1>2, <1>3 DEF Prepares, Sound, Fresh
  <2>2. seqOf'[a] = seqOf[a] + 1
    BY <1>3, <2>1 DEF PutSeq, Types, QqType
  <2>3. Prepares(c, a)' => pc'[c] = "upload" /\ ~Posts(c, a)'
    BY <1>1 DEF Prepares, Posts
  <2> QED
    BY <2>1, <2>2, <2>3 DEF Counts
<1>4. CASE Counter(c) # a
  <2>1. seqOf'[a] = seqOf[a]
    BY <1>4 DEF PutSeq, Types, QqType
  <2>2. ~Prepares(c, a)' /\ ~Posts(c, a)'
    BY <1>4 DEF Prepares
  <2> QED
    BY <2>1, <2>2 DEF Passes, Brings, Holds
<1> QED
  BY <1>3, <1>4

LEMMA WalkKind ==
  ASSUME Types, NEW c \in Calls, StackNext(c), NEW a \in Ids \ disturbed', Sound(a)
  PROVE  Passes(c, a) \/ Reads(c, a) \/ Counts(c, a)
<1>1. CASE Start(c) \/ SkipGroup(c) \/ Remove(c) \/ PushOld(c) \/ EndWalk(c)
  <2>1. PICK next \in {"visit", "item"} : pc' = [pc EXCEPT ![c] = next]
    BY <1>1 DEF Start, SkipGroup, Remove, PushOld, EndWalk, AtPc
  <2>2. seqOf' = seqOf /\ accepted' = accepted
    BY <1>1 DEF Start, SkipGroup, Remove, PushOld, EndWalk, qq
  <2> QED
    BY <2>1, <2>2, Idles
<1>2. CASE Visit(c)
  <2>1. /\ pc' = [pc EXCEPT ![c] = "stamp"] /\ GetSeq(c, id[c])
        /\ UNCHANGED <<seqOf, accepted, id>>
    BY <1>2 DEF Visit, AtPc, qq
  <2>2. Counter(c)' = id[c]
    BY <2>1, OwnCall DEF Counter
  <2> QED
    BY <2>1, <2>2, GetReads
<1>3. CASE Stamp(c)
  <2>1. /\ pc[c] = "stamp" /\ pc' = [pc EXCEPT ![c] = "postOld"] /\ PutSeq(c, id[c])
        /\ msg' = [msg EXCEPT ![cur[c]].id = id[c], ![cur[c]].seq = n[c] + 1]
        /\ UNCHANGED <<accepted, cur>>
    BY <1>3 DEF Stamp, AtPc, qq
  <2>2. Counter(c) = id[c] /\ pc'[c] = "postOld"
    BY <2>1, OwnCall DEF Counter
  <2>3. cur[c] \in Messages
    BY <2>1, StackableIn DEF HasCur, Types, CallType
  <2>4. msg'[cur[c]].id = id[c] /\ msg'[cur[c]].seq = n[c] + 1
    BY <2>1, <2>3 DEF Types, QqType
  <2>5. Posts(c, a)' => Counter(c) = a /\ Number(c)' = n[c] + 1
    BY <2>1, <2>2, <2>4 DEF Posts, Target, Number
  <2>6. ~Preparing(c)'
    BY <2>2 DEF Preparing
  <2> QED
    BY <2>1, <2>2, <2>5, <2>6, PutCounts
<1>4. CASE PostOld(c)
  <2>1. PICK result \in Results : PostGroupMessage(c, cur[c], result)
    BY <1>4 DEF PostOld
  <2>2. PICK next \in {"remove", "pushOld", "visit"} : pc' = [pc EXCEPT ![c] = next]
    BY <1>4 DEF PostOld, AtPc
  <2>3. Pending(c) /\ Target(c) = cur[c] /\ seqOf' = seqOf
    BY <1>4 DEF PostOld, Pending, Target
  <2> QED
    BY <2>1, <2>2, <2>3, PostedPasses
<1> QED
  BY <1>1, <1>2, <1>3, <1>4 DEF StackNext

LEMMA PrepareKind ==
  ASSUME Types, NEW c \in Calls, PrepareNext(c), NEW a \in Ids \ disturbed', Sound(a)
  PROVE  Passes(c, a) \/ Reads(c, a) \/ Counts(c, a)
<1> USE DEF AtPc, keepWalk, qq, history
<1>1. CASE Done(c) \/ UploadFails(c) \/ UploadedNothing(c)
  <2>1. PICK next \in {"item", "done"} : pc' = [pc EXCEPT ![c] = next]
    BY <1>1 DEF Done, UploadFails, UploadedNothing
  <2>2. seqOf' = seqOf /\ accepted' = accepted
    BY <1>1 DEF Done, UploadFails, UploadedNothing
  <2> QED
    BY <2>1, <2>2, Idles
<1>2. CASE BeginItem(c) \/ GetAgain(c)
  <2>1. PICK next \in {"put", "putAgain"} :
          pc' = [pc EXCEPT ![c] = next] /\ (next = "putAgain" => pc[c] = "get")
    BY <1>2 DEF BeginItem, GetAgain
  <2>2. GetSeq(c, id[c]) /\ UNCHANGED <<seqOf, accepted, id>>
    BY <1>2 DEF BeginItem, GetAgain
  <2>3. Counter(c)' = id[c] /\ (next = "putAgain" => Counter(c) = id[c])
    BY <2>1, <2>2, OwnCall DEF Counter
  <2> QED
    BY <2>1, <2>2, <2>3, GetReads
<1>3. CASE PutText(c)
  <2>1. /\ pc[c] = "put" /\ pc' = [pc EXCEPT ![c] = "post"] /\ PutSeq(c, id[c])
        /\ UNCHANGED <<accepted, k>>
    BY <1>3 DEF PutText
  <2>2. PICK b \in Ids \cup {id[c]} :
          /\ msg' = [msg EXCEPT ![<<c, k[c]>>] = Message(c, b, n[c] + 1)]
          /\ disturbed' = disturbed \cup ({b} \ {id[c]})
    BY <1>3 DEF PutText
  <2>3. Counter(c) = id[c] /\ pc'[c] = "post"
    BY <2>1, OwnCall DEF Counter
  <2>4. <<c, k[c]>> \in Messages
    BY <2>1, OwnIn DEF HasItem
  <2>5. msg'[<<c, k[c]>>].id = b /\ msg'[<<c, k[c]>>].seq = n[c] + 1
    BY <2>2, <2>4 DEF Message, Types, QqType
  <2>6. Posts(c, a)' => Counter(c) = a /\ Number(c)' = n[c] + 1
    BY <2>1, <2>2, <2>3, <2>5 DEF Posts, Target, Number
  <2>7. ~Preparing(c)'
    BY <2>3 DEF Preparing
  <2> QED
    BY <2>1, <2>3, <2>6, <2>7, PutCounts
<1>4. CASE PutUpload(c)
  <2>1. /\ pc[c] = "put" /\ pc' = [pc EXCEPT ![c] = "upload"] /\ PutSeq(c, id[c])
        /\ UNCHANGED <<accepted, id>>
    BY <1>4 DEF PutUpload
  <2>2. Counter(c) = id[c] /\ pc'[c] = "upload" /\ Counter(c)' = id[c]
    BY <2>1, OwnCall DEF Counter
  <2>3. ~Pending(c)' /\ ~Posts(c, a)'
    BY <2>2 DEF Pending, Posts
  <2> QED
    BY <2>1, <2>2, <2>3, PutCounts
<1>5. CASE Uploaded(c)
  <2>1. /\ pc[c] = "upload" /\ pc' = [pc EXCEPT ![c] = "get"] /\ UNCHANGED <<seqOf, accepted, id>>
    BY <1>5 DEF Uploaded
  <2>2. pc'[c] = "get"
    BY <2>1, OwnCall
  <2>3. Prepares(c, a)' => Prepares(c, a)
    BY <2>1, <2>2 DEF Prepares, Preparing, Counter
  <2>4. ~Posts(c, a)'
    BY <2>2 DEF Posts, Pending
  <2> QED
    BY <2>1, <2>2, <2>3, <2>4 DEF Passes, Brings, Holds
<1>6. CASE PutAgain(c)
  <2>1. /\ pc[c] = "putAgain" /\ pc' = [pc EXCEPT ![c] = "post"] /\ PutSeq(c, id[c])
        /\ msg' = [msg EXCEPT ![<<c, k[c]>>] = Message(c, id[c], n[c])]
        /\ UNCHANGED <<accepted, k>>
    BY <1>6 DEF PutAgain
  <2>2. Counter(c) = id[c] /\ pc'[c] = "post"
    BY <2>1, OwnCall DEF Counter
  <2>3. <<c, k[c]>> \in Messages
    BY <2>1, OwnIn DEF HasItem
  <2>4. msg'[<<c, k[c]>>].id = id[c] /\ msg'[<<c, k[c]>>].seq = n[c]
    BY <2>1, <2>3 DEF Message, Types, QqType
  <2>5. Posts(c, a)' => Counter(c) = a /\ Number(c)' = n[c]
    BY <2>1, <2>2, <2>4 DEF Posts, Target, Number
  <2>6. ~Preparing(c)'
    BY <2>2 DEF Preparing
  <2> QED
    BY <2>1, <2>2, <2>5, <2>6, PutCounts
<1>7. CASE Abandon(c) \/ SkipItem(c)
  <2>1. PICK next \in {"item", "done"} : pc' = [pc EXCEPT ![c] = next]
    BY <1>7 DEF Abandon, SkipItem
  <2>2. pc[c] = "put" /\ PutSeq(c, id[c]) /\ accepted' = accepted
    BY <1>7 DEF Abandon, SkipItem
  <2>3. Counter(c) = id[c] /\ pc'[c] = next
    BY <2>1, <2>2, OwnCall DEF Counter
  <2>4. ~Preparing(c)' /\ ~Posts(c, a)'
    BY <2>3 DEF Preparing, Posts, Pending
  <2> QED
    BY <2>1, <2>2, <2>3, <2>4, PutCounts
<1> QED
  BY <1>1, <1>2, <1>3, <1>4, <1>5, <1>6, <1>7 DEF PrepareNext

LEMMA PostKind ==
  ASSUME Types, NEW c \in Calls, PostNext(c), NEW a \in Ids \ disturbed', Sound(a)
  PROVE  Passes(c, a) \/ Reads(c, a) \/ Counts(c, a)
<1> USE DEF AtPc, keepWalk, qq, history
<1> DEFINE own == <<c, k[c]>>
<1>1. CASE Post(c)
  <2>1. PICK result \in Results :
          /\ PostGroupMessage(c, own, result)
          /\ pc' = [pc EXCEPT ![c] = CASE result = "22009" -> "push" [] result = "40034025" -> "repost"
                            [] result = "deadline" -> "retry" [] OTHER -> "item"]
          /\ IF result \in {"ok", "error", "broken"} THEN AnswerError(c) \/ AnswerSent(c)
             ELSE UNCHANGED <<app, k, try>>
          /\ msg' = [msg EXCEPT ![own].event = @ /\ result # "40034025"]
    BY <1>1 DEF Post
  <2>2. pc[c] = "post" /\ Pending(c) /\ Target(c) = own /\ seqOf' = seqOf
    BY <1>1 DEF Post, Pending, Target
  <2>3. CASE result # "40034025"
    <3>1. PICK next \in {"push", "retry", "item"} : pc' = [pc EXCEPT ![c] = next]
      BY <2>1, <2>3 DEF Results
    <3>2. PostGroupMessage(c, Target(c), result)
      BY <2>1, <2>2
    <3> QED
      BY <2>2, <3>1, <3>2, PostedPasses
  <2>4. CASE result = "40034025"
    <3>1. pc' = [pc EXCEPT ![c] = "repost"] /\ k' = k
      BY <2>1, <2>4
    <3>2. pc'[c] = "repost"
      BY <3>1, OwnCall
    <3>3. accepted' = accepted
      BY <2>1, <2>4 DEF PostGroupMessage, Request, Refuse, Accept, Repeated, Lost
    <3>4. msg'[own].id = msg[own].id /\ msg'[own].seq = msg[own].seq
      <4>1. PICK x \in BOOLEAN : msg' = [msg EXCEPT ![own].event = @ /\ x]
        BY <2>1
      <4> QED
        BY <4>1 DEF Types, QqType
    <3>5. \A s, m : Brings(c, a, s, m)' => Brings(c, a, s, m)
      BY <2>2, <3>1, <3>2, <3>4 DEF Brings, Posts, Target, Number
    <3>6. ~Prepares(c, a)'
      BY <3>2 DEF Prepares, Preparing
    <3> QED
      BY <2>2, <3>3, <3>5, <3>6 DEF Passes, Holds
  <2> QED
    BY <2>3, <2>4
<1>2. CASE Push(c)
  <2>1. pc' = [pc EXCEPT ![c] = "item"] /\ seqOf' = seqOf /\ accepted' = accepted
    BY <1>2 DEF Push
  <2> QED
    BY <2>1, Idles
<1>3. CASE Repost(c) \/ RetryPost(c)
  <2>1. PICK result \in Results : PostGroupMessage(c, own, result)
    BY <1>3 DEF Repost, RetryPost
  <2>2. Pending(c) /\ Target(c) = own /\ seqOf' = seqOf
    BY <1>3 DEF Repost, RetryPost, NextTry, Pending, Target
  <2>3. PICK next \in {"item", "retry"} : pc' = [pc EXCEPT ![c] = next]
    BY <1>3 DEF Repost, RetryPost, NextTry
  <2> QED
    BY <2>1, <2>2, <2>3, PostedPasses
<1>4. CASE RetryGet(c)
  <2>1. /\ pc' = [pc EXCEPT ![c] = "reput"] /\ GetSeq(c, msg[own].id)
        /\ UNCHANGED <<seqOf, accepted, msg, k>>
    BY <1>4 DEF RetryGet
  <2>2. Counter(c)' = msg[own].id
    BY <2>1, OwnCall DEF Counter
  <2> QED
    BY <2>1, <2>2, GetReads
<1>5. CASE RetryPut(c)
  <2>1. /\ pc[c] = "reput" /\ PutSeq(c, msg[own].id)
        /\ msg' = [msg EXCEPT ![own].seq = n[c] + 1]
        /\ accepted' = accepted
    BY <1>5 DEF RetryPut
  <2>2. PICK next \in {"retryPost", "item", "retry"} :
          pc' = [pc EXCEPT ![c] = next] /\ (next = "retryPost" => k' = k)
    BY <1>5 DEF RetryPut, NextTry
  <2>3. Counter(c) = msg[own].id /\ pc'[c] = next
    BY <2>1, <2>2, OwnCall DEF Counter
  <2>4. own \in Messages
    BY <2>1, OwnIn DEF HasItem
  <2>5. msg'[own].id = msg[own].id /\ msg'[own].seq = n[c] + 1
    BY <2>1, <2>4 DEF Types, QqType
  <2>6. Posts(c, a)' => Counter(c) = a /\ Number(c)' = n[c] + 1
    BY <2>2, <2>3, <2>5 DEF Posts, Pending, Target, Number
  <2>7. ~Preparing(c)'
    BY <2>3 DEF Preparing
  <2> QED
    BY <2>1, <2>2, <2>3, <2>6, <2>7, PutCounts
<1> QED
  BY <1>1, <1>2, <1>3, <1>4, <1>5 DEF PostNext

LEMMA CallSound ==
  ASSUME Types, SeqInv, NEW c \in Calls, CallNext(c) PROVE SeqInv'
<1> SUFFICES ASSUME NEW a \in Ids \ disturbed' PROVE Sound(a)'
  BY DEF SeqInv
<1>1. disturbed \subseteq disturbed'
  BY Own DEF OwnStep
<1>2. Sound(a)
  BY <1>1 DEF SeqInv
<1>3. OthersKeep(c, a)
  BY Others
<1>4. Passes(c, a) \/ Reads(c, a) \/ Counts(c, a)
  BY <1>2, WalkKind, PrepareKind, PostKind, ResendPasses DEF CallNext
<1> QED
  BY <1>2, <1>3, <1>4, PassesSound, ReadsSound, CountsSound
-----------------------------------------------------------------------------
\* The cleanup disturbs the counters it clears; those it does not were 0.
LEMMA UntouchedSound ==
  ASSUME NEW a \in Ids, Sound(a), seqOf'[a] = seqOf[a],
         UNCHANGED <<pc, id, n, k, cur, msg, accepted>>
  PROVE  Sound(a)'
<1>1. \A c \in Calls : /\ Prepares(c, a)' <=> Prepares(c, a)
                       /\ \A s, m : Brings(c, a, s, m)' <=> Brings(c, a, s, m)
  BY DEF Prepares, Preparing, Counter, Brings, Posts, Pending, Target, Number
<1>2. \A s, m : Holds(a, s, m)' <=> Holds(a, s, m)
  BY <1>1 DEF Holds
<1>3. \A s : Used(a, s)' <=> Used(a, s)
  BY <1>2 DEF Used
<1>4. Alone(a)' /\ Fresh(a)' /\ Once(a)'
  BY <1>1, <1>2 DEF Sound, Alone, Fresh, Once
<1>5. Counted(a)'
  BY <1>3 DEF Sound, Counted
<1>6. Kept(a)'
  BY <1>1, <1>2 DEF Sound, Kept, Used
<1> QED
  BY <1>4, <1>5, <1>6 DEF Sound

LEMMA CleanSound == ASSUME Types, SeqInv, CleanStack \/ CleanSeqs PROVE SeqInv'
<1> SUFFICES ASSUME NEW a \in Ids \ disturbed' PROVE Sound(a)'
  BY DEF SeqInv
<1>1. UNCHANGED <<pc, id, n, k, cur, msg, accepted>> /\ disturbed \subseteq disturbed'
  BY DEF CleanStack, CleanSeqs, local, qq
<1>2. seqOf'[a] = seqOf[a]
  <2>1. CASE CleanStack
    BY <2>1 DEF CleanStack
  <2>2. CASE CleanSeqs
    <3>1. seqOf[a] \in Nat /\ ~(seqOf[a] > 0)
      BY <2>2 DEF CleanSeqs, Types, QqType
    <3> QED
      BY <2>2, <3>1 DEF CleanSeqs, Types, QqType
  <2> QED
    BY <2>1, <2>2
<1> QED
  BY <1>1, <1>2, UntouchedSound DEF SeqInv

LEMMA StutterSound == ASSUME SeqInv, UNCHANGED vars PROVE SeqInv'
BY UntouchedSound DEF SeqInv, vars, local, qq, history

LEMMA InitSound == Init => SeqInv
<1> SUFFICES ASSUME Init, NEW a \in Ids PROVE Sound(a)
  BY DEF SeqInv
<1>1. \A c \in Calls : ~Prepares(c, a) /\ ~Posts(c, a)
  BY DEF Init, Prepares, Preparing, Posts, Pending
<1>2. \A s, m : ~Holds(a, s, m)
  BY <1>1 DEF Init, Holds, Brings
<1> QED
  BY <1>1, <1>2 DEF Sound, Alone, Fresh, Counted, Kept, Once, Used

\* QQ refuses a number as another message's; of an id that is not disturbed every
\* number it has seen is the one of the message that brings it.
LEMMA RefusedDisturbed ==
  ASSUME Types, SeqInv, SeqReuseExplained, [Next]_vars PROVE SeqReuseExplained'
<1>1. ASSUME NEW c \in Calls, Pending(c), NEW result, Request(c, Target(c), result)
      PROVE  refused' \subseteq disturbed
  <2>1. CASE Refuse(c, Target(c), result) \/ Accept(c, Target(c), result)
    BY <2>1 DEF Refuse, Accept, SeqReuseExplained
  <2>2. CASE Repeated(Target(c), result)
    <3> DEFINE a == msg[Target(c)].id
    <3>1. CASE Target(c) \in Seen(a, Number(c))
      BY <2>2, <3>1 DEF Repeated, Number, SeqReuseExplained
    <3>2. CASE Target(c) \notin Seen(a, Number(c))
      <4>1. PICK x \in Messages : <<a, Number(c), x>> \in accepted /\ x # Target(c)
        BY <2>2, <3>2 DEF Repeated, Number, Seen
      <4>2. a \in Ids
        BY <4>1 DEF Types, QqType
      <4>3. Holds(a, Number(c), x) /\ Holds(a, Number(c), Target(c))
        BY <1>1, <4>1 DEF Holds, Brings, Posts
      <4>4. a \in disturbed
        <5>1. Target(c) \in Messages /\ Number(c) \in Nat
          BY <1>1, NumberIn
        <5> HIDE DEF a
        <5> QED
          BY <4>1, <4>2, <4>3, <5>1 DEF SeqInv, Sound, Once
      <4> QED
        BY <2>2, <4>4 DEF Repeated, SeqReuseExplained
    <3> QED
      BY <3>1, <3>2
  <2> QED
    BY <1>1, <2>1, <2>2 DEF Request
<1>2. CASE \E c \in Calls : CallNext(c)
  <2>1. PICK c \in Calls : CallNext(c)
    BY <1>2
  <2>2. disturbed \subseteq disturbed'
    BY <2>1, Own DEF OwnStep
  <2>3. CASE PostOld(c) \/ Post(c) \/ Repost(c) \/ RetryPost(c) \/ Resend(c)
    <3>1. Pending(c) /\ \E result : Request(c, Target(c), result)
      BY <2>3 DEF PostOld, Post, Repost, RetryPost, Resend, PostGroupMessage, Pending, Target
    <3> QED
      BY <1>1, <2>2, <3>1 DEF SeqReuseExplained
  <2>4. CASE ~(PostOld(c) \/ Post(c) \/ Repost(c) \/ RetryPost(c) \/ Resend(c))
    <3>1. refused' = refused
      <4>1. CASE StackNext(c)
        BY <2>4, <4>1 DEF StackNext, Start, SkipGroup, Visit, Stamp, Remove, PushOld, EndWalk, qq
      <4>2. CASE PrepareNext(c)
        BY <4>2 DEF PrepareNext, BeginItem, Done, Abandon, SkipItem, PutText, PutUpload, Uploaded,
           UploadFails, UploadedNothing, GetAgain, PutAgain, qq
      <4>3. CASE PostNext(c)
        BY <2>4, <4>3 DEF PostNext, Push, RetryGet, RetryPut, qq
      <4> QED
        BY <2>1, <2>4, <4>1, <4>2, <4>3 DEF CallNext
    <3> QED
      BY <2>2, <3>1 DEF SeqReuseExplained
  <2> QED
    BY <2>3, <2>4
<1>3. CASE CleanStack \/ CleanSeqs
  BY <1>3 DEF CleanStack, CleanSeqs, qq, SeqReuseExplained
<1>4. CASE UNCHANGED vars
  BY <1>4 DEF vars, qq, history, SeqReuseExplained
<1> QED
  BY <1>2, <1>3, <1>4 DEF Next

\* A number is refused as another message's only under a message id that two calls prepared
\* messages for at a time, or that a quote used with the counter of another, or whose
\* counter the cleanup cleared: whatever QQ refuses, however often calls retry and the HTTP
\* client sends again, and whoever stamps a stacked message in between.
THEOREM SeqReuse == Spec => []SeqReuseExplained
<1>1. Init => SeqReuseExplained
  BY DEF Init, SeqReuseExplained
<1>2. Types /\ SeqInv /\ [Next]_vars => SeqInv'
  BY StepTypes, CallSound, CleanSound, StutterSound DEF Next
<1>3. Types /\ SeqInv /\ SeqReuseExplained /\ [Next]_vars => SeqReuseExplained'
  BY RefusedDisturbed
<1> QED
  BY InitTypes, InitSound, StepTypes, <1>1, <1>2, <1>3, PTL DEF Spec
=============================================================================
