--------------------------- MODULE GroupSendProofs ---------------------------
(* Messages to groups, for any number of calls, items, stacked messages,      *)
(* failures and retries: the types, what leaves the stack, and what the       *)
(* application is told.                                                       *)
EXTENDS GroupSend, SequenceTheorems, TLAPS

USE DEF app

-----------------------------------------------------------------------------
(* Types *)

\* What may be stacked, or read from the stack: not the message that its call has
\* in hand.
Stackable == Range(Old) \cup {m \in Sent : m[2] < k[m[1]]}

HasCur(c)  == pc[c] \in {"stamp", "postOld", "remove", "pushOld"}
HasItem(c) == pc[c] \in {"put", "upload", "get", "putAgain", "post", "push", "repost",
                         "retry", "reput", "retryPost"}
Places     == {"idle", "visit", "stamp", "postOld", "remove", "pushOld", "item", "put", "upload",
               "get", "putAgain", "post", "push", "repost", "retry", "reput", "retryPost", "done"}

HeapType == /\ heap \in Seq(Seq(Stackable))
            /\ stack \in [arr : DOMAIN heap, len : Nat] /\ stack.len <= Len(heap[stack.arr])
            /\ view \in [Calls -> [arr : DOMAIN heap, len : Nat]]
            /\ \A c \in Calls : view[c].len <= Len(heap[view[c].arr])

CallType == /\ pc \in [Calls -> Places]
            /\ id \in [Calls -> Ids \cup {None}]
            /\ \A c \in Calls : pc[c] = "visit" \/ HasCur(c) => id[c] \in Ids
            /\ n \in [Calls -> Nat] /\ try \in [Calls -> 1..RetryCount]
            /\ k \in [Calls -> Nat \ {0}]
            /\ \A c \in Calls : k[c] <= Len(Items[c]) + 1 /\ (HasItem(c) => k[c] <= Len(Items[c]))
            /\ i \in [Calls -> Nat \ {0}]
            /\ cur \in [Calls -> Messages \cup {None}]
            /\ \A c \in Calls : HasCur(c) => cur[c] \in Stackable

AppType == /\ resp \in [Calls -> Messages \cup {None}]
           /\ answer \in [Sent -> {None} \cup [status : {"ok"}, error : BOOLEAN,
                                               names : Messages \cup {None}]]

QqType == /\ seqOf \in [Ids \cup {None} -> Nat]
          /\ msg \in [Messages -> [id : Ids \cup {None}, seq : Nat, event : BOOLEAN]]
          /\ AppType
          /\ attempt \in [Calls -> 1..HttpRetries + 1]
          /\ accepted \subseteq Ids \X Nat \X Messages
          /\ delivered \subseteq Messages
          /\ refused \subseteq Ids /\ disturbed \subseteq Ids /\ overlapped \subseteq Calls
          /\ cleaner \in {"wait", "seqs"} /\ failures \in 0..MaxFailures

Types == HeapType /\ CallType /\ QqType

LEMMA ItemsLen == \A c \in Calls : Len(Items[c]) \in Nat /\ DOMAIN Items[c] = 1..Len(Items[c])
BY ItemsAssumption

LEMMA SeqMono == ASSUME NEW S, NEW T, S \subseteq T PROVE Seq(S) \subseteq Seq(T)
OBVIOUS

LEMMA SeqSeqMono == ASSUME NEW S, NEW T, S \subseteq T PROVE Seq(Seq(S)) \subseteq Seq(Seq(T))
BY SeqMono

LEMMA StackableIn == Stackable \subseteq Messages
BY DEF Stackable, Messages

LEMMA InitTypes == Init => Types
<1> SUFFICES ASSUME Init PROVE Types
  OBVIOUS
<1>1. Old \in Seq(Stackable)
  BY OldAssumption, SeqMono DEF Stackable
<1>2. HeapType
  <2>1. /\ heap \in Seq(Seq(Stackable)) /\ DOMAIN heap = {1} /\ heap[1] = Old
        /\ Len(Old) \in Nat
    BY <1>1 DEF Init
  <2>2. stack = [arr |-> 1, len |-> Len(Old)] /\ view = [c \in Calls |-> [arr |-> 1, len |-> 0]]
    BY DEF Init, Nothing
  <2> QED
    BY <2>1, <2>2 DEF HeapType
<1>3. CallType
  <2>1. \A c \in Calls : pc[c] = "idle"
    BY DEF Init
  <2>2. \A c \in Calls : pc[c] # "visit" /\ ~HasCur(c) /\ ~HasItem(c)
    BY <2>1 DEF HasCur, HasItem
  <2>3. /\ pc \in [Calls -> Places] /\ id \in [Calls -> Ids \cup {None}]
        /\ n \in [Calls -> Nat] /\ try \in [Calls -> 1..RetryCount] /\ k \in [Calls -> Nat \ {0}]
        /\ i \in [Calls -> Nat \ {0}] /\ cur \in [Calls -> Messages \cup {None}]
    BY BoundsAssumption DEF Init, Places
  <2>4. \A c \in Calls : k[c] <= Len(Items[c]) + 1
    BY ItemsLen DEF Init
  <2> QED
    BY <2>2, <2>3, <2>4 DEF CallType
<1>4. QqType
  BY BoundsAssumption DEF Init, QqType, AppType, Blank
<1> QED
  BY <1>2, <1>3, <1>4 DEF Types

\* What may be stacked only grows: k counts up.
LEMMA Grown ==
  ASSUME Types, NEW c \in Calls,
         k' = k \/ k' = [k EXCEPT ![c] = @ + 1]
  PROVE  Stackable \subseteq Stackable'
<1>0. k \in [Calls -> Nat \ {0}]
  BY DEF Types, CallType
<1>1. \A d \in Calls : k[d] \in Nat /\ k'[d] \in Nat /\ k[d] <= k'[d]
  BY <1>0
<1> SUFFICES ASSUME NEW m \in Sent, m[2] < k[m[1]] PROVE m[2] < k'[m[1]]
  BY DEF Stackable
<1>3. m[1] \in Calls /\ m[2] \in Nat
  BY ItemsLen DEF Sent
<1> QED
  BY <1>1, <1>3

LEMMA HeapKept ==
  ASSUME Types, Stackable \subseteq Stackable', UNCHANGED <<heap, stack, view>> PROVE HeapType'
BY SeqSeqMono DEF Types, HeapType

LEMMA PushTypes ==
  ASSUME Types, Stackable \subseteq Stackable', NEW m, m \in Stackable', PushGlobalStack(m), view' = view
  PROVE  HeapType' /\ overlapped' \subseteq Calls
<1> DEFINE S == Stackable'
<1>1. /\ heap \in Seq(Seq(S)) /\ stack.arr \in DOMAIN heap /\ stack.len \in Nat
      /\ stack.len <= Len(heap[stack.arr]) /\ stack = [arr |-> stack.arr, len |-> stack.len]
      /\ view \in [Calls -> [arr : DOMAIN heap, len : Nat]]
      /\ \A c \in Calls : view[c].len <= Len(heap[view[c].arr])
  BY SeqSeqMono DEF Types, HeapType
<1>2. Cells \in Seq(S)
  BY <1>1 DEF Cells
<1>3. overlapped' \subseteq Calls
  BY DEF PushGlobalStack, Disturb, Types, QqType, AppType
<1> HIDE DEF S
<1>4. CASE stack.len < Len(Cells)
  <2> DEFINE row == [Cells EXCEPT ![stack.len + 1] = m]
  <2>1. heap' = [heap EXCEPT ![stack.arr] = row] /\ stack' = [stack EXCEPT !.len = @ + 1]
    BY <1>4 DEF PushGlobalStack, Cells
  <2>2. row \in Seq(S) /\ Len(row) = Len(Cells)
    <3>1. m \in S /\ stack.len + 1 \in 1..Len(Cells)
      BY <1>1, <1>2, <1>4 DEF S
    <3> QED
      BY <1>2, <3>1, ExceptSeq
  <2> HIDE DEF row
  <2>3. heap' \in Seq(Seq(S)) /\ DOMAIN heap' = DOMAIN heap
    BY <1>1, <2>1, <2>2
  <2>4. \A a \in DOMAIN heap : Len(heap'[a]) = Len(heap[a])
    BY <1>1, <2>1, <2>2 DEF Cells
  <2>5. stack' \in [arr : DOMAIN heap', len : Nat] /\ stack'.len <= Len(heap'[stack'.arr])
    <3>1. stack'.arr = stack.arr /\ stack'.len = stack.len + 1 /\ stack' = [arr |-> stack.arr, len |-> stack.len + 1]
      BY <1>1, <2>1
    <3>2. Len(heap'[stack.arr]) = Len(Cells) /\ Len(Cells) \in Nat
      BY <1>1, <1>2, <2>4 DEF Cells
    <3> QED
      BY <1>1, <1>4, <2>3, <3>1, <3>2
  <2> QED
    BY <1>1, <1>3, <2>3, <2>4, <2>5 DEF HeapType, S
<1>5. CASE ~(stack.len < Len(Cells))
  <2> DEFINE row == [j \in 1..Cap(Cells) |-> IF j <= stack.len THEN Cells[j] ELSE m]
  <2>1. heap' = Append(heap, row) /\ stack' = [arr |-> Len(heap) + 1, len |-> stack.len + 1]
    BY <1>5 DEF PushGlobalStack
  <2>2. Len(Cells) = stack.len
    BY <1>1, <1>2, <1>5 DEF Cells
  <2>3. Cap(Cells) \in Nat /\ Cap(Cells) >= stack.len + 1
    BY <1>1, <1>2, <2>2 DEF Cap
  <2>4. row \in Seq(S) /\ Len(row) = Cap(Cells)
    <3>1. \A j \in 1..Cap(Cells) : row[j] \in S
      BY <1>1, <1>2, <2>2, <2>3 DEF S
    <3> QED
      BY <2>3, <3>1
  <2> HIDE DEF row
  <2>5. /\ heap' \in Seq(Seq(S)) /\ Len(heap') = Len(heap) + 1 /\ heap'[Len(heap) + 1] = row
        /\ \A a \in DOMAIN heap : a \in DOMAIN heap' /\ heap'[a] = heap[a]
    BY <1>1, <2>1, <2>4
  <2>6. stack' \in [arr : DOMAIN heap', len : Nat] /\ stack'.len <= Len(heap'[stack'.arr])
    BY <1>1, <2>1, <2>3, <2>4, <2>5
  <2> QED
    BY <1>1, <1>3, <2>5, <2>6 DEF HeapType, S
<1> QED
  BY <1>4, <1>5

LEMMA RemoveTypes ==
  ASSUME Types, NEW c, NEW index \in Nat \ {0}, RemoveFromGlobalStack(c, index),
         Stackable' = Stackable, view' = view
  PROVE  HeapType' /\ overlapped' \subseteq Calls
<1>1. /\ heap \in Seq(Seq(Stackable)) /\ stack.arr \in DOMAIN heap /\ stack.len \in Nat
      /\ stack.len <= Len(heap[stack.arr]) /\ stack = [arr |-> stack.arr, len |-> stack.len]
      /\ view \in [Calls -> [arr : DOMAIN heap, len : Nat]]
      /\ \A d \in Calls : view[d].len <= Len(heap[view[d].arr])
  BY DEF Types, HeapType
<1>2. overlapped' \subseteq Calls
  BY DEF RemoveFromGlobalStack, Disturb, Types, QqType, AppType
<1>3. CASE index <= stack.len
  <2> DEFINE row == [j \in DOMAIN Cells |-> IF j \in index..stack.len - 1
                                            THEN Cells[j + 1] ELSE Cells[j]]
  <2>1. /\ heap' = [heap EXCEPT ![stack.arr] = row]
        /\ stack' = [stack EXCEPT !.len = @ - 1]
    BY <1>3 DEF RemoveFromGlobalStack, Cells
  <2>2. Cells \in Seq(Stackable)
    BY <1>1 DEF Cells
  <2>3. \A j \in 1..Len(Cells) : row[j] \in Stackable
    BY <1>1, <2>2 DEF Cells
  <2>4. row \in Seq(Stackable) /\ Len(row) = Len(Cells)
    <3>1. row = [j \in 1..Len(Cells) |-> row[j]]
      BY <2>2
    <3> HIDE DEF row
    <3>2. row \in [1..Len(Cells) -> Stackable]
      BY <2>3, <3>1
    <3> QED
      BY <2>2, <3>2
  <2> HIDE DEF row
  <2>5. /\ heap' \in Seq(Seq(Stackable)) /\ DOMAIN heap' = DOMAIN heap
        /\ \A a \in DOMAIN heap : Len(heap'[a]) = Len(heap[a])
    BY <1>1, <2>1, <2>4, ExceptSeq DEF Cells
  <2>6. stack' = [arr |-> stack.arr, len |-> stack.len - 1]
    BY <1>1, <2>1
  <2>7. stack' \in [arr : DOMAIN heap', len : Nat] /\ stack'.len <= Len(heap'[stack'.arr])
    <3>1. stack.len - 1 \in Nat /\ stack.len - 1 <= stack.len
      BY <1>1, <1>3
    <3>2. Len(heap'[stack.arr]) = Len(heap[stack.arr]) /\ Len(heap[stack.arr]) \in Nat
      BY <1>1, <2>5
    <3> QED
      BY <1>1, <2>5, <2>6, <3>1, <3>2
  <2> QED
    BY <1>1, <1>2, <2>5, <2>7 DEF HeapType
<1>4. CASE ~(index <= stack.len)
  <2>1. UNCHANGED <<heap, stack>>
    BY <1>4 DEF RemoveFromGlobalStack
  <2> QED
    BY <1>1, <1>2, <2>1 DEF HeapType
<1> QED
  BY <1>3, <1>4

\* A step of a call changes what is its own.
Changed(f, g, c, S) == g = f \/ \E x \in S : g = [f EXCEPT ![c] = x]

LEMMA ChangedType ==
  ASSUME NEW C, NEW S, NEW f \in [C -> S], NEW g, NEW c \in C, Changed(f, g, c, S)
  PROVE  g \in [C -> S]
BY DEF Changed

LEMMA CallStep ==
  ASSUME Types, NEW c \in Calls, NEW next \in Places,
         pc' = [pc EXCEPT ![c] = next],
         Changed(id, id', c, Ids \cup {None}), Changed(n, n', c, Nat),
         Changed(try, try', c, 1..RetryCount), Changed(k, k', c, Nat \ {0}),
         Changed(i, i', c, Nat \ {0}), Changed(cur, cur', c, Messages \cup {None}),
         next = "visit" \/ HasCur(c)' => id'[c] \in Ids,
         k' = k \/ k'[c] <= Len(Items[c]) + 1, HasItem(c)' => k'[c] <= Len(Items[c]),
         HasCur(c)' => cur'[c] \in Stackable,
         Stackable \subseteq Stackable'
  PROVE  CallType'
<1>1. CallType
  BY DEF Types
<1>2. /\ pc' \in [Calls -> Places] /\ id' \in [Calls -> Ids \cup {None}]
      /\ n' \in [Calls -> Nat] /\ try' \in [Calls -> 1..RetryCount]
      /\ k' \in [Calls -> Nat \ {0}] /\ i' \in [Calls -> Nat \ {0}]
      /\ cur' \in [Calls -> Messages \cup {None}]
      /\ \A d \in Calls : d # c => id'[d] = id[d] /\ k'[d] = k[d] /\ cur'[d] = cur[d]
  <2>1. pc' \in [Calls -> Places]
    BY <1>1 DEF CallType
  <2>2. id' \in [Calls -> Ids \cup {None}] /\ \A d \in Calls : d # c => id'[d] = id[d]
    <3>1. id \in [Calls -> Ids \cup {None}]
      BY <1>1 DEF CallType
    <3>2. id' \in [Calls -> Ids \cup {None}]
      BY <3>1, ChangedType
    <3>3. \A d \in Calls : d # c => id'[d] = id[d]
      BY <3>1 DEF Changed
    <3> QED
      BY <3>2, <3>3
  <2>3. n' \in [Calls -> Nat]
    <3>1. n \in [Calls -> Nat]
      BY <1>1 DEF CallType
    <3> QED
      BY <3>1, ChangedType
  <2>4. try' \in [Calls -> 1..RetryCount]
    <3>1. try \in [Calls -> 1..RetryCount]
      BY <1>1 DEF CallType
    <3> QED
      BY <3>1, ChangedType
  <2>5. k' \in [Calls -> Nat \ {0}] /\ \A d \in Calls : d # c => k'[d] = k[d]
    <3>1. k \in [Calls -> Nat \ {0}]
      BY <1>1 DEF CallType
    <3>2. k' \in [Calls -> Nat \ {0}]
      BY <3>1, ChangedType
    <3>3. \A d \in Calls : d # c => k'[d] = k[d]
      BY <3>1 DEF Changed
    <3> QED
      BY <3>2, <3>3
  <2>6. i' \in [Calls -> Nat \ {0}]
    <3>1. i \in [Calls -> Nat \ {0}]
      BY <1>1 DEF CallType
    <3> QED
      BY <3>1, ChangedType
  <2>7. cur' \in [Calls -> Messages \cup {None}] /\ \A d \in Calls : d # c => cur'[d] = cur[d]
    <3>1. cur \in [Calls -> Messages \cup {None}]
      BY <1>1 DEF CallType
    <3>2. cur' \in [Calls -> Messages \cup {None}]
      BY <3>1, ChangedType
    <3>3. \A d \in Calls : d # c => cur'[d] = cur[d]
      BY <3>1 DEF Changed
    <3> QED
      BY <3>2, <3>3
  <2> QED
    BY <2>1, <2>2, <2>3, <2>4, <2>5, <2>6, <2>7
<1>3. pc'[c] = next /\ \A d \in Calls : d # c => /\ pc'[d] = pc[d] /\ id'[d] = id[d]
                                                /\ k'[d] = k[d] /\ cur'[d] = cur[d]
  BY <1>1, <1>2 DEF CallType
<1>4. \A d \in Calls : d # c => (HasCur(d)' <=> HasCur(d)) /\ (HasItem(d)' <=> HasItem(d))
  BY <1>3 DEF HasCur, HasItem
<1>5. ASSUME NEW d \in Calls
      PROVE  /\ pc'[d] = "visit" \/ HasCur(d)' => id'[d] \in Ids
             /\ k'[d] <= Len(Items[d]) + 1 /\ (HasItem(d)' => k'[d] <= Len(Items[d]))
             /\ HasCur(d)' => cur'[d] \in Stackable'
  BY <1>1, <1>3, <1>4 DEF CallType
<1> QED
  BY <1>2, <1>5 DEF CallType

\* A step that goes on with the same item, or with the same stacked message.
LEMMA SameCall ==
  ASSUME Types, NEW c \in Calls, NEW next \in Places,
         pc' = [pc EXCEPT ![c] = next], UNCHANGED <<heap, stack, view, id, k, cur>>,
         Changed(n, n', c, Nat), Changed(try, try', c, 1..RetryCount), Changed(i, i', c, Nat \ {0}),
         next \in {"visit", "stamp", "postOld", "remove", "pushOld"} => pc[c] = "visit" \/ HasCur(c),
         next \in {"stamp", "postOld", "remove", "pushOld"} => HasCur(c),
         next \in {"item", "visit", "stamp", "postOld", "remove", "pushOld", "done"}
           \/ k[c] <= Len(Items[c])
  PROVE  HeapType' /\ CallType'
<1>1. Stackable' = Stackable
  BY DEF Stackable
<1>2. HeapType'
  BY <1>1, HeapKept
<1>3. pc'[c] = next
  BY DEF Types, CallType
<1>4. next = "visit" \/ HasCur(c)' => id'[c] \in Ids
  BY <1>3 DEF HasCur, Types, CallType
<1>5. HasCur(c)' => cur'[c] \in Stackable
  BY <1>3 DEF HasCur, Types, CallType
<1>6. HasItem(c)' => k'[c] <= Len(Items[c])
  BY <1>3 DEF HasItem
<1>7. Changed(id, id', c, Ids \cup {None}) /\ Changed(k, k', c, Nat \ {0})
      /\ Changed(cur, cur', c, Messages \cup {None})
  BY DEF Changed
<1>8. k'[c] <= Len(Items[c]) + 1
  BY DEF Types, CallType
<1> QED
  BY <1>1, <1>2, <1>4, <1>5, <1>6, <1>7, <1>8, CallStep

\* The message in hand is one of the call.
LEMMA OwnSent ==
  ASSUME Types, NEW c \in Calls, HasItem(c)
  PROVE  /\ k \in [Calls -> Nat \ {0}] /\ k[c] \in 1..Len(Items[c]) /\ Len(Items[c]) \in Nat
         /\ <<c, k[c]>> \in Sent
<1>1. k \in [Calls -> Nat \ {0}] /\ k[c] <= Len(Items[c])
  BY DEF Types, CallType
<1>2. Len(Items[c]) \in Nat /\ DOMAIN Items[c] = 1..Len(Items[c])
  BY ItemsLen
<1>3. k[c] \in 1..Len(Items[c])
  BY <1>1, <1>2
<1> QED
  BY <1>1, <1>2, <1>3 DEF Sent

LEMMA OwnIn == ASSUME Types, NEW c \in Calls, HasItem(c) PROVE <<c, k[c]>> \in Messages
BY OwnSent DEF Messages

\* A step that goes on to the next item.
LEMMA NextK ==
  ASSUME Types, NEW c \in Calls, HasItem(c), k' = [k EXCEPT ![c] = @ + 1],
         Changed(try, try', c, 1..RetryCount),
         pc' = [pc EXCEPT ![c] = "item"], UNCHANGED <<id, n, i, cur>>
  PROVE  CallType' /\ Stackable \subseteq Stackable' /\ <<c, k[c]>> \in Stackable'
<1>1. k \in [Calls -> Nat \ {0}] /\ k[c] \in 1..Len(Items[c]) /\ Len(Items[c]) \in Nat
  BY OwnSent
<1>2. Stackable \subseteq Stackable'
  BY <1>1, Grown
<1>3. <<c, k[c]>> \in Stackable'
  <2>1. <<c, k[c]>> \in Sent
    BY OwnSent
  <2>2. k[c] < k'[c]
    BY <1>1
  <2> QED
    BY <2>1, <2>2 DEF Stackable
<1>4. pc'[c] = "item"
  BY DEF Types, CallType
<1>5. ~HasCur(c)' /\ ~HasItem(c)'
  BY <1>4 DEF HasCur, HasItem
<1>6. Changed(k, k', c, Nat \ {0}) /\ k'[c] <= Len(Items[c]) + 1
  <2>1. k[c] + 1 \in Nat \ {0} /\ k'[c] = k[c] + 1 /\ k[c] + 1 <= Len(Items[c]) + 1
    BY <1>1
  <2> QED
    BY <2>1 DEF Changed
<1>7. /\ Changed(id, id', c, Ids \cup {None}) /\ Changed(n, n', c, Nat)
      /\ Changed(i, i', c, Nat \ {0}) /\ Changed(cur, cur', c, Messages \cup {None})
  BY DEF Changed
<1>8. CallType'
  BY <1>2, <1>5, <1>6, <1>7, CallStep DEF Places
<1> QED
  BY <1>2, <1>3, <1>8

\* An answer of any form.
Answers(c) == \E error \in BOOLEAN, names \in Messages \cup {None} : Answer(c, error, names)

LEMMA AnswerForms ==
  ASSUME Types, NEW c \in Calls, HasItem(c), AnswerError(c) \/ AnswerSent(c) PROVE Answers(c)
BY OwnIn DEF AnswerError, AnswerSent, Answers

\* A step that answers.
LEMMA NextItem ==
  ASSUME Types, NEW c \in Calls, HasItem(c), Answers(c),
         pc' = [pc EXCEPT ![c] = "item"], UNCHANGED <<id, n, i, cur>>
  PROVE  CallType' /\ Stackable \subseteq Stackable' /\ <<c, k[c]>> \in Stackable' /\ AppType'
<1>1. PICK error \in BOOLEAN, names \in Messages \cup {None} : Answer(c, error, names)
  BY DEF Answers
<1>2. k' = [k EXCEPT ![c] = @ + 1] /\ Changed(try, try', c, 1..RetryCount)
  <2>1. 1 \in 1..RetryCount
    BY BoundsAssumption
  <2> QED
    BY <1>1, <2>1 DEF Answer, Changed
<1>3. AppType'
  <2>1. \E x \in {None, names} : resp' = [resp EXCEPT ![c] = x]
    BY <1>1 DEF Answer
  <2>2. answer' = [answer EXCEPT ![<<c, k[c]>>] =
                     [status |-> "ok", error |-> error, names |-> names]]
    BY <1>1 DEF Answer
  <2> QED
    BY <2>1, <2>2, ZenonT(30) DEF AppType, Types, QqType
<1> QED
  BY <1>2, <1>3, NextK

\* What QQ does.
LEMMA PostTypes ==
  ASSUME Types, NEW c \in Calls, NEW m \in Messages, NEW result, Request(c, m, result)
  PROVE  /\ accepted' \subseteq Ids \X Nat \X Messages /\ delivered' \subseteq Messages
         /\ refused' \subseteq Ids /\ failures' \in 0..MaxFailures
<1>1. /\ msg[m].id \in Ids \cup {None} /\ msg[m].seq \in Nat
      /\ accepted \subseteq Ids \X Nat \X Messages /\ delivered \subseteq Messages
      /\ refused \subseteq Ids /\ failures \in 0..MaxFailures
  BY DEF Types, QqType, AppType
<1>2. Fails(c) => failures' \in 0..MaxFailures
  BY <1>1, BoundsAssumption DEF Fails
<1>3. CASE Refuse(c, m, result)
  BY <1>1, <1>2, <1>3 DEF Refuse
<1>4. CASE Accept(c, m, result)
  BY <1>1, <1>2, <1>4 DEF Accept
<1>5. CASE Repeated(m, result)
  BY <1>1, <1>5 DEF Repeated, Seen
<1> QED
  BY <1>3, <1>4, <1>5 DEF Request

LEMMA AttemptTypes ==
  ASSUME Types, NEW c \in Calls, NEW m, NEW result, PostGroupMessage(c, m, result)
  PROVE  attempt' \in [Calls -> 1..HttpRetries + 1] /\ Request(c, m, result)
<1>1. 1 \in 1..HttpRetries + 1
  BY BoundsAssumption
<1> QED
  BY <1>1 DEF PostGroupMessage, Types, QqType, AppType

\* The walk
LEMMA StartTypes == ASSUME Types, NEW c \in Calls, Start(c) PROVE Types'
<1> USE DEF Start, AtPc, qq, history, cleanup
<1>1. Stackable' = Stackable
  BY DEF Stackable
<1>2. /\ heap \in Seq(Seq(Stackable))
      /\ stack.arr \in DOMAIN heap /\ stack.len \in Nat /\ stack.len <= Len(heap[stack.arr])
  BY DEF Types, HeapType
<1>3. HeapType'
  <2>1. CASE view' = view
    BY <1>1, <2>1 DEF Types, HeapType
  <2>2. CASE view' # view
    <3> DEFINE v == [stack EXCEPT !.len = IF @ < AtoPCount THEN @ ELSE AtoPCount]
    <3>1. view' = [view EXCEPT ![c] = v]
      BY <2>2
    <3>2. v.arr = stack.arr /\ v.len \in Nat /\ v.len <= stack.len /\ v = [arr |-> v.arr, len |-> v.len]
      BY <1>2, BoundsAssumption DEF Types, HeapType
    <3> HIDE DEF v
    <3>3. v \in [arr : DOMAIN heap, len : Nat] /\ v.len <= Len(heap[v.arr])
      BY <1>2, <3>2
    <3> QED
      BY <1>1, <3>1, <3>3 DEF Types, HeapType
  <2> QED
    BY <2>1, <2>2
<1>4. CallType'
  <2>1. PICK next \in {"visit", "item"} :
          /\ pc' = [pc EXCEPT ![c] = next]
          /\ \/ next = "visit" /\ \E a \in Ids : id' = [id EXCEPT ![c] = a]
             \/ next = "item" /\ id' = id
    OBVIOUS
  <2>2. pc'[c] = next /\ (next = "visit" => id'[c] \in Ids)
    BY <2>1 DEF Types, CallType
  <2>3. ~HasCur(c)' /\ ~HasItem(c)'
    BY <2>2 DEF HasCur, HasItem
  <2>4. Changed(id, id', c, Ids \cup {None})
    BY <2>1 DEF Changed
  <2> QED
    BY <1>1, <2>1, <2>2, <2>3, <2>4, CallStep DEF Changed, Places
<1>5. QqType'
  BY DEF Types, QqType, AppType
<1> QED
  BY <1>3, <1>4, <1>5 DEF Types

LEMMA SkipGroupTypes == ASSUME Types, NEW c \in Calls, SkipGroup(c) PROVE Types'
<1>1. /\ pc[c] = "visit" /\ pc' = [pc EXCEPT ![c] = "visit"] /\ i' = [i EXCEPT ![c] = @ + 1]
      /\ UNCHANGED <<heap, stack, view, id, k, cur, n, try, seqOf, msg, resp, answer, attempt, accepted, delivered,
                     refused, failures, disturbed, overlapped, cleaner, cleanups>>
  BY DEF SkipGroup, AtPc, NextIndex, qq, history, cleanup
<1>2. Changed(n, n', c, Nat) /\ Changed(try, try', c, 1..RetryCount) /\ Changed(i, i', c, Nat \ {0})
  <2>1. i[c] + 1 \in Nat \ {0}
    BY DEF Types, CallType
  <2> QED
    BY <1>1, <2>1 DEF Changed
<1>3. HeapType' /\ CallType'
  BY <1>1, <1>2, SameCall DEF Places
<1>4. QqType'
  BY <1>1 DEF Types, QqType, AppType
<1> QED
  BY <1>3, <1>4 DEF Types

LEMMA VisitTypes == ASSUME Types, NEW c \in Calls, Visit(c) PROVE Types'
<1> DEFINE m == heap[view[c].arr][i[c]]
<1>1. /\ pc[c] = "visit" /\ pc' = [pc EXCEPT ![c] = "stamp"] /\ i[c] <= view[c].len
      /\ cur' = [cur EXCEPT ![c] = m]
      /\ n' = [n EXCEPT ![c] = seqOf[id[c]]]
      /\ UNCHANGED <<heap, stack, seqOf, id, try, k, view, i, msg, resp, answer, attempt, accepted, delivered,
                     refused, failures, overlapped, cleaner, cleanups>>
  BY DEF Visit, AtPc, GetSeq, qq, cleanup
<1>2. disturbed' \subseteq Ids
  BY DEF Visit, GetSeq, Types, QqType, AppType
<1>3. m \in Stackable
  <2>1. /\ view[c].arr \in DOMAIN heap /\ heap \in Seq(Seq(Stackable)) /\ i[c] \in Nat \ {0}
        /\ view[c].len \in Nat /\ view[c].len <= Len(heap[view[c].arr])
    BY DEF Types, HeapType, CallType
  <2>2. heap[view[c].arr] \in Seq(Stackable)
    BY <2>1
  <2>3. i[c] \in 1..Len(heap[view[c].arr])
    BY <1>1, <2>1, <2>2
  <2> QED
    BY <2>2, <2>3
<1>4. id[c] \in Ids /\ seqOf[id[c]] \in Nat /\ m \in Messages
  BY <1>1, <1>3, StackableIn DEF Types, CallType, QqType, AppType
<1> HIDE DEF m
<1>5. pc'[c] = "stamp" /\ cur'[c] = m /\ Stackable' = Stackable
  BY <1>1 DEF Types, CallType, Stackable
<1>6. ~HasItem(c)'
  BY <1>5 DEF HasItem
<1>7. /\ Changed(id, id', c, Ids \cup {None}) /\ Changed(n, n', c, Nat)
      /\ Changed(try, try', c, 1..RetryCount) /\ Changed(k, k', c, Nat \ {0})
      /\ Changed(i, i', c, Nat \ {0}) /\ Changed(cur, cur', c, Messages \cup {None})
  BY <1>1, <1>4 DEF Changed
<1>8. CallType'
  BY <1>1, <1>3, <1>4, <1>5, <1>6, <1>7, CallStep DEF Places
<1>9. HeapType' /\ QqType'
  BY <1>1, <1>2, <1>5, HeapKept DEF Types, QqType, AppType
<1> QED
  BY <1>8, <1>9 DEF Types

LEMMA StampTypes == ASSUME Types, NEW c \in Calls, Stamp(c) PROVE Types'
<1>1. /\ pc[c] = "stamp" /\ pc' = [pc EXCEPT ![c] = "postOld"]
      /\ seqOf' = [seqOf EXCEPT ![id[c]] = n[c] + 1]
      /\ msg' = [msg EXCEPT ![cur[c]].id = id[c], ![cur[c]].seq = n[c] + 1]
      /\ UNCHANGED <<heap, stack, id, n, try, k, view, i, cur, resp, answer, attempt, accepted, delivered,
                     refused, failures, disturbed, overlapped, cleaner, cleanups>>
  BY DEF Stamp, AtPc, PutSeq, qq, history, cleanup
<1>2. HasCur(c) /\ id[c] \in Ids /\ n[c] \in Nat /\ cur[c] \in Messages
  BY <1>1, StackableIn DEF HasCur, Types, CallType
<1>3. Changed(n, n', c, Nat) /\ Changed(try, try', c, 1..RetryCount) /\ Changed(i, i', c, Nat \ {0})
  BY <1>1 DEF Changed
<1>4. HeapType' /\ CallType'
  BY <1>1, <1>2, <1>3, SameCall DEF Places
<1>5. seqOf' \in [Ids \cup {None} -> Nat]
  BY <1>1, <1>2 DEF Types, QqType, AppType
<1>6. msg' \in [Messages -> [id : Ids \cup {None}, seq : Nat, event : BOOLEAN]]
  BY <1>1, <1>2 DEF Types, QqType, AppType
<1> QED
  BY <1>1, <1>4, <1>5, <1>6 DEF Types, QqType, AppType

LEMMA PostOldTypes == ASSUME Types, NEW c \in Calls, PostOld(c) PROVE Types'
<1>1. PICK result \in Results : PostGroupMessage(c, cur[c], result)
  BY DEF PostOld
<1>2. PICK next \in {"remove", "pushOld", "visit"} : pc' = [pc EXCEPT ![c] = next]
  BY DEF PostOld, AtPc, Results
<1>3. /\ pc[c] = "postOld" /\ (i' = i \/ i' = [i EXCEPT ![c] = @ + 1])
      /\ UNCHANGED <<heap, stack, seqOf, id, n, try, k, view, cur, msg, resp, answer, disturbed, overlapped,
                     cleaner, cleanups>>
  BY DEF PostOld, NextIndex, history, cleanup
<1>4. HasCur(c) /\ cur[c] \in Messages
  BY <1>3, StackableIn DEF HasCur, Types, CallType
<1>5. Changed(n, n', c, Nat) /\ Changed(try, try', c, 1..RetryCount) /\ Changed(i, i', c, Nat \ {0})
  BY <1>3 DEF Changed, Types, CallType
<1>6. HeapType' /\ CallType'
  BY <1>2, <1>3, <1>4, <1>5, SameCall DEF Places
<1>7. QqType'
  BY <1>1, <1>3, <1>4, AttemptTypes, PostTypes DEF Types, QqType, AppType
<1> QED
  BY <1>6, <1>7 DEF Types

LEMMA RemoveStepTypes == ASSUME Types, NEW c \in Calls, Remove(c) PROVE Types'
<1>1. /\ pc[c] = "remove" /\ pc' = [pc EXCEPT ![c] = "visit"] /\ i' = [i EXCEPT ![c] = @ + 1]
      /\ RemoveFromGlobalStack(c, i[c])
      /\ UNCHANGED <<seqOf, id, n, try, k, view, cur, msg, resp, answer, attempt, accepted, delivered, refused,
                     failures, disturbed, cleaner, cleanups>>
  BY DEF Remove, AtPc, NextIndex, qq, cleanup
<1>2. i[c] \in Nat \ {0} /\ i[c] + 1 \in Nat \ {0} /\ id[c] \in Ids
  BY <1>1 DEF HasCur, Types, CallType
<1>3. Stackable' = Stackable
  BY <1>1 DEF Stackable
<1>4. HeapType' /\ overlapped' \subseteq Calls
  BY <1>1, <1>2, <1>3, RemoveTypes
<1>5. pc'[c] = "visit"
  BY <1>1 DEF Types, CallType
<1>6. ~HasCur(c)' /\ ~HasItem(c)' /\ id'[c] \in Ids
  BY <1>1, <1>2, <1>5 DEF HasCur, HasItem
<1>7. /\ Changed(id, id', c, Ids \cup {None}) /\ Changed(n, n', c, Nat)
      /\ Changed(try, try', c, 1..RetryCount) /\ Changed(k, k', c, Nat \ {0})
      /\ Changed(i, i', c, Nat \ {0}) /\ Changed(cur, cur', c, Messages \cup {None})
  BY <1>1, <1>2 DEF Changed
<1>8. CallType'
  BY <1>1, <1>3, <1>6, <1>7, CallStep DEF Places
<1> QED
  BY <1>1, <1>4, <1>8 DEF Types, QqType, AppType

LEMMA PushOldTypes == ASSUME Types, NEW c \in Calls, PushOld(c) PROVE Types'
<1>1. /\ pc[c] = "pushOld" /\ pc' = [pc EXCEPT ![c] = "visit"] /\ i' = [i EXCEPT ![c] = @ + 1]
      /\ PushGlobalStack(cur[c])
      /\ UNCHANGED <<seqOf, id, n, try, k, view, cur, msg, resp, answer, attempt, accepted, delivered, refused,
                     failures, disturbed, cleaner, cleanups>>
  BY DEF PushOld, AtPc, NextIndex, qq, cleanup
<1>2. i[c] + 1 \in Nat \ {0} /\ id[c] \in Ids /\ cur[c] \in Stackable
  BY <1>1 DEF HasCur, Types, CallType
<1>3. Stackable' = Stackable
  BY <1>1 DEF Stackable
<1>4. HeapType' /\ overlapped' \subseteq Calls
  BY <1>1, <1>2, <1>3, PushTypes
<1>5. pc'[c] = "visit"
  BY <1>1 DEF Types, CallType
<1>6. ~HasCur(c)' /\ ~HasItem(c)' /\ id'[c] \in Ids
  BY <1>1, <1>2, <1>5 DEF HasCur, HasItem
<1>7. /\ Changed(id, id', c, Ids \cup {None}) /\ Changed(n, n', c, Nat)
      /\ Changed(try, try', c, 1..RetryCount) /\ Changed(k, k', c, Nat \ {0})
      /\ Changed(i, i', c, Nat \ {0}) /\ Changed(cur, cur', c, Messages \cup {None})
  BY <1>1, <1>2 DEF Changed
<1>8. CallType'
  BY <1>1, <1>3, <1>6, <1>7, CallStep DEF Places
<1> QED
  BY <1>1, <1>4, <1>8 DEF Types, QqType, AppType

LEMMA EndWalkTypes == ASSUME Types, NEW c \in Calls, EndWalk(c) PROVE Types'
<1>1. /\ pc[c] = "visit" /\ pc' = [pc EXCEPT ![c] = "item"]
      /\ id' = [id EXCEPT ![c] = IF c \in WithUser THEN @ ELSE None]
      /\ view' = [view EXCEPT ![c] = [arr |-> 1, len |-> 0]] /\ i' = [i EXCEPT ![c] = 1]
      /\ cur' = [cur EXCEPT ![c] = None]
      /\ overlapped' = overlapped \ {c}
      /\ UNCHANGED <<heap, stack, seqOf, n, try, k, msg, resp, answer, attempt, accepted, delivered, refused,
                     failures, disturbed, cleaner, cleanups>>
  BY DEF EndWalk, AtPc, Nothing, qq, cleanup
<1>2. Stackable' = Stackable
  BY <1>1 DEF Stackable
<1>3. HeapType'
  <2>1. /\ heap \in Seq(Seq(Stackable)) /\ stack.arr \in DOMAIN heap
        /\ view \in [Calls -> [arr : DOMAIN heap, len : Nat]]
        /\ \A d \in Calls : view[d].len <= Len(heap[view[d].arr])
    BY DEF Types, HeapType
  <2>2. 1 \in DOMAIN heap /\ Len(heap[1]) \in Nat
    BY <2>1
  <2>3. view' \in [Calls -> [arr : DOMAIN heap, len : Nat]]
    BY <1>1, <2>1, <2>2
  <2>4. \A d \in Calls : view'[d].len <= Len(heap[view'[d].arr])
    BY <1>1, <2>1, <2>2
  <2> QED
    BY <1>1, <1>2, <2>3, <2>4 DEF Types, HeapType
<1>4. (IF c \in WithUser THEN id[c] ELSE None) \in Ids \cup {None}
  BY DEF Types, CallType
<1>5. pc'[c] = "item"
  BY <1>1 DEF Types, CallType
<1>6. ~HasCur(c)' /\ ~HasItem(c)'
  BY <1>5 DEF HasCur, HasItem
<1>7. /\ Changed(id, id', c, Ids \cup {None}) /\ Changed(n, n', c, Nat)
      /\ Changed(try, try', c, 1..RetryCount) /\ Changed(k, k', c, Nat \ {0})
      /\ Changed(i, i', c, Nat \ {0}) /\ Changed(cur, cur', c, Messages \cup {None})
  <2> DEFINE a == IF c \in WithUser THEN id[c] ELSE None
  <2>0. id' = [id EXCEPT ![c] = a] /\ a \in Ids \cup {None}
    BY <1>1, <1>4
  <2> HIDE DEF a
  <2>1. Changed(id, id', c, Ids \cup {None})
    BY <2>0 DEF Changed
  <2>2. Changed(i, i', c, Nat \ {0})
    <3>1. 1 \in Nat \ {0}
      OBVIOUS
    <3> QED
      BY <1>1, <3>1 DEF Changed
  <2>3. Changed(cur, cur', c, Messages \cup {None})
    BY <1>1 DEF Changed
  <2> QED
    BY <1>1, <2>1, <2>2, <2>3 DEF Changed
<1>8. CallType'
  BY <1>1, <1>2, <1>6, <1>7, CallStep DEF Places
<1> QED
  BY <1>1, <1>3, <1>8 DEF Types, QqType, AppType

\* The items
LEMMA GetTypes ==
  ASSUME Types, NEW c \in Calls, NEW a \in Ids \cup {None}, GetSeq(c, a)
  PROVE  Changed(n, n', c, Nat) /\ disturbed' \subseteq Ids
BY DEF GetSeq, Changed, Types, QqType, AppType

LEMMA PutTypes ==
  ASSUME Types, NEW c \in Calls, NEW a, PutSeq(c, a)
  PROVE  seqOf' \in [Ids \cup {None} -> Nat]
<1>1. n[c] + 1 \in Nat
  BY DEF Types, CallType
<1> QED
  BY <1>1 DEF PutSeq, Types, QqType, AppType

LEMMA BeginItemTypes == ASSUME Types, NEW c \in Calls, BeginItem(c) PROVE Types'
<1>1. /\ pc[c] = "item" /\ pc' = [pc EXCEPT ![c] = "put"] /\ k[c] <= Len(Items[c])
      /\ GetSeq(c, id[c])
      /\ UNCHANGED <<heap, stack, seqOf, id, view, i, cur, try, k, msg, resp, answer, attempt, accepted, delivered,
                     refused, failures, overlapped, cleaner, cleanups>>
  BY DEF BeginItem, AtPc, keepWalk, qq, cleanup
<1>2. Changed(n, n', c, Nat) /\ disturbed' \subseteq Ids
  BY <1>1, GetTypes DEF Types, CallType
<1>3. Changed(try, try', c, 1..RetryCount) /\ Changed(i, i', c, Nat \ {0})
  BY <1>1 DEF Changed
<1>4. HeapType' /\ CallType'
  BY <1>1, <1>2, <1>3, SameCall DEF Places
<1> QED
  BY <1>1, <1>2, <1>4 DEF Types, QqType, AppType

LEMMA GetAgainTypes == ASSUME Types, NEW c \in Calls, GetAgain(c) PROVE Types'
<1>1. /\ pc[c] = "get" /\ pc' = [pc EXCEPT ![c] = "putAgain"]
      /\ GetSeq(c, id[c])
      /\ UNCHANGED <<heap, stack, seqOf, id, view, i, cur, try, k, msg, resp, answer, attempt, accepted, delivered,
                     refused, failures, overlapped, cleaner, cleanups>>
  BY DEF GetAgain, AtPc, keepWalk, qq, cleanup
<1>2. Changed(n, n', c, Nat) /\ disturbed' \subseteq Ids
  BY <1>1, GetTypes DEF Types, CallType
<1>3. Changed(try, try', c, 1..RetryCount) /\ Changed(i, i', c, Nat \ {0})
  BY <1>1 DEF Changed
<1>4. k[c] <= Len(Items[c])
  BY <1>1 DEF HasItem, Types, CallType
<1>5. HeapType' /\ CallType'
  BY <1>1, <1>2, <1>3, <1>4, SameCall DEF Places
<1> QED
  BY <1>1, <1>2, <1>5 DEF Types, QqType, AppType

LEMMA RetryGetTypes == ASSUME Types, NEW c \in Calls, RetryGet(c) PROVE Types'
<1>1. /\ pc[c] = "retry" /\ pc' = [pc EXCEPT ![c] = "reput"]
      /\ GetSeq(c, msg[<<c, k[c]>>].id)
      /\ UNCHANGED <<heap, stack, seqOf, id, view, i, cur, try, k, msg, resp, answer, attempt, accepted, delivered,
                     refused, failures, overlapped, cleaner, cleanups>>
  BY DEF RetryGet, AtPc, keepWalk, qq, cleanup
<1>2. HasItem(c)
  BY <1>1 DEF HasItem
<1>3. msg[<<c, k[c]>>].id \in Ids \cup {None}
  BY <1>2, OwnIn DEF Types, QqType, AppType
<1>4. Changed(n, n', c, Nat) /\ disturbed' \subseteq Ids
  BY <1>1, <1>3, GetTypes
<1>5. Changed(try, try', c, 1..RetryCount) /\ Changed(i, i', c, Nat \ {0})
  BY <1>1 DEF Changed
<1>6. k[c] <= Len(Items[c])
  BY <1>2 DEF Types, CallType
<1>7. HeapType' /\ CallType'
  BY <1>1, <1>4, <1>5, <1>6, SameCall DEF Places
<1> QED
  BY <1>1, <1>4, <1>7 DEF Types, QqType, AppType

LEMMA IdleStepTypes ==
  ASSUME Types, NEW c \in Calls, Done(c) \/ Abandon(c) \/ PutUpload(c) \/ Uploaded(c)
  PROVE  Types'
<1>1. PICK next \in {"done", "upload", "get"} :
        pc' = [pc EXCEPT ![c] = next] /\ (next = "done" \/ HasItem(c))
  BY DEF Done, Abandon, PutUpload, Uploaded, AtPc, HasItem
<1>2. /\ seqOf' = seqOf \/ PutSeq(c, id[c])
      /\ UNCHANGED <<heap, stack, id, view, i, cur, n, try, k, msg, resp, answer, attempt, accepted, delivered,
                     refused, failures, disturbed, overlapped, cleaner, cleanups>>
  BY DEF Done, Abandon, PutUpload, Uploaded, keepWalk, qq, history, cleanup
<1>3. /\ Changed(n, n', c, Nat)
      /\ Changed(try, try', c, 1..RetryCount) /\ Changed(i, i', c, Nat \ {0})
  BY <1>2 DEF Changed
<1>4. HasItem(c) => k[c] <= Len(Items[c])
  BY DEF Types, CallType
<1>5. HeapType' /\ CallType'
  BY <1>1, <1>2, <1>3, <1>4, SameCall DEF Places
<1>6. seqOf' \in [Ids \cup {None} -> Nat]
  BY <1>2, PutTypes DEF Types, QqType, AppType
<1> QED
  BY <1>2, <1>5, <1>6 DEF Types, QqType, AppType

LEMMA SkipItemTypes == ASSUME Types, NEW c \in Calls, SkipItem(c) PROVE Types'
<1>1. /\ pc[c] = "put" /\ pc' = [pc EXCEPT ![c] = "item"] /\ k' = [k EXCEPT ![c] = @ + 1]
      /\ PutSeq(c, id[c])
      /\ UNCHANGED <<heap, stack, id, view, i, cur, n, try, msg, resp, answer, attempt, accepted,
                     delivered, refused, failures, disturbed, overlapped, cleaner, cleanups>>
  BY DEF SkipItem, AtPc, keepWalk, qq, history, cleanup
<1>2. HasItem(c) /\ Changed(try, try', c, 1..RetryCount)
  BY <1>1 DEF HasItem, Changed
<1>3. CallType' /\ Stackable \subseteq Stackable'
  BY <1>1, <1>2, NextK
<1>4. HeapType' /\ seqOf' \in [Ids \cup {None} -> Nat]
  BY <1>1, <1>3, HeapKept, PutTypes
<1> QED
  BY <1>1, <1>3, <1>4 DEF Types, QqType, AppType

LEMMA MessageIn ==
  ASSUME Types, NEW c \in Calls, NEW a \in Ids \cup {None}, NEW seq \in Nat
  PROVE  Message(c, a, seq) \in [id : Ids \cup {None}, seq : Nat, event : BOOLEAN]
BY DEF Message

LEMMA PutTextTypes == ASSUME Types, NEW c \in Calls, PutText(c) PROVE Types'
<1>1. /\ pc[c] = "put" /\ pc' = [pc EXCEPT ![c] = "post"] /\ PutSeq(c, id[c])
      /\ UNCHANGED <<heap, stack, id, view, i, cur, n, try, k, resp, answer, attempt, accepted, delivered, refused,
                     failures, overlapped, cleaner, cleanups>>
  BY DEF PutText, AtPc, keepWalk, qq, cleanup
<1>2. HasItem(c) /\ k[c] <= Len(Items[c]) /\ id[c] \in Ids \cup {None} /\ n[c] + 1 \in Nat
  BY <1>1 DEF HasItem, Types, CallType
<1>3. PICK a \in Ids \cup {None} :
        /\ msg' = [msg EXCEPT ![<<c, k[c]>>] = Message(c, a, n[c] + 1)]
        /\ disturbed' = disturbed \cup ({a} \ {id[c]}) /\ (a \in Ids \/ a = id[c])
  BY <1>2 DEF PutText
<1>4. msg' \in [Messages -> [id : Ids \cup {None}, seq : Nat, event : BOOLEAN]]
  BY <1>2, <1>3, MessageIn DEF Types, QqType, AppType
<1>5. disturbed' \subseteq Ids
  BY <1>3 DEF Types, QqType, AppType
<1>6. /\ Changed(n, n', c, Nat)
      /\ Changed(try, try', c, 1..RetryCount) /\ Changed(i, i', c, Nat \ {0})
  BY <1>1 DEF Changed
<1>7. HeapType' /\ CallType'
  BY <1>1, <1>2, <1>6, SameCall DEF Places
<1>8. seqOf' \in [Ids \cup {None} -> Nat]
  BY <1>1, PutTypes
<1> QED
  BY <1>1, <1>4, <1>5, <1>7, <1>8 DEF Types, QqType, AppType

LEMMA PutAgainTypes == ASSUME Types, NEW c \in Calls, PutAgain(c) PROVE Types'
<1>1. /\ pc[c] = "putAgain" /\ pc' = [pc EXCEPT ![c] = "post"] /\ PutSeq(c, id[c])
      /\ msg' = [msg EXCEPT ![<<c, k[c]>>] = Message(c, id[c], n[c])]
      /\ UNCHANGED <<heap, stack, id, view, i, cur, n, try, k, resp, answer, attempt, accepted, delivered, refused,
                     failures, disturbed, overlapped, cleaner, cleanups>>
  BY DEF PutAgain, AtPc, keepWalk, qq, history, cleanup
<1>2. HasItem(c) /\ k[c] <= Len(Items[c]) /\ id[c] \in Ids \cup {None} /\ n[c] \in Nat
  BY <1>1 DEF HasItem, Types, CallType
<1>3. msg' \in [Messages -> [id : Ids \cup {None}, seq : Nat, event : BOOLEAN]]
  BY <1>1, <1>2, MessageIn DEF Types, QqType, AppType
<1>4. /\ Changed(n, n', c, Nat)
      /\ Changed(try, try', c, 1..RetryCount) /\ Changed(i, i', c, Nat \ {0})
  BY <1>1 DEF Changed
<1>5. HeapType' /\ CallType'
  BY <1>1, <1>2, <1>4, SameCall DEF Places
<1>6. seqOf' \in [Ids \cup {None} -> Nat]
  BY <1>1, PutTypes
<1> QED
  BY <1>1, <1>3, <1>5, <1>6 DEF Types, QqType, AppType

\* What follows an answer, when nothing is pushed.
LEMMA ItemAnswered ==
  ASSUME Types, NEW c \in Calls, HasItem(c), Answers(c),
         pc' = [pc EXCEPT ![c] = "item"], UNCHANGED <<heap, stack, view, id, n, i, cur>>
  PROVE  HeapType' /\ CallType' /\ AppType'
BY NextItem, HeapKept

\* A failing upload names what resp is about.
LEMMA UploadTypes ==
  ASSUME Types, NEW c \in Calls, UploadFails(c) \/ UploadedNothing(c) PROVE Types'
<1>1. /\ pc[c] = "upload"
      /\ \/ pc' = [pc EXCEPT ![c] = "item"] /\ \E error \in BOOLEAN : Answer(c, error, resp[c])
         \/ pc' = [pc EXCEPT ![c] = "done"] /\ UNCHANGED <<app, k, try>>
      /\ UNCHANGED <<heap, stack, seqOf, id, view, i, cur, n, msg, attempt, accepted, delivered,
                     refused, disturbed, overlapped, cleaner, cleanups>>
  BY DEF UploadFails, UploadedNothing, AtPc, keepWalk, qq, history, cleanup
<1>2. failures' \in 0..MaxFailures
  <2>1. failures \in 0..MaxFailures
    BY DEF Types, QqType
  <2>2. CASE UploadFails(c)
    <3>1. failures < MaxFailures /\ failures' = failures + 1
      BY <2>2 DEF UploadFails
    <3> QED
      BY <2>1, <3>1, BoundsAssumption
  <2>3. CASE UploadedNothing(c)
    <3>1. failures' = failures
      BY <2>3 DEF UploadedNothing, qq
    <3> QED
      BY <2>1, <3>1
  <2> QED
    BY <2>2, <2>3
<1>3. HasItem(c)
  BY <1>1 DEF HasItem
<1>4. CASE pc' = [pc EXCEPT ![c] = "item"] /\ \E error \in BOOLEAN : Answer(c, error, resp[c])
  <2>1. Answers(c)
    BY <1>4 DEF Answers, Types, QqType, AppType
  <2> QED
    BY <1>1, <1>2, <1>3, <1>4, <2>1, ItemAnswered DEF Types, QqType, AppType
<1>5. CASE pc' = [pc EXCEPT ![c] = "done"] /\ UNCHANGED <<app, k, try>>
  <2>1. /\ Changed(n, n', c, Nat)
        /\ Changed(try, try', c, 1..RetryCount) /\ Changed(i, i', c, Nat \ {0})
    BY <1>1, <1>5 DEF Changed
  <2>2. HeapType' /\ CallType'
    BY <1>1, <1>5, <2>1, SameCall DEF Places
  <2> QED
    BY <1>1, <1>2, <1>5, <2>2 DEF Types, QqType, AppType
<1> QED
  BY <1>1, <1>4, <1>5

\* What PostGroupMessage leads to is typed, and it leaves the rest as it is.
LEMMA PostStepTypes ==
  ASSUME Types, NEW c \in Calls, HasItem(c), NEW result, PostGroupMessage(c, <<c, k[c]>>, result),
         HeapType', CallType', AppType',
         msg' \in [Messages -> [id : Ids \cup {None}, seq : Nat, event : BOOLEAN]],
         UNCHANGED <<seqOf, disturbed, overlapped, cleaner>>
  PROVE  Types'
BY OwnIn, AttemptTypes, PostTypes DEF Types, QqType, AppType

LEMMA PostItemTypes == ASSUME Types, NEW c \in Calls, Post(c) PROVE Types'
<1>1. PICK result \in Results :
        /\ PostGroupMessage(c, <<c, k[c]>>, result)
        /\ pc' = [pc EXCEPT ![c] = CASE result = "22009" -> "push" [] result = "40034025" -> "repost"
                          [] result = "deadline" -> "retry" [] OTHER -> "item"]
        /\ IF result \in {"ok", "error", "broken"} THEN AnswerError(c) \/ AnswerSent(c)
           ELSE UNCHANGED <<app, k, try>>
        /\ msg' = [msg EXCEPT ![<<c, k[c]>>].event = @ /\ result # "40034025"]
  BY DEF Post, AtPc
<1>2. pc[c] = "post" /\ UNCHANGED <<heap, stack, seqOf, id, view, i, cur, n, disturbed, overlapped,
                                   cleaner, cleanups>>
  BY DEF Post, keepWalk, history, cleanup
<1>3. HasItem(c) /\ k[c] <= Len(Items[c])
  BY <1>2 DEF HasItem, Types, CallType
<1>4. msg' \in [Messages -> [id : Ids \cup {None}, seq : Nat, event : BOOLEAN]]
  <2>1. msg \in [Messages -> [id : Ids \cup {None}, seq : Nat, event : BOOLEAN]]
    BY DEF Types, QqType
  <2>2. PICK x \in BOOLEAN : msg' = [msg EXCEPT ![<<c, k[c]>>].event = @ /\ x]
    BY <1>1
  <2>3. <<c, k[c]>> \in Messages
    BY <1>3, OwnIn
  <2> QED
    BY <2>1, <2>2, <2>3
<1>5. CASE result \in {"ok", "error", "broken"}
  <2>1. pc' = [pc EXCEPT ![c] = "item"] /\ Answers(c)
    BY <1>1, <1>3, <1>5, AnswerForms
  <2>2. HeapType' /\ CallType' /\ AppType'
    BY <1>2, <1>3, <2>1, ItemAnswered
  <2> QED
    BY <1>1, <1>2, <1>3, <1>4, <2>2, PostStepTypes
<1>6. CASE result \notin {"ok", "error", "broken"}
  <2>1. PICK next \in {"push", "repost", "retry"} : pc' = [pc EXCEPT ![c] = next]
    BY <1>1, <1>6 DEF Results
  <2>2. UNCHANGED <<app, k, try>>
    BY <1>1, <1>6
  <2>3. /\ Changed(n, n', c, Nat)
        /\ Changed(try, try', c, 1..RetryCount) /\ Changed(i, i', c, Nat \ {0})
    BY <1>2, <2>2 DEF Changed
  <2>4. HeapType' /\ CallType'
    BY <1>2, <1>3, <2>1, <2>2, <2>3, SameCall DEF Places
  <2>5. AppType'
    BY <2>2 DEF Types, QqType, AppType
  <2> QED
    BY <1>1, <1>2, <1>3, <1>4, <2>4, <2>5, PostStepTypes
<1> QED
  BY <1>5, <1>6

LEMMA PushItemTypes == ASSUME Types, NEW c \in Calls, Push(c) PROVE Types'
<1>1. /\ pc[c] = "push" /\ pc' = [pc EXCEPT ![c] = "item"] /\ PushGlobalStack(<<c, k[c]>>)
      /\ AnswerError(c)
      /\ UNCHANGED <<seqOf, id, view, i, cur, n, msg, attempt, accepted, delivered, refused, failures,
                     disturbed, cleaner, cleanups>>
  BY DEF Push, AtPc, keepWalk, qq, cleanup
<1>2. HasItem(c)
  BY <1>1 DEF HasItem
<1>3. /\ CallType' /\ Stackable \subseteq Stackable' /\ <<c, k[c]>> \in Stackable'
      /\ AppType'
  BY <1>1, <1>2, NextItem, AnswerForms
<1>4. HeapType' /\ overlapped' \subseteq Calls
  BY <1>1, <1>3, PushTypes
<1> QED
  BY <1>1, <1>3, <1>4 DEF Types, QqType, AppType

LEMMA RepostTypes == ASSUME Types, NEW c \in Calls, Repost(c) PROVE Types'
<1>1. PICK result \in Results :
        /\ PostGroupMessage(c, <<c, k[c]>>, result)
        /\ AnswerError(c) \/ AnswerSent(c)
  BY DEF Repost
<1>2. /\ pc[c] = "repost" /\ pc' = [pc EXCEPT ![c] = "item"]
      /\ UNCHANGED <<heap, stack, seqOf, id, view, i, cur, n, msg, disturbed, overlapped,
                     cleaner, cleanups>>
  BY DEF Repost, AtPc, keepWalk, history, cleanup
<1>3. HasItem(c)
  BY <1>2 DEF HasItem
<1>4. Answers(c)
  BY <1>1, <1>3, AnswerForms
<1>5. HeapType' /\ CallType' /\ AppType'
  BY <1>2, <1>3, <1>4, ItemAnswered
<1>6. msg' \in [Messages -> [id : Ids \cup {None}, seq : Nat, event : BOOLEAN]]
  BY <1>2 DEF Types, QqType, AppType
<1> QED
  BY <1>1, <1>2, <1>3, <1>5, <1>6, PostStepTypes

\* Another try, or the answer.
LEMMA NextTryTypes ==
  ASSUME Types, NEW c \in Calls, HasItem(c), NEW at, NextTry(c, at),
         UNCHANGED <<heap, stack, view, id, n, i, cur>>
  PROVE  HeapType' /\ CallType' /\ AppType'
<1>1. CASE try[c] < RetryCount
  <2>1. /\ pc' = [pc EXCEPT ![c] = "retry"] /\ try' = [try EXCEPT ![c] = @ + 1]
        /\ UNCHANGED <<app, k>>
    BY <1>1 DEF NextTry, AtPc
  <2>2. try[c] + 1 \in 1..RetryCount
    <3>1. try[c] \in 1..RetryCount
      BY DEF Types, CallType
    <3> QED
      BY <1>1, <3>1, BoundsAssumption
  <2>3. /\ Changed(n, n', c, Nat)
        /\ Changed(try, try', c, 1..RetryCount) /\ Changed(i, i', c, Nat \ {0})
    BY <2>1, <2>2 DEF Changed
  <2>4. k[c] <= Len(Items[c])
    BY DEF Types, CallType
  <2>5. HeapType' /\ CallType'
    BY <2>1, <2>3, <2>4, SameCall DEF Places
  <2> QED
    BY <2>1, <2>5 DEF Types, QqType, AppType
<1>2. CASE ~(try[c] < RetryCount)
  <2>1. pc' = [pc EXCEPT ![c] = "item"] /\ AnswerError(c)
    BY <1>2 DEF NextTry, AtPc
  <2> QED
    BY <2>1, ItemAnswered, AnswerForms
<1> QED
  BY <1>1, <1>2

LEMMA RetryPutTypes == ASSUME Types, NEW c \in Calls, RetryPut(c) PROVE Types'
<1>1. /\ pc[c] = "reput" /\ PutSeq(c, msg[<<c, k[c]>>].id)
      /\ msg' = [msg EXCEPT ![<<c, k[c]>>].seq = n[c] + 1]
      /\ \/ pc' = [pc EXCEPT ![c] = "retryPost"] /\ UNCHANGED <<try, app, k>>
         \/ NextTry(c, "reput")
      /\ UNCHANGED <<heap, stack, id, view, i, cur, n, attempt, accepted, delivered, refused, failures,
                     disturbed, overlapped, cleaner, cleanups>>
  BY DEF RetryPut, AtPc, keepWalk, qq, history, cleanup
<1>2. HasItem(c) /\ k[c] <= Len(Items[c])
  BY <1>1 DEF HasItem, Types, CallType
<1>3. seqOf' \in [Ids \cup {None} -> Nat]
  BY <1>1, PutTypes
<1>4. msg' \in [Messages -> [id : Ids \cup {None}, seq : Nat, event : BOOLEAN]]
  <2>1. n[c] + 1 \in Nat
    BY DEF Types, CallType
  <2> QED
    BY <1>1, <2>1, ZenonT(30) DEF Types, QqType, AppType
<1>5. HeapType' /\ CallType' /\ AppType'
  <2>1. CASE pc' = [pc EXCEPT ![c] = "retryPost"] /\ UNCHANGED <<try, app, k>>
    <3>1. /\ Changed(n, n', c, Nat)
          /\ Changed(try, try', c, 1..RetryCount) /\ Changed(i, i', c, Nat \ {0})
      BY <1>1, <2>1 DEF Changed
    <3>2. HeapType' /\ CallType'
      BY <1>1, <1>2, <2>1, <3>1, SameCall DEF Places
    <3> QED
      BY <2>1, <3>2 DEF Types, QqType, AppType
  <2>2. CASE NextTry(c, "reput")
    BY <1>1, <1>2, <2>2, NextTryTypes
  <2> QED
    BY <1>1, <2>1, <2>2
<1> QED
  BY <1>1, <1>3, <1>4, <1>5 DEF Types, QqType, AppType

LEMMA RetryPostTypes == ASSUME Types, NEW c \in Calls, RetryPost(c) PROVE Types'
<1>1. PICK result \in Results :
        /\ PostGroupMessage(c, <<c, k[c]>>, result)
        /\ IF result = "deadline" THEN NextTry(c, "retryPost")
           ELSE AtPc(c, "retryPost", "item") /\ AnswerError(c)
  BY DEF RetryPost
<1>2. /\ pc[c] = "retryPost"
      /\ UNCHANGED <<heap, stack, seqOf, id, view, i, cur, n, msg, disturbed, overlapped,
                     cleaner, cleanups>>
  BY DEF RetryPost, keepWalk, history, cleanup
<1>3. HasItem(c)
  BY <1>2 DEF HasItem
<1>4. HeapType' /\ CallType' /\ AppType'
  BY <1>1, <1>2, <1>3, NextTryTypes, ItemAnswered, AnswerForms DEF AtPc
<1>5. msg' \in [Messages -> [id : Ids \cup {None}, seq : Nat, event : BOOLEAN]]
  BY <1>2 DEF Types, QqType, AppType
<1> QED
  BY <1>1, <1>2, <1>3, <1>4, <1>5, PostStepTypes

LEMMA TargetIn == ASSUME Types, NEW c \in Calls, Pending(c) PROVE Target(c) \in Messages
<1>1. CASE pc[c] = "postOld"
  BY <1>1, StackableIn DEF Target, HasCur, Types, CallType
<1>2. CASE pc[c] # "postOld"
  BY <1>2, OwnIn DEF Target, Pending, HasItem
<1> QED
  BY <1>1, <1>2

\* The client counts what it sends again, and changes nothing of the call.
LEMMA ResendTypes == ASSUME Types, NEW c \in Calls, Resend(c) PROVE Types'
<1>1. PICK result \in Lost : Request(c, Target(c), result)
  BY DEF Resend
<1>2. /\ Pending(c) /\ attempt[c] <= HttpRetries /\ attempt' = [attempt EXCEPT ![c] = @ + 1]
      /\ UNCHANGED <<heap, stack, seqOf, pc, id, n, try, k, view, i, cur, msg, resp, answer,
                     disturbed, overlapped, cleaner>>
  BY DEF Resend, local, history, cleanup
<1>3. attempt' \in [Calls -> 1..HttpRetries + 1]
  <2>1. attempt \in [Calls -> 1..HttpRetries + 1]
    BY DEF Types, QqType, AppType
  <2>2. attempt[c] + 1 \in 1..HttpRetries + 1
    BY <1>2, <2>1, BoundsAssumption
  <2> QED
    BY <1>2, <2>1, <2>2
<1>4. HeapType' /\ CallType'
  BY <1>2 DEF Types, HeapType, CallType, Stackable, HasCur, HasItem
<1> QED
  BY <1>1, <1>2, <1>3, <1>4, TargetIn, PostTypes DEF Types, QqType, AppType

LEMMA CallTypes == ASSUME Types, NEW c \in Calls, CallNext(c) PROVE Types'
<1>1. CASE StackNext(c)
  BY <1>1, StartTypes, SkipGroupTypes, VisitTypes, StampTypes, PostOldTypes, RemoveStepTypes,
     PushOldTypes, EndWalkTypes DEF StackNext
<1>2. CASE PrepareNext(c)
  BY <1>2, BeginItemTypes, IdleStepTypes, SkipItemTypes, PutTextTypes, UploadTypes, GetAgainTypes,
     PutAgainTypes DEF PrepareNext
<1>3. CASE PostNext(c)
  BY <1>3, PostItemTypes, PushItemTypes, RepostTypes, RetryGetTypes, RetryPutTypes,
     RetryPostTypes DEF PostNext
<1> QED
  BY <1>1, <1>2, <1>3, ResendTypes DEF CallNext

\* The cleanup
LEMMA CleanTypes == ASSUME Types, CleanStack \/ CleanSeqs PROVE Types'
<1>1. Stackable' = Stackable /\ CallType'
  BY DEF CleanStack, CleanSeqs, local, Stackable, Types, CallType, HasCur, HasItem
<1>2. CASE CleanStack
  <2>1. /\ heap' = Append(heap, <<>>) /\ stack' = [arr |-> Len(heap) + 1, len |-> 0]
        /\ view' = view /\ overlapped' \subseteq Calls /\ cleaner' = "seqs"
        /\ UNCHANGED <<seqOf, msg, resp, answer, attempt, accepted, delivered, refused, failures, disturbed>>
    BY <1>2 DEF CleanStack, Disturb, local, qq, Types, QqType, AppType
  <2>2. /\ heap \in Seq(Seq(Stackable))
        /\ view \in [Calls -> [arr : DOMAIN heap, len : Nat]]
        /\ \A c \in Calls : view[c].len <= Len(heap[view[c].arr])
    BY DEF Types, HeapType
  <2>3. /\ heap' \in Seq(Seq(Stackable)) /\ Len(heap') = Len(heap) + 1
        /\ heap'[Len(heap) + 1] = <<>>
        /\ \A a \in DOMAIN heap : a \in DOMAIN heap' /\ heap'[a] = heap[a]
    BY <2>1, <2>2
  <2>4. stack' \in [arr : DOMAIN heap', len : Nat] /\ stack'.len <= Len(heap'[stack'.arr])
    BY <2>1, <2>2, <2>3
  <2>5. HeapType'
    BY <1>1, <2>1, <2>2, <2>3, <2>4 DEF HeapType
  <2> QED
    BY <1>1, <2>1, <2>5 DEF Types, QqType, AppType
<1>3. CASE CleanSeqs
  <2>1. /\ seqOf' = [a \in DOMAIN seqOf |-> 0] /\ disturbed' \subseteq Ids /\ cleaner' = "wait"
        /\ UNCHANGED <<heap, stack, view, msg, resp, answer, attempt, accepted, delivered, refused, failures,
                       overlapped>>
    BY <1>3 DEF CleanSeqs, local, qq, Types, QqType, AppType
  <2>2. seqOf' \in [Ids \cup {None} -> Nat]
    BY <2>1 DEF Types, QqType, AppType
  <2>3. HeapType'
    BY <1>1, <2>1, HeapKept
  <2> QED
    BY <1>1, <2>1, <2>2, <2>3 DEF Types, QqType, AppType
<1> QED
  BY <1>2, <1>3

LEMMA StutterTypes == ASSUME Types, UNCHANGED vars PROVE Types'
<1>1. UNCHANGED <<heap, stack, seqOf, pc, id, n, try, k, view, i, cur, msg, resp, answer, attempt, accepted,
                  delivered, refused, failures, disturbed, overlapped, cleaner>>
  BY DEF vars, local, qq, history, cleanup
<1> QED
  BY <1>1 DEF Types, HeapType, CallType, QqType, AppType, Stackable, HasCur, HasItem

LEMMA StepTypes == ASSUME Types, [Next]_vars PROVE Types'
BY CallTypes, CleanTypes, StutterTypes DEF Next

LEMMA TypesImply == Types => TypeOK
<1> SUFFICES ASSUME Types PROVE TypeOK
  OBVIOUS
<1>1. heap \in Seq(Seq(Messages))
  BY StackableIn, SeqSeqMono DEF Types, HeapType
<1>2. stack.arr \in DOMAIN heap /\ stack.len \in 0..Len(Cells)
  <2>1. heap[stack.arr] \in Seq(Messages)
    BY <1>1 DEF Types, HeapType
  <2> QED
    BY <2>1 DEF Types, HeapType, Cells
<1>3. \A c \in Calls : view[c].arr \in DOMAIN heap /\ view[c].len <= Len(heap[view[c].arr])
  BY DEF Types, HeapType
<1>4. \A c \in Calls : k[c] \in 1..Len(Items[c]) + 1
  <2>1. \A c \in Calls : k[c] \in Nat \ {0} /\ k[c] <= Len(Items[c]) + 1 /\ Len(Items[c]) \in Nat
    BY ItemsLen DEF Types, CallType
  <2> QED
    BY <2>1
<1> QED
  BY <1>1, <1>2, <1>3, <1>4 DEF TypeOK, Types, CallType, QqType, AppType

\* Whatever the calls and the cleanup do to the backing arrays, a walk stays within
\* the array it started on, and no call has in hand what is stacked.
THEOREM TypeCorrect == Spec => []TypeOK
BY InitTypes, StepTypes, TypesImply, PTL DEF Spec
-----------------------------------------------------------------------------
(* The stack *)

\* QQ takes nothing back, and "ok" is its answer to what it delivers.
LEMMA Requested ==
  ASSUME NEW c, NEW m, NEW result, Request(c, m, result)
  PROVE  delivered \subseteq delivered' /\ (result = "ok" => m \in delivered')
BY DEF Request, Refuse, Accept, Repeated

LEMMA Posted ==
  ASSUME NEW c, NEW m, NEW result, PostGroupMessage(c, m, result)
  PROVE  delivered \subseteq delivered' /\ (result = "ok" => m \in delivered')
BY Requested DEF PostGroupMessage

\* A walk that nobody overlaps looks at the array that is the stack, and the message
\* it has in hand is the one at its index; what it is about to remove is delivered.
WalkOf(c) == /\ Walking(c) /\ c \notin overlapped =>
                  view[c].arr = stack.arr /\ (HasCur(c) => heap[stack.arr][i[c]] = cur[c])
             /\ pc[c] = "remove" => cur[c] \in delivered

WalkInv == \A c \in Calls : WalkOf(c)

\* A call that is not a step's own keeps its place, if the stack stays as it is or the
\* change is recorded.
LEMMA WalkKept ==
  ASSUME NEW d \in Calls, WalkOf(d), pc'[d] = pc[d], view'[d] = view[d], i'[d] = i[d],
         cur'[d] = cur[d], delivered \subseteq delivered',
         \/ UNCHANGED <<heap, stack>> /\ (d \in overlapped => d \in overlapped')
         \/ Walking(d) => d \in overlapped'
  PROVE  WalkOf(d)'
BY DEF WalkOf, Walking, HasCur

\* A call at its items does not walk.
LEMMA ItemWalk ==
  ASSUME Types, NEW c \in Calls, PrepareNext(c) \/ PostNext(c), WalkInv PROVE WalkInv'
<1> USE DEF AtPc, keepWalk, qq, history
<1>1. /\ \A d \in Calls \ {c} : pc'[d] = pc[d]
      /\ ~Walking(c)' /\ UNCHANGED <<view, i, cur>> /\ pc'[c] # "remove"
      /\ delivered \subseteq delivered'
      /\ UNCHANGED <<heap, stack, overlapped>> \/ Disturb(Calls)
  <2>1. CASE PrepareNext(c)
    <3>1. PICK next \in {"item", "put", "done", "upload", "get", "putAgain", "post"} :
            pc' = [pc EXCEPT ![c] = next]
      BY <2>1 DEF PrepareNext, BeginItem, Done, Abandon, SkipItem, PutText, PutUpload, Uploaded,
         UploadFails, UploadedNothing, GetAgain, PutAgain
    <3>2. UNCHANGED <<heap, stack, overlapped, view, i, cur, delivered>>
      BY <2>1 DEF PrepareNext, BeginItem, Done, Abandon, SkipItem, PutText, PutUpload, Uploaded,
         UploadFails, UploadedNothing, GetAgain, PutAgain
    <3> QED
      BY <3>1, <3>2 DEF Walking, Types, CallType
  <2>2. CASE PostNext(c)
    <3>1. PICK next \in {"item", "push", "repost", "retry", "reput", "retryPost"} :
            pc' = [pc EXCEPT ![c] = next]
      BY <2>2 DEF PostNext, Post, Push, Repost, RetryGet, RetryPut, RetryPost, NextTry
    <3>2. /\ UNCHANGED <<view, i, cur>>
          /\ UNCHANGED <<heap, stack, overlapped>> \/ Disturb(Calls)
      BY <2>2 DEF PostNext, Post, Push, Repost, RetryGet, RetryPut, RetryPost, PushGlobalStack
    <3>3. delivered \subseteq delivered'
      BY <2>2, Posted DEF PostNext, Post, Push, Repost, RetryGet, RetryPut, RetryPost
    <3> QED
      BY <3>1, <3>2, <3>3 DEF Walking, Types, CallType
  <2> QED
    BY <2>1, <2>2
<1>2. WalkOf(c)'
  BY <1>1 DEF WalkOf
<1>3. ASSUME NEW d \in Calls \ {c} PROVE WalkOf(d)'
  <2>1. CASE UNCHANGED <<heap, stack, overlapped>>
    BY <1>1, <2>1, WalkKept DEF WalkInv
  <2>2. CASE Disturb(Calls)
    <3>1. Walking(d) => d \in overlapped'
      BY <2>2 DEF Disturb
    <3> QED
      BY <1>1, <3>1, WalkKept DEF WalkInv
  <2> QED
    BY <1>1, <2>1, <2>2
<1> QED
  BY <1>2, <1>3 DEF WalkInv

\* A walk's own steps.
LEMMA OwnWalkKept ==
  ASSUME Types, NEW c \in Calls, StackNext(c), WalkInv
  PROVE  /\ \A d \in Calls \ {c} : /\ pc'[d] = pc[d] /\ view'[d] = view[d] /\ i'[d] = i[d]
                                   /\ cur'[d] = cur[d]
         /\ delivered \subseteq delivered'
         /\ \A d \in Calls \ {c} : \/ UNCHANGED <<heap, stack>> /\ (d \in overlapped => d \in overlapped')
                                   \/ Walking(d) => d \in overlapped'
<1> USE DEF AtPc, NextIndex, qq, history
<1>1. \A d \in Calls \ {c} : /\ pc'[d] = pc[d] /\ view'[d] = view[d] /\ i'[d] = i[d]
                             /\ cur'[d] = cur[d]
  BY DEF StackNext, Start, SkipGroup, Visit, Stamp, PostOld, Remove, PushOld, EndWalk, Types,
     HeapType, CallType
<1>2. delivered \subseteq delivered'
  BY Posted DEF StackNext, Start, SkipGroup, Visit, Stamp, PostOld, Remove, PushOld, EndWalk
<1>3. CASE \/ Start(c) \/ SkipGroup(c) \/ Visit(c) \/ Stamp(c) \/ PostOld(c) \/ EndWalk(c)
  BY <1>1, <1>2, <1>3 DEF Start, SkipGroup, Visit, Stamp, PostOld, EndWalk
<1>4. CASE Remove(c) \/ PushOld(c)
  BY <1>1, <1>2, <1>4 DEF Remove, PushOld, RemoveFromGlobalStack, PushGlobalStack, Disturb
<1> QED
  BY <1>3, <1>4 DEF StackNext

LEMMA StackWalk == ASSUME Types, NEW c \in Calls, StackNext(c), WalkInv PROVE WalkInv'
<1>1. ASSUME NEW d \in Calls \ {c} PROVE WalkOf(d)'
  BY OwnWalkKept, WalkKept DEF WalkInv
<1>2. WalkOf(c)'
  <2>0. WalkOf(c)
    BY DEF WalkInv
  <2>1. CASE Start(c)
    <3>1. PICK next \in {"visit", "item"} : pc' = [pc EXCEPT ![c] = next]
      BY <2>1 DEF Start, AtPc
    <3>2. pc'[c] = next /\ stack' = stack /\ (next = "visit" => view'[c].arr = stack.arr)
      <4>1. pc'[c] = next /\ stack' = stack
        BY <2>1, <3>1 DEF Start, Types, CallType
      <4>2. next = "visit" =>
              view' = [view EXCEPT ![c] = [stack EXCEPT !.len = IF @ < AtoPCount THEN @ ELSE AtoPCount]]
        BY <2>1, <4>1 DEF Start, AtPc, Types, CallType
      <4> QED
        BY <4>1, <4>2 DEF Types, HeapType
    <3> QED
      BY <3>2 DEF WalkOf, Walking, HasCur
  <2>2. CASE SkipGroup(c)
    <3>1. pc'[c] = "visit" /\ pc[c] = "visit" /\ UNCHANGED <<view, stack, overlapped>>
      BY <2>2 DEF SkipGroup, AtPc, history, Types, CallType
    <3> QED
      BY <2>0, <3>1 DEF WalkOf, Walking, HasCur
  <2>3. CASE Visit(c)
    <3>1. /\ pc'[c] = "stamp" /\ pc[c] = "visit" /\ cur'[c] = heap[view[c].arr][i[c]]
          /\ UNCHANGED <<view, stack, heap, i, overlapped>>
      BY <2>3 DEF Visit, AtPc, Types, CallType
    <3> QED
      BY <2>0, <3>1 DEF WalkOf, Walking, HasCur
  <2>4. CASE Stamp(c)
    <3>1. /\ pc'[c] = "postOld" /\ pc[c] = "stamp"
          /\ UNCHANGED <<view, stack, heap, i, cur, overlapped>>
      BY <2>4 DEF Stamp, AtPc, history, Types, CallType
    <3> QED
      BY <2>0, <3>1 DEF WalkOf, Walking, HasCur
  <2>5. CASE PostOld(c)
    <3>1. PICK result \in Results :
            /\ PostGroupMessage(c, cur[c], result)
            /\ pc' = [pc EXCEPT ![c] = CASE result = "ok" -> "remove" [] result = "22009" -> "pushOld"
                             [] OTHER -> "visit"]
            /\ IF result \in {"ok", "22009"} THEN UNCHANGED i ELSE NextIndex(c)
      BY <2>5 DEF PostOld, AtPc
    <3>2. pc[c] = "postOld" /\ UNCHANGED <<view, stack, heap, cur, overlapped>>
      BY <2>5 DEF PostOld, history
    <3>3. result = "ok" => cur[c] \in delivered'
      BY <3>1, Posted
    <3>4. \/ pc'[c] = "remove" /\ result = "ok" /\ i' = i
          \/ pc'[c] = "pushOld" /\ i' = i
          \/ pc'[c] = "visit"
      BY <3>1 DEF Types, CallType
    <3> QED
      BY <2>0, <3>2, <3>3, <3>4 DEF WalkOf, Walking, HasCur
  <2>6. CASE Remove(c)
    <3>1. /\ pc'[c] = "visit" /\ pc[c] = "remove" /\ UNCHANGED view
          /\ stack'.arr = stack.arr /\ overlapped \subseteq overlapped'
      BY <2>6 DEF Remove, AtPc, RemoveFromGlobalStack, Disturb, Types, CallType, HeapType
    <3> QED
      BY <2>0, <3>1 DEF WalkOf, Walking, HasCur
  <2>7. CASE PushOld(c)
    <3>1. pc'[c] = "visit" /\ c \in overlapped'
      BY <2>7 DEF PushOld, AtPc, PushGlobalStack, Disturb, Walking, Types, CallType
    <3> QED
      BY <3>1 DEF WalkOf
  <2>8. CASE EndWalk(c)
    <3>1. pc'[c] = "item"
      BY <2>8 DEF EndWalk, AtPc, Types, CallType
    <3> QED
      BY <3>1 DEF WalkOf, Walking
  <2> QED
    BY <2>1, <2>2, <2>3, <2>4, <2>5, <2>6, <2>7, <2>8 DEF StackNext
<1> QED
  BY <1>1, <1>2 DEF WalkInv

LEMMA ResendWalk == ASSUME Types, NEW c \in Calls, Resend(c), WalkInv PROVE WalkInv'
<1>1. UNCHANGED <<heap, stack, pc, view, i, cur, overlapped>> /\ delivered \subseteq delivered'
  BY Requested DEF Resend, local, history
<1> QED
  BY <1>1, WalkKept DEF WalkInv

LEMMA CleanWalk == ASSUME WalkInv, CleanStack \/ CleanSeqs \/ UNCHANGED vars PROVE WalkInv'
<1>1. UNCHANGED <<pc, view, i, cur, delivered>>
  BY DEF CleanStack, CleanSeqs, vars, local, qq
<1>2. UNCHANGED <<heap, stack, overlapped>> \/ Disturb(Calls)
  BY DEF CleanStack, CleanSeqs, vars, history
<1>3. ASSUME NEW d \in Calls PROVE WalkOf(d)'
  BY <1>1, <1>2, WalkKept DEF WalkInv, Disturb
<1> QED
  BY <1>3 DEF WalkInv

\* A push takes nothing off; a removal takes the message at its index only.
LEMMA PushKeeps ==
  ASSUME Types, NEW m, PushGlobalStack(m) PROVE Stacked \subseteq Stacked'
<1>1. /\ heap \in Seq(Seq(Stackable)) /\ stack.arr \in DOMAIN heap /\ stack.len \in Nat
      /\ stack.len <= Len(heap[stack.arr]) /\ stack = [arr |-> stack.arr, len |-> stack.len]
  BY DEF Types, HeapType
<1>2. Cells \in Seq(Stackable) /\ Len(Cells) \in Nat
  BY <1>1 DEF Cells
<1>3. stack'.len = stack.len + 1
  BY <1>1 DEF PushGlobalStack
<1>4. \A j \in 1..stack.len : heap'[stack'.arr][j] = Cells[j]
  <2>1. CASE stack.len < Len(Cells)
    <3> DEFINE row == [Cells EXCEPT ![stack.len + 1] = m]
    <3>1. heap' = [heap EXCEPT ![stack.arr] = row] /\ stack'.arr = stack.arr
      BY <1>1, <2>1 DEF PushGlobalStack, Cells
    <3>2. \A j \in 1..stack.len : row[j] = Cells[j]
      BY <1>1, <1>2, <2>1
    <3> QED
      BY <1>1, <3>1, <3>2
  <2>2. CASE ~(stack.len < Len(Cells))
    <3> DEFINE row == [j \in 1..Cap(Cells) |-> IF j <= stack.len THEN Cells[j] ELSE m]
    <3>1. heap' = Append(heap, row) /\ stack'.arr = Len(heap) + 1
      BY <2>2 DEF PushGlobalStack
    <3>2. stack.len <= Cap(Cells) /\ Cap(Cells) \in Nat
      BY <1>1, <1>2, <2>2 DEF Cap, Cells
    <3>3. \A j \in 1..stack.len : row[j] = Cells[j]
      BY <1>1, <3>2
    <3> HIDE DEF row
    <3>4. heap'[Len(heap) + 1] = row
      BY <1>1, <3>1
    <3> QED
      BY <3>1, <3>3, <3>4
  <2> QED
    BY <2>1, <2>2
<1>5. \A j \in 1..stack.len : j \in 1..stack'.len
  BY <1>1, <1>3
<1> QED
  BY <1>4, <1>5 DEF Stacked, Cells

LEMMA RemoveKeeps ==
  ASSUME Types, NEW c, NEW index \in Nat \ {0}, RemoveFromGlobalStack(c, index)
  PROVE  Stacked \subseteq Stacked' \cup {Cells[index]}
<1>1. /\ heap \in Seq(Seq(Stackable)) /\ stack.arr \in DOMAIN heap /\ stack.len \in Nat
      /\ stack.len <= Len(heap[stack.arr]) /\ stack = [arr |-> stack.arr, len |-> stack.len]
  BY DEF Types, HeapType
<1>2. CASE index <= stack.len
  <2> DEFINE row == [j \in DOMAIN Cells |-> IF j \in index..stack.len - 1
                                            THEN Cells[j + 1] ELSE Cells[j]]
  <2>1. /\ heap' = [heap EXCEPT ![stack.arr] = row]
        /\ stack'.arr = stack.arr /\ stack'.len = stack.len - 1
    BY <1>1, <1>2 DEF RemoveFromGlobalStack, Cells
  <2>2. Cells \in Seq(Stackable) /\ stack.len <= Len(Cells) /\ Len(Cells) \in Nat
    BY <1>1 DEF Cells
  <2>3. heap'[stack'.arr] = row
    BY <1>1, <2>1
  <2>4. ASSUME NEW j \in 1..stack.len, j # index
        PROVE  \E l \in 1..stack.len - 1 : row[l] = Cells[j]
    <3>1. CASE j < index
      <4>1. j \in 1..stack.len - 1 /\ j \in DOMAIN Cells /\ j \notin index..stack.len - 1
        BY <1>1, <1>2, <2>2, <3>1
      <4> QED
        BY <4>1
    <3>2. CASE j > index
      <4>1. /\ j - 1 \in 1..stack.len - 1 /\ j - 1 \in DOMAIN Cells
            /\ j - 1 \in index..stack.len - 1 /\ (j - 1) + 1 = j
        BY <1>1, <1>2, <2>2, <3>2
      <4>2. row[j - 1] = Cells[(j - 1) + 1]
        BY <4>1
      <4> QED
        BY <4>1, <4>2
    <3> QED
      BY <2>4, <3>1, <3>2
  <2> HIDE DEF row
  <2> QED
    BY <2>1, <2>3, <2>4 DEF Stacked, Cells
<1>3. CASE ~(index <= stack.len)
  BY <1>3 DEF RemoveFromGlobalStack, Stacked, Cells
<1> QED
  BY <1>2, <1>3

LEMMA InitWalk == Init => WalkInv
BY DEF Init, WalkInv, WalkOf, Walking

\* Only a removal and the cleanup take a message off the stack, and a removal by a walk
\* that nobody overlapped takes the one it had delivered (echo.go, send_group_msg.go:2517).
THEOREM WalksLoseNothing == Spec => OnlyOverlapsLose
<1> DEFINE Loses(m) == m \in Stacked /\ m \notin Stacked' /\ m \notin delivered
           Keeps == \A m \in Messages : Loses(m) =>
                      cleaner' = "seqs" \/ \E c \in overlapped : pc[c] = "remove" /\ pc'[c] # "remove"
<1>1. Types /\ WalkInv /\ [Next]_vars => WalkInv'
  BY ItemWalk, StackWalk, ResendWalk, CleanWalk DEF Next, CallNext
<1>2. Types /\ WalkInv /\ Next => Keeps
  <2> SUFFICES ASSUME Types, WalkInv, Next, NEW m \in Messages, Loses(m), cleaner' # "seqs"
               PROVE  \E c \in overlapped : pc[c] = "remove" /\ pc'[c] # "remove"
    OBVIOUS
  <2>1. ~(UNCHANGED <<heap, stack>>)
    BY DEF Stacked, Cells
  <2>2. ~CleanStack /\ ~CleanSeqs
    BY <2>1 DEF CleanStack, CleanSeqs
  <2>3. PICK c \in Calls : CallNext(c)
    BY <2>2 DEF Next
  <2>4. PICK x : Remove(c) \/ PushGlobalStack(x)
    BY <2>1, <2>3 DEF CallNext, StackNext, Start, SkipGroup, Visit, Stamp, PostOld, PushOld, EndWalk,
       PrepareNext, BeginItem, Done, Abandon, SkipItem, PutText, PutUpload, Uploaded, UploadFails,
       UploadedNothing, GetAgain, PutAgain,
       PostNext, Post, Push, Repost, RetryGet, RetryPut, RetryPost, Resend
  <2>5. ~PushGlobalStack(x)
    BY PushKeeps
  <2>6. /\ pc[c] = "remove" /\ pc'[c] = "visit" /\ RemoveFromGlobalStack(c, i[c])
        /\ i[c] \in Nat \ {0}
    BY <2>4, <2>5 DEF Remove, AtPc, Types, CallType
  <2>7. m = Cells[i[c]]
    BY <2>6, RemoveKeeps
  <2>8. c \in overlapped
    <3>1. c \notin overlapped => Cells[i[c]] = cur[c]
      BY <2>6 DEF WalkInv, WalkOf, Walking, HasCur, Cells
    <3>2. cur[c] \in delivered
      BY <2>6 DEF WalkInv, WalkOf
    <3> QED
      BY <2>7, <3>1, <3>2
  <2> QED
    BY <2>6, <2>8
<1>3. UNCHANGED vars => Keeps
  BY DEF vars, Stacked, Cells
<1> QED
  BY InitTypes, StepTypes, InitWalk, <1>1, <1>2, <1>3, PTL DEF Spec, OnlyOverlapsLose
-----------------------------------------------------------------------------
(* What the application is told *)

\* What resp is about is at QQ, and was an item before.
RespOf(c)  == resp[c] # None =>
                resp[c] \in delivered /\ \E j \in Nat : j < k[c] /\ resp[c] = <<c, j>>
AnswerInv  == AnswersNameSent /\ \A c \in Calls : RespOf(c)

\* What an answer to the item in hand may name.
Names(c, error, names) ==
  /\ names # None => /\ names \in delivered'
                     /\ \E j \in Nat : j <= k[c] /\ names = <<c, j>>
                     /\ names = <<c, k[c]>> \/ Items[c][k[c]] = "media"
  /\ Items[c][k[c]] # "media" /\ ~error => names = <<c, k[c]>>

LEMMA Answered ==
  ASSUME Types, AnswerInv, NEW c \in Calls, HasItem(c), NEW error \in BOOLEAN, NEW names,
         Answer(c, error, names), Names(c, error, names), delivered \subseteq delivered'
  PROVE  AnswerInv'
<1>1. k \in [Calls -> Nat \ {0}] /\ <<c, k[c]>> \in Sent
  BY OwnSent
<1>2. /\ answer' = [answer EXCEPT ![<<c, k[c]>>] =
                      [status |-> "ok", error |-> error, names |-> names]]
      /\ resp' = [resp EXCEPT ![c] = IF Items[c][k[c]] \in Leading THEN None ELSE names]
      /\ k' = [k EXCEPT ![c] = @ + 1]
  BY DEF Answer
<1>3. /\ DOMAIN answer = Sent /\ DOMAIN resp = Calls
  BY DEF Types, QqType, AppType
<1>4. AnswersNameSent'
  <2> SUFFICES ASSUME NEW m \in Sent, answer'[m] # None
               PROVE  /\ answer'[m].names # None =>
                           /\ answer'[m].names \in delivered'
                           /\ answer'[m].names[1] = m[1] /\ answer'[m].names[2] <= m[2]
                           /\ answer'[m].names = m \/ Items[m[1]][m[2]] = "media"
                      /\ Items[m[1]][m[2]] # "media" /\ ~answer'[m].error => answer'[m].names = m
    BY DEF AnswersNameSent
  <2>1. CASE m = <<c, k[c]>>
    <3>1. answer'[m].names = names /\ answer'[m].error = error /\ m[1] = c /\ m[2] = k[c]
      BY <1>2, <1>3, <2>1
    <3> QED
      BY <2>1, <3>1 DEF Names
  <2>2. CASE m # <<c, k[c]>>
    <3>1. answer'[m] = answer[m]
      BY <1>2, <1>3, <2>2
    <3> QED
      BY <3>1 DEF AnswerInv, AnswersNameSent
  <2> QED
    BY <2>1, <2>2
<1>5. ASSUME NEW d \in Calls PROVE RespOf(d)'
  <2>1. CASE d # c
    <3>1. resp'[d] = resp[d] /\ k'[d] = k[d]
      BY <1>1, <1>2, <1>3, <2>1
    <3> QED
      BY <3>1 DEF AnswerInv, RespOf
  <2>2. CASE d = c
    <3>1. resp'[c] \in {None, names} /\ k'[c] = k[c] + 1 /\ k[c] \in Nat
      BY <1>1, <1>2, <1>3
    <3>2. \A j \in Nat : j <= k[c] => j < k'[c]
      BY <3>1
    <3> QED
      BY <2>2, <3>1, <3>2 DEF Names, RespOf
  <2> QED
    BY <2>1, <2>2
<1> QED
  BY <1>4, <1>5 DEF AnswerInv

LEMMA NotAnswered ==
  ASSUME Types, AnswerInv, UNCHANGED <<resp, answer>>, delivered \subseteq delivered',
         NEW c \in Calls, k' = k \/ k' = [k EXCEPT ![c] = @ + 1]
  PROVE  AnswerInv'
<1>1. \A d \in Calls : k[d] \in Nat /\ k'[d] \in Nat /\ k[d] <= k'[d]
  BY DEF Types, CallType
<1>2. ASSUME NEW d \in Calls PROVE RespOf(d)'
  BY <1>1 DEF AnswerInv, RespOf
<1> QED
  BY <1>2 DEF AnswerInv, AnswersNameSent

\* After an error no message is named; after "ok" the one that was posted.
LEMMA ErrorAnswered ==
  ASSUME Types, AnswerInv, NEW c \in Calls, HasItem(c), AnswerError(c), delivered \subseteq delivered'
  PROVE  AnswerInv'
BY Answered DEF AnswerError, Names

LEMMA SentAnswered ==
  ASSUME Types, AnswerInv, NEW c \in Calls, HasItem(c), AnswerSent(c), delivered \subseteq delivered',
         <<c, k[c]>> \in delivered'
  PROVE  AnswerInv'
<1>1. k[c] \in Nat
  BY OwnSent
<1>2. Names(c, FALSE, <<c, k[c]>>)
  BY <1>1 DEF Names
<1> QED
  BY <1>2, Answered DEF AnswerSent

\* An upload that fails, or yields nothing, names what resp is about.
LEMMA UploadAnswers ==
  ASSUME Types, AnswerInv, NEW c \in Calls, UploadFails(c) \/ UploadedNothing(c) PROVE AnswerInv'
<1>1. pc[c] = "upload" /\ delivered' = delivered
  BY DEF UploadFails, UploadedNothing, AtPc, qq
<1>2. HasItem(c)
  BY <1>1 DEF HasItem
<1>3. CASE UNCHANGED <<app, k>>
  BY <1>1, <1>3, NotAnswered
<1>4. CASE Items[c][k[c]] = "media" /\ \E error \in BOOLEAN : Answer(c, error, resp[c])
  <2>1. PICK error \in BOOLEAN : Answer(c, error, resp[c])
    BY <1>4
  <2>2. k[c] \in Nat /\ RespOf(c)
    BY <1>2, OwnSent DEF AnswerInv
  <2>3. Names(c, error, resp[c])
    BY <1>1, <1>4, <2>2 DEF Names, RespOf
  <2> QED
    BY <1>1, <1>2, <2>1, <2>3, Answered
<1> QED
  BY <1>3, <1>4 DEF UploadFails, UploadedNothing

\* The walk answers nobody, nor does the preparation of an item.
LEMMA StackAnswers ==
  ASSUME Types, AnswerInv, NEW c \in Calls, StackNext(c) PROVE AnswerInv'
<1>1. CASE Start(c) \/ SkipGroup(c) \/ Visit(c) \/ Stamp(c) \/ Remove(c) \/ PushOld(c) \/ EndWalk(c)
  BY <1>1, NotAnswered DEF Start, SkipGroup, Visit, Stamp, Remove, PushOld, EndWalk, qq
<1>2. CASE PostOld(c)
  BY <1>2, Posted, NotAnswered DEF PostOld
<1> QED
  BY <1>1, <1>2 DEF StackNext

LEMMA PrepareAnswers ==
  ASSUME Types, AnswerInv, NEW c \in Calls, PrepareNext(c) PROVE AnswerInv'
<1>1. CASE \/ BeginItem(c) \/ Done(c) \/ Abandon(c) \/ SkipItem(c) \/ PutText(c) \/ PutUpload(c)
           \/ Uploaded(c) \/ GetAgain(c) \/ PutAgain(c)
  BY <1>1, NotAnswered DEF BeginItem, Done, Abandon, SkipItem, PutText, PutUpload, Uploaded,
     GetAgain, PutAgain, qq
<1> QED
  BY <1>1, UploadAnswers DEF PrepareNext

\* NextTry gives up with an error, or answers nothing yet.
LEMMA TryAnswers ==
  ASSUME Types, AnswerInv, NEW c \in Calls, HasItem(c), NEW at, NextTry(c, at),
         delivered \subseteq delivered'
  PROVE  AnswerInv'
<1>1. AnswerError(c) \/ UNCHANGED <<app, k>>
  BY DEF NextTry
<1> QED
  BY <1>1, ErrorAnswered, NotAnswered

LEMMA PostAnswers ==
  ASSUME Types, AnswerInv, NEW c \in Calls, PostNext(c) PROVE AnswerInv'
<1>0. HasItem(c)
  BY DEF PostNext, Post, Push, Repost, RetryGet, RetryPut, RetryPost, AtPc, HasItem
<1>1. CASE Post(c) \/ Repost(c)
  <2>1. PICK result \in Results :
          /\ PostGroupMessage(c, <<c, k[c]>>, result)
          /\ (result = "ok" /\ AnswerSent(c)) \/ AnswerError(c) \/ UNCHANGED <<app, k>>
    BY <1>1 DEF Post, Repost
  <2>2. delivered \subseteq delivered' /\ (result = "ok" => <<c, k[c]>> \in delivered')
    BY <2>1, Posted
  <2> QED
    BY <1>0, <2>1, <2>2, SentAnswered, ErrorAnswered, NotAnswered
<1>2. CASE Push(c)
  BY <1>0, <1>2, ErrorAnswered DEF Push, qq
<1>3. CASE RetryGet(c)
  BY <1>3, NotAnswered DEF RetryGet, qq
<1>4. CASE RetryPut(c)
  BY <1>0, <1>4, NotAnswered, TryAnswers DEF RetryPut, qq
<1>5. CASE RetryPost(c)
  <2>1. /\ \E result \in Results : PostGroupMessage(c, <<c, k[c]>>, result)
        /\ NextTry(c, "retryPost") \/ AnswerError(c)
    BY <1>5 DEF RetryPost
  <2> QED
    BY <1>0, <2>1, Posted, TryAnswers, ErrorAnswered
<1> QED
  BY <1>1, <1>2, <1>3, <1>4, <1>5 DEF PostNext

LEMMA InitAnswer == Init => AnswerInv
BY DEF Init, AnswerInv, AnswersNameSent, RespOf

\* The message id that the application gets is that of a message which QQ has and its own
\* call sent, whatever the tries, reposts and re-sends came to; only an upload that fails
\* or yields nothing is answered with the id of an item before it.
THEOREM NamedIsSent == Spec => []AnswersNameSent
<1>1. Types /\ AnswerInv /\ [Next]_vars => AnswerInv'
  <2> SUFFICES ASSUME Types, AnswerInv, [Next]_vars PROVE AnswerInv'
    OBVIOUS
  <2>1. CASE CleanStack \/ CleanSeqs \/ UNCHANGED vars
    <3>1. UNCHANGED <<resp, answer, delivered, k>>
      BY <2>1 DEF CleanStack, CleanSeqs, vars, local, qq
    <3> QED
      BY <3>1 DEF AnswerInv, AnswersNameSent, RespOf
  <2>2. ASSUME NEW c \in Calls, Resend(c) PROVE AnswerInv'
    BY <2>2, Requested, NotAnswered DEF Resend, local
  <2>3. CASE \E c \in Calls : CallNext(c)
    BY <2>2, <2>3, StackAnswers, PrepareAnswers, PostAnswers DEF CallNext
  <2> QED
    BY <2>1, <2>3 DEF Next
<1>2. AnswerInv => AnswersNameSent
  BY DEF AnswerInv
<1> QED
  BY InitTypes, StepTypes, InitAnswer, <1>1, <1>2, PTL DEF Spec
=============================================================================
