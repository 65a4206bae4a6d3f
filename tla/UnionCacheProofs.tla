-------------------------- MODULE UnionCacheProofs --------------------------
(***************************************************************************)
(* For every set of ids, union ids and threads: the maps of UnionCache are *)
(* inverses of each other whenever the mutex is free, readers never see a  *)
(* many-to-one binding, and the calls implement an atomic binding.         *)
(***************************************************************************)
EXTENDS UnionCache, TLAPS

\* The mutex: exactly its holder is inside a call.
MutexInv == \A t \in Threads : pc[t] # "idle" <=> mu = t

\* The calls have the arguments their steps use.
ArgsInv ==
  \A t \in Threads :
    /\ pc[t] \in {"store1", "store2", "store3", "store4"} =>
         argId[t] \in Ids /\ argUnion[t] \in Unions
    /\ pc[t] \in {"delid1", "delid2"} => argId[t] \in Ids
    /\ pc[t] \in {"delunion1", "delunion2"} => argUnion[t] \in Unions

\* A pair is in both maps or in neither.
Inverse(i, u) == id2union[i] = u <=> union2id[u] = i

\* How far thread t, at its label, has taken the maps apart at the pair i, u.
Phase(t, i, u) ==
  /\ pc[t] \in {"store1", "delid1", "delunion1", "clear1"} => Inverse(i, u)
  /\ pc[t] = "store2" =>
       IF i # argId[t] THEN Inverse(i, u)
       ELSE union2id[u] = i <=> u = argUnion[t] /\ id2union[i] = u
  /\ pc[t] \in {"store3", "store4"} =>
       /\ i # argId[t] /\ u # argUnion[t] => Inverse(i, u)
       /\ i # argId[t] => id2union[i] # argUnion[t]
       /\ u # argUnion[t] => union2id[u] # argId[t]
  /\ pc[t] = "store4" => id2union[argId[t]] = argUnion[t]
  /\ pc[t] = "delid2" =>
       /\ i # argId[t] => Inverse(i, u)
       /\ union2id[u] # argId[t]
  /\ pc[t] = "delunion2" =>
       /\ u # argUnion[t] => Inverse(i, u)
       /\ id2union[i] # argUnion[t]
  /\ pc[t] = "clear2" => id2union[i] = Nothing

PhaseInv == \A t \in Threads : \A i \in Ids, u \in Unions : Phase(t, i, u)

IInv == /\ TypeOK
        /\ MutexInv
        /\ ArgsInv
        /\ MutualInverse
        /\ PhaseInv
        /\ OneToOneForReaders

-----------------------------------------------------------------------------
\* Every step keeps the variables within their sets.
LEMMA TypeStep == TypeOK /\ ArgsInv /\ [Next]_vars => TypeOK'
<1> SUFFICES ASSUME TypeOK, ArgsInv, [Next]_vars PROVE TypeOK'
  OBVIOUS
<1> USE NothingAssumption, NobodyAssumption
<1> USE DEF TypeOK, ArgsInv, Labels, NoUnions, NoIds
<1>1. CASE UNCHANGED vars
  BY <1>1 DEF vars
<1>2. ASSUME NEW t \in Threads,
             \/ \E i \in Ids, u \in Unions : CallStore(t, i, u)
             \/ \E i \in Ids : CallDeleteID(t, i)
             \/ \E u \in Unions : CallDeleteUnion(t, u)
             \/ CallClear(t)
      PROVE  TypeOK'
  BY <1>2 DEF CallStore, CallDeleteID, CallDeleteUnion, CallClear, Lock, maps
<1>3. ASSUME NEW t \in Threads, StoreStep(t) PROVE TypeOK'
  BY <1>3 DEF StoreStep, StoreDropOldUnion, StoreDropOldId, StorePutUnion,
              StorePutId, Step, Finish, Without
<1>4. ASSUME NEW t \in Threads, DeleteStep(t) PROVE TypeOK'
  BY <1>4 DEF DeleteStep, DeleteIDReverse, DeleteIDForward, DeleteUnionForward,
              DeleteUnionReverse, Step, Finish, Without
<1>5. ASSUME NEW t \in Threads, ClearStep(t) PROVE TypeOK'
  BY <1>5 DEF ClearStep, ClearUnions, ClearIds, Step, Finish
<1> QED
  BY <1>1, <1>2, <1>3, <1>4, <1>5 DEF Next

\* Every step respects the mutex and passes its call's arguments on.
LEMMA MutexStep ==
  TypeOK /\ MutexInv /\ ArgsInv /\ [Next]_vars => MutexInv' /\ ArgsInv'
<1> SUFFICES ASSUME TypeOK, MutexInv, ArgsInv, [Next]_vars
             PROVE  MutexInv' /\ ArgsInv'
  OBVIOUS
<1> USE NothingAssumption, NobodyAssumption
<1> USE DEF TypeOK, MutexInv, ArgsInv, Labels
<1>1. CASE UNCHANGED vars
  BY <1>1 DEF vars
<1>2. ASSUME NEW t \in Threads,
             \/ \E i \in Ids, u \in Unions : CallStore(t, i, u)
             \/ \E i \in Ids : CallDeleteID(t, i)
             \/ \E u \in Unions : CallDeleteUnion(t, u)
             \/ CallClear(t)
      PROVE  MutexInv' /\ ArgsInv'
  BY <1>2 DEF CallStore, CallDeleteID, CallDeleteUnion, CallClear, Lock
<1>3. ASSUME NEW t \in Threads, StoreStep(t) PROVE MutexInv' /\ ArgsInv'
  BY <1>3 DEF StoreStep, StoreDropOldUnion, StoreDropOldId, StorePutUnion,
              StorePutId, Step, Finish
<1>4. ASSUME NEW t \in Threads, DeleteStep(t) PROVE MutexInv' /\ ArgsInv'
  BY <1>4 DEF DeleteStep, DeleteIDReverse, DeleteIDForward, DeleteUnionForward,
              DeleteUnionReverse, Step, Finish
<1>5. ASSUME NEW t \in Threads, ClearStep(t) PROVE MutexInv' /\ ArgsInv'
  BY <1>5 DEF ClearStep, ClearUnions, ClearIds, Step, Finish
<1> QED
  BY <1>1, <1>2, <1>3, <1>4, <1>5 DEF Next

\* Every map operation keeps the halves of the bindings in the positions that
\* the next operation of the call expects.
LEMMA PhaseStep == IInv /\ [Next]_vars => PhaseInv' /\ MutualInverse' /\ OneToOneForReaders'
<1> SUFFICES ASSUME IInv, [Next]_vars
             PROVE  PhaseInv' /\ MutualInverse' /\ OneToOneForReaders'
  OBVIOUS
<1> DEFINE Goal == PhaseInv /\ MutualInverse /\ OneToOneForReaders
<1> USE NothingAssumption, NobodyAssumption
<1> USE DEF Inverse
<1>1. CASE UNCHANGED vars
  BY <1>1 DEF vars, IInv, PhaseInv, Phase, MutualInverse, OneToOneForReaders
<1>2. ASSUME NEW t \in Threads,
             \/ \E i \in Ids, u \in Unions : CallStore(t, i, u)
             \/ \E i \in Ids : CallDeleteID(t, i)
             \/ \E u \in Unions : CallDeleteUnion(t, u)
             \/ CallClear(t)
      PROVE  Goal'
  <2>1. PhaseInv'
    BY <1>2 DEF IInv, TypeOK, MutexInv, MutualInverse, PhaseInv, Phase, CallStore,
                CallDeleteID, CallDeleteUnion, CallClear, Lock, maps
  <2>2. MutualInverse' /\ OneToOneForReaders'
    BY <1>2 DEF IInv, TypeOK, MutualInverse, OneToOneForReaders, CallStore,
                CallDeleteID, CallDeleteUnion, CallClear, Lock, maps
  <2> QED BY <2>1, <2>2
<1>3. ASSUME NEW t \in Threads, StoreStep(t) \/ DeleteStep(t) \/ ClearStep(t)
      PROVE  Goal'
  <2> SUFFICES ASSUME \A s \in Threads : s # t => pc[s] = "idle"
               PROVE  Goal'
    BY <1>3 DEF IInv, MutexInv, StoreStep, DeleteStep, ClearStep, StoreDropOldUnion,
                StoreDropOldId, StorePutUnion, StorePutId, DeleteIDReverse,
                DeleteIDForward, DeleteUnionForward, DeleteUnionReverse,
                ClearUnions, ClearIds, Step, Finish
  <2> USE DEF IInv, TypeOK, ArgsInv, MutexInv, PhaseInv, Phase, MutualInverse,
              OneToOneForReaders, Step, Finish, Without
  <2>1. CASE StoreDropOldUnion(t)  BY <2>1 DEF StoreDropOldUnion
  <2>2. CASE StoreDropOldId(t)     BY <2>2 DEF StoreDropOldId
  <2>3. CASE StorePutUnion(t)      BY <2>3 DEF StorePutUnion
  <2>4. CASE StorePutId(t)         BY <2>4 DEF StorePutId
  <2>5. CASE DeleteIDReverse(t)    BY <2>5 DEF DeleteIDReverse
  <2>6. CASE DeleteIDForward(t)    BY <2>6 DEF DeleteIDForward
  <2>7. CASE DeleteUnionForward(t) BY <2>7 DEF DeleteUnionForward
  <2>8. CASE DeleteUnionReverse(t) BY <2>8 DEF DeleteUnionReverse
  <2>9. CASE ClearUnions(t)        BY <2>9 DEF ClearUnions, NoUnions
  <2>10. CASE ClearIds(t)          BY <2>10 DEF ClearIds, NoIds
  <2> QED
    BY <1>3, <2>1, <2>2, <2>3, <2>4, <2>5, <2>6, <2>7, <2>8, <2>9, <2>10
       DEF StoreStep, DeleteStep, ClearStep
<1> QED
  BY <1>1, <1>2, <1>3 DEF Next

\* IInv is inductive.
LEMMA Invariance == Spec => []IInv
<1>1. Init => IInv
  BY NothingAssumption, NobodyAssumption
     DEF Init, IInv, TypeOK, Labels, MutexInv, ArgsInv, MutualInverse, PhaseInv,
         Phase, Inverse, OneToOneForReaders, NoUnions, NoIds
<1>2. IInv /\ [Next]_vars => IInv'
  BY TypeStep, MutexStep, PhaseStep DEF IInv
<1> QED
  BY <1>1, <1>2, PTL DEF Spec

\* The maps stay within their sets.
THEOREM TypeCorrect == Spec => []TypeOK
  BY Invariance, PTL DEF IInv

\* With the mutex free, id2union and union2id are inverses of each other.
THEOREM MapsAreInverse == Spec => []MutualInverse
  BY Invariance, PTL DEF IInv

\* At no instant does a lock-free reader find a union id shared by two users.
THEOREM ReadersSeeOneToOne == Spec => []OneToOneForReaders
  BY Invariance, PTL DEF IInv

-----------------------------------------------------------------------------
\* The id that Store has taken out of id2union, one step before its union id
\* gets the new partner.
Dissolved(t, i) ==
  pc[t] = "store3" /\ union2id[argUnion[t]] = i /\ argId[t] # i

\* AbstractBinding, with the choice resolved: the dissolved id is still bound to
\* the union id that is being stored.
Resolved ==
  \A i \in Ids :
    /\ \A t \in Threads : Dissolved(t, i) => AbstractBinding[i] = argUnion[t]
    /\ ~(\E t \in Threads : Dissolved(t, i)) => AbstractBinding[i] = id2union[i]

LEMMA AbstractValue == IInv => Resolved
<1> SUFFICES ASSUME IInv, NEW i \in Ids
             PROVE  /\ \A t \in Threads : Dissolved(t, i) => AbstractBinding[i] = argUnion[t]
                    /\ ~(\E t \in Threads : Dissolved(t, i)) => AbstractBinding[i] = id2union[i]
  BY DEF Resolved
<1>1. ASSUME NEW t \in Threads, Dissolved(t, i) PROVE AbstractBinding[i] = argUnion[t]
  <2>1. argUnion[t] \in Unions /\ union2id[argUnion[t]] = i
    BY <1>1 DEF Dissolved, IInv, ArgsInv
  <2>2. \A u \in Unions : union2id[u] = i => u = argUnion[t]
    BY <2>1, NothingAssumption DEF IInv, OneToOneForReaders
  <2>3. (CHOOSE u \in Unions : union2id[u] = i) = argUnion[t]
    BY <2>1, <2>2
  <2> QED BY <1>1, <2>3 DEF AbstractBinding, Dissolved
<1>2. ~(\E t \in Threads : Dissolved(t, i)) => AbstractBinding[i] = id2union[i]
  BY DEF AbstractBinding, Dissolved
<1> QED BY <1>1, <1>2

\* A step of a call changes the abstract binding at its linearization point and
\* at no other.
LEMMA StepRefines ==
  IInv /\ IInv' /\ [Next]_vars => [Binding!BindingNext]_AbstractBinding
<1> SUFFICES ASSUME IInv, IInv', [Next]_vars
             PROVE  Binding!BindingNext \/ UNCHANGED AbstractBinding
  OBVIOUS
<1> USE NothingAssumption, NobodyAssumption
<1>1. /\ AbstractBinding = [i \in Ids |-> AbstractBinding[i]]
      /\ AbstractBinding' = [i \in Ids |-> AbstractBinding'[i]]
  BY DEF AbstractBinding
<1>2. Resolved /\ Resolved'
  BY AbstractValue, PTL
<1>3. CASE UNCHANGED vars
  BY <1>3 DEF vars, AbstractBinding
<1>4. ASSUME NEW t \in Threads,
             \/ \E i \in Ids, u \in Unions : CallStore(t, i, u)
             \/ \E i \in Ids : CallDeleteID(t, i)
             \/ \E u \in Unions : CallDeleteUnion(t, u)
             \/ CallClear(t)
      PROVE  UNCHANGED AbstractBinding
  <2>1. /\ UNCHANGED maps
        /\ \A s \in Threads : pc[s] # "store3" /\ pc'[s] # "store3"
    BY <1>4 DEF IInv, TypeOK, MutexInv, CallStore, CallDeleteID, CallDeleteUnion,
                CallClear, Lock, maps
  <2> QED BY <2>1 DEF AbstractBinding, maps
<1>5. ASSUME NEW t \in Threads, StoreStep(t) \/ DeleteStep(t) \/ ClearStep(t)
      PROVE  Binding!BindingNext \/ UNCHANGED AbstractBinding
  <2>1. \A s \in Threads : s # t => pc[s] = "idle" /\ pc'[s] = "idle"
    BY <1>5 DEF IInv, TypeOK, MutexInv, StoreStep, DeleteStep, ClearStep,
                StoreDropOldUnion, StoreDropOldId, StorePutUnion, StorePutId,
                DeleteIDReverse, DeleteIDForward, DeleteUnionForward,
                DeleteUnionReverse, ClearUnions, ClearIds, Step, Finish
  <2>2. ASSUME NEW i \in Ids
        PROVE  AbstractBinding[i] = IF Dissolved(t, i) THEN argUnion[t] ELSE id2union[i]
    BY <1>2, <2>1 DEF Resolved, Dissolved
  <2>3. ASSUME NEW i \in Ids
        PROVE  AbstractBinding'[i] = IF Dissolved(t, i)' THEN argUnion'[t] ELSE id2union'[i]
    BY <1>2, <2>1 DEF Resolved, Dissolved
  <2>4. ASSUME \A i \in Ids : AbstractBinding'[i] = AbstractBinding[i]
        PROVE  UNCHANGED AbstractBinding
    BY <1>1, <2>4
  <2> USE DEF IInv, TypeOK, ArgsInv, PhaseInv, Phase, Inverse, Step, Finish,
              Dissolved, Without
  <2>5. CASE StoreDropOldUnion(t)
    BY <2>2, <2>3, <2>4, <2>5 DEF StoreDropOldUnion
  <2>6. CASE StoreDropOldId(t)
    BY <2>2, <2>3, <2>4, <2>6 DEF StoreDropOldId
  <2>7. CASE StorePutUnion(t)
    <3>1. argId[t] \in Ids /\ argUnion[t] \in Unions
      BY <2>7 DEF StorePutUnion
    <3>2. ASSUME NEW i \in Ids
          PROVE  AbstractBinding'[i] = IF i = argId[t] THEN argUnion[t]
                                       ELSE IF AbstractBinding[i] = argUnion[t]
                                            THEN Nothing ELSE AbstractBinding[i]
      <4>1. CASE i = argId[t]
        BY <2>3, <2>7, <3>1, <4>1 DEF StorePutUnion
      <4>2. CASE Dissolved(t, i)
        <5>1. id2union[i] = Nothing
          BY <2>7, <3>1, <4>2 DEF StorePutUnion, OneToOneForReaders
        <5> QED BY <2>2, <2>3, <2>7, <4>2, <5>1 DEF StorePutUnion
      <4>3. CASE i # argId[t] /\ ~Dissolved(t, i)
        BY <2>2, <2>3, <2>7, <3>1, <4>3 DEF StorePutUnion
      <4> QED BY <4>1, <4>2, <4>3
    <3>3. Binding!Bind(argId[t], argUnion[t])
      BY <1>1, <3>2 DEF Binding!Bind
    <3> QED BY <3>1, <3>3 DEF Binding!BindingNext
  <2>8. CASE StorePutId(t)
    BY <2>2, <2>3, <2>4, <2>8 DEF StorePutId
  <2>9. CASE DeleteIDReverse(t)
    BY <2>2, <2>3, <2>4, <2>9 DEF DeleteIDReverse
  <2>10. CASE DeleteIDForward(t)
    <3>1. argId[t] \in Ids
      BY <2>10 DEF DeleteIDForward
    <3>2. ASSUME NEW i \in Ids
          PROVE  AbstractBinding'[i] = [AbstractBinding EXCEPT ![argId[t]] = Nothing][i]
      BY <1>1, <2>2, <2>3, <2>10 DEF DeleteIDForward
    <3>3. Binding!Unbind(argId[t])
      BY <1>1, <3>2 DEF Binding!Unbind
    <3> QED BY <3>1, <3>3 DEF Binding!BindingNext
  <2>11. CASE DeleteUnionForward(t)
    <3>1. CASE union2id[argUnion[t]] \in Ids
      <4> DEFINE j == union2id[argUnion[t]]
      <4>1. ASSUME NEW i \in Ids
            PROVE  AbstractBinding'[i] = [AbstractBinding EXCEPT ![j] = Nothing][i]
        BY <1>1, <2>2, <2>3, <2>11, <3>1 DEF DeleteUnionForward
      <4>2. Binding!Unbind(j)
        BY <1>1, <4>1 DEF Binding!Unbind
      <4> QED BY <3>1, <4>2 DEF Binding!BindingNext
    <3>2. CASE union2id[argUnion[t]] \notin Ids
      BY <2>2, <2>3, <2>4, <2>11, <3>2 DEF DeleteUnionForward
    <3> QED BY <3>1, <3>2
  <2>12. CASE DeleteUnionReverse(t)
    BY <2>2, <2>3, <2>4, <2>12 DEF DeleteUnionReverse
  <2>13. CASE ClearUnions(t)
    <3>1. ASSUME NEW i \in Ids PROVE AbstractBinding'[i] = Nothing
      BY <2>3, <2>13 DEF ClearUnions, NoUnions
    <3>2. Binding!UnbindAll
      BY <1>1, <3>1 DEF Binding!UnbindAll
    <3> QED BY <3>2 DEF Binding!BindingNext
  <2>14. CASE ClearIds(t)
    BY <2>2, <2>3, <2>4, <2>14 DEF ClearIds
  <2> QED
    BY <1>5, <2>5, <2>6, <2>7, <2>8, <2>9, <2>10, <2>11, <2>12, <2>13, <2>14
       DEF StoreStep, DeleteStep, ClearStep
<1> QED
  BY <1>3, <1>4, <1>5 DEF Next

\* The fine-grained cache implements the atomic one-to-one binding: a caller of
\* Store, DeleteID, DeleteUnion or Clear may reason as if the call were one step.
THEOREM ImplementsBinding == Spec => AtomicBinding
<1>1. Init => Binding!BindingInit
  BY DEF Init, Binding!BindingInit, AbstractBinding, NoUnions
<1>2. IInv /\ IInv' /\ [Next]_vars => [Binding!BindingNext]_AbstractBinding
  BY StepRefines
<1> QED
  BY <1>1, <1>2, Invariance, PTL DEF Spec, AtomicBinding, Binding!BindingSpec
=============================================================================
