----------------------------- MODULE UnionCache -----------------------------
(***************************************************************************)
(* The two-way cache id <-> union open id of src/unioncache/unioncache.go. *)
(* Two lock-free maps are written under one mutex and read without it, so  *)
(* every single map operation is a step: what an invariant says of every   *)
(* state is what a concurrent Union() or ID() call can observe.            *)
(*                                                                         *)
(* The empty string is Go's "absent" here (both readers and writers treat  *)
(* "" as no entry); calls with an empty argument return at once and are    *)
(* not modelled.  Only the holder of the mutex writes, so its loads are    *)
(* part of the write they decide.                                          *)
(***************************************************************************)
CONSTANTS Ids,        \* per-group user ids
          Unions,     \* union open ids
          Threads,    \* goroutines that process gateway events
          Nothing,    \* the empty string: no entry
          Nobody      \* the mutex is free

ASSUME NothingAssumption == Nothing \notin Ids /\ Nothing \notin Unions
ASSUME NobodyAssumption  == Nobody \notin Threads

VARIABLES id2union,   \* the two maps
          union2id,
          mu,         \* the holder of the mutex
          pc,         \* the next map operation of each thread
          argId,      \* the arguments of each thread's call
          argUnion

maps == <<id2union, union2id>>
vars == <<id2union, union2id, mu, pc, argId, argUnion>>

Labels == {"idle", "store1", "store2", "store3", "store4", "delid1", "delid2",
           "delunion1", "delunion2", "clear1", "clear2"}

NoUnions == [i \in Ids |-> Nothing]
NoIds    == [u \in Unions |-> Nothing]

\* A delete of an absent key is a no-op.
Without(m, k) == IF k \in DOMAIN m THEN [m EXCEPT ![k] = Nothing] ELSE m

Init == /\ id2union = NoUnions
        /\ union2id = NoIds
        /\ mu = Nobody
        /\ pc = [t \in Threads |-> "idle"]
        /\ argId = [t \in Threads |-> Nothing]
        /\ argUnion = [t \in Threads |-> Nothing]

-----------------------------------------------------------------------------
\* A call takes the mutex ...
Lock(t, entry) == /\ pc[t] = "idle"
                  /\ mu = Nobody
                  /\ mu' = t
                  /\ pc' = [pc EXCEPT ![t] = entry]

\* ... does one map operation ...
Step(t, at, next) == /\ pc[t] = at
                     /\ pc' = [pc EXCEPT ![t] = next]
                     /\ UNCHANGED <<mu, argId, argUnion>>

\* ... and releases it with the last one (defer mu.Unlock()).
Finish(t, at) == /\ pc[t] = at
                 /\ pc' = [pc EXCEPT ![t] = "idle"]
                 /\ mu' = Nobody
                 /\ argId' = [argId EXCEPT ![t] = Nothing]
                 /\ argUnion' = [argUnion EXCEPT ![t] = Nothing]

CallStore(t, i, u) == /\ Lock(t, "store1")
                      /\ argId' = [argId EXCEPT ![t] = i]
                      /\ argUnion' = [argUnion EXCEPT ![t] = u]
                      /\ UNCHANGED maps

\* Mutants: definitions with a plausible bug, which the runs are shown to notice.
MStoreDropOldId(t) == Step(t, "store2", "store3") /\ UNCHANGED maps

MStorePutUnion(t) == /\ Step(t, "store3", "store4")
                     /\ id2union' = [id2union EXCEPT ![argId[t]] = argId[t]]
                     /\ UNCHANGED union2id

MDeleteUnionForward(t) == Step(t, "delunion1", "delunion2") /\ UNCHANGED maps

MStoreDropOldUnion(t) == Step(t, "store1", "store2") /\ UNCHANGED maps

\* 1) the union that the id was bound to forgets the id
StoreDropOldUnion(t) ==
  /\ Step(t, "store1", "store2")
  /\ LET u == id2union[argId[t]]
     IN  union2id' = IF u # argUnion[t] THEN Without(union2id, u) ELSE union2id
  /\ UNCHANGED id2union

\* 2) the id that the union was bound to forgets the union
StoreDropOldId(t) ==
  /\ Step(t, "store2", "store3")
  /\ LET i == union2id[argUnion[t]]
     IN  id2union' = IF i # argId[t] THEN Without(id2union, i) ELSE id2union
  /\ UNCHANGED union2id

\* 3) the new pair, one map after the other
StorePutUnion(t) ==
  /\ Step(t, "store3", "store4")
  /\ id2union' = [id2union EXCEPT ![argId[t]] = argUnion[t]]
  /\ UNCHANGED union2id

StorePutId(t) ==
  /\ Finish(t, "store4")
  /\ union2id' = [union2id EXCEPT ![argUnion[t]] = argId[t]]
  /\ UNCHANGED id2union

CallDeleteID(t, i) == /\ Lock(t, "delid1")
                      /\ argId' = [argId EXCEPT ![t] = i]
                      /\ UNCHANGED <<maps, argUnion>>

DeleteIDReverse(t) == /\ Step(t, "delid1", "delid2")
                      /\ union2id' = Without(union2id, id2union[argId[t]])
                      /\ UNCHANGED id2union

DeleteIDForward(t) == /\ Finish(t, "delid2")
                      /\ id2union' = Without(id2union, argId[t])
                      /\ UNCHANGED union2id

CallDeleteUnion(t, u) == /\ Lock(t, "delunion1")
                         /\ argUnion' = [argUnion EXCEPT ![t] = u]
                         /\ UNCHANGED <<maps, argId>>

DeleteUnionForward(t) == /\ Step(t, "delunion1", "delunion2")
                         /\ id2union' = Without(id2union, union2id[argUnion[t]])
                         /\ UNCHANGED union2id

DeleteUnionReverse(t) == /\ Finish(t, "delunion2")
                         /\ union2id' = Without(union2id, argUnion[t])
                         /\ UNCHANGED id2union

CallClear(t) == Lock(t, "clear1") /\ UNCHANGED <<maps, argId, argUnion>>

ClearUnions(t) == /\ Step(t, "clear1", "clear2")
                  /\ id2union' = NoUnions
                  /\ UNCHANGED union2id

ClearIds(t) == /\ Finish(t, "clear2")
               /\ union2id' = NoIds
               /\ UNCHANGED id2union

StoreStep(t) == \/ StoreDropOldUnion(t) \/ StoreDropOldId(t)
                \/ StorePutUnion(t) \/ StorePutId(t)

DeleteStep(t) == \/ DeleteIDReverse(t) \/ DeleteIDForward(t)
                 \/ DeleteUnionForward(t) \/ DeleteUnionReverse(t)

ClearStep(t) == ClearUnions(t) \/ ClearIds(t)

Next == \E t \in Threads :
          \/ \E i \in Ids, u \in Unions : CallStore(t, i, u)
          \/ \E i \in Ids : CallDeleteID(t, i)
          \/ \E u \in Unions : CallDeleteUnion(t, u)
          \/ CallClear(t)
          \/ StoreStep(t)
          \/ DeleteStep(t)
          \/ ClearStep(t)

Spec == Init /\ [][Next]_vars

-----------------------------------------------------------------------------
TypeOK == /\ id2union \in [Ids -> Unions \cup {Nothing}]
          /\ union2id \in [Unions -> Ids \cup {Nothing}]
          /\ mu \in Threads \cup {Nobody}
          /\ pc \in [Threads -> Labels]
          /\ argId \in [Threads -> Ids \cup {Nothing}]
          /\ argUnion \in [Threads -> Unions \cup {Nothing}]

\* Whenever no writer is inside, the two maps are inverses of each other: the
\* "1:1" of Store's comment, which every later Store relies on to find the
\* stale half of a binding it replaces.
MutualInverse ==
  mu = Nobody =>
    \A i \in Ids, u \in Unions : id2union[i] = u <=> union2id[u] = i

\* Even in the middle of a Store no lock-free reader can find two users with
\* one union id, or two union ids for one user: stale halves are deleted before
\* the new pair is written.
OneToOneForReaders ==
  /\ \A i, j \in Ids : id2union[i] = id2union[j] /\ i # j => id2union[i] = Nothing
  /\ \A u, v \in Unions : union2id[u] = union2id[v] /\ u # v => union2id[u] = Nothing

\* The binding that a writer in mid-call has not changed yet: step 2 of Store
\* takes the old partner out of id2union one step before the new pair goes in.
AbstractBinding ==
  [i \in Ids |->
     IF \E t \in Threads : pc[t] = "store3" /\ union2id[argUnion[t]] = i
                           /\ argId[t] # i
     THEN CHOOSE u \in Unions : union2id[u] = i
     ELSE id2union[i]]

Binding == INSTANCE UnionBinding WITH bound <- AbstractBinding

\* Every call behaves as if it changed the binding at one instant.
AtomicBinding == Binding!BindingSpec
=============================================================================
