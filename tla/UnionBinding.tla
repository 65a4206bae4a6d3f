---------------------------- MODULE UnionBinding ----------------------------
(***************************************************************************)
(* What the union cache promises its callers: a partial one-to-one binding *)
(* of per-group user ids to union open ids, changed atomically.  Binding a *)
(* pair dissolves whatever either side was bound to before.                *)
(* (src/unioncache/unioncache.go)                                          *)
(***************************************************************************)
CONSTANTS Ids, Unions, Nothing

VARIABLE bound       \* bound[i]: the union id that i is bound to, or Nothing

BindingInit == bound = [i \in Ids |-> Nothing]

\* Store: i and u are bound to each other and to nobody else.
Bind(i, u) ==
  bound' = [j \in Ids |-> IF j = i THEN u
                          ELSE IF bound[j] = u THEN Nothing ELSE bound[j]]

\* DeleteID, and DeleteUnion seen from the id it dissolves.
Unbind(i) == bound' = [bound EXCEPT ![i] = Nothing]

\* Clear.
UnbindAll == bound' = [i \in Ids |-> Nothing]

BindingNext == \/ \E i \in Ids, u \in Unions : Bind(i, u)
               \/ \E i \in Ids : Unbind(i)
               \/ UnbindAll

BindingSpec == BindingInit /\ [][BindingNext]_bound
=============================================================================
