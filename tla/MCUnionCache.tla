---------------------------- MODULE MCUnionCache ----------------------------
(* Three ids, three union ids and two writers: enough for a Store that has to *)
(* dissolve two older bindings while another writer waits for the mutex.      *)
EXTENDS UnionCacheProofs
=============================================================================
