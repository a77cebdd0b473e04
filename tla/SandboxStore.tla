---------------------------- MODULE SandboxStore ----------------------------
(***************************************************************************)
(* What the trait SandboxStore (services/xolis-api/src/store.rs) promises  *)
(* the handlers, whichever store is behind it: sandboxes are created and   *)
(* go away one at a time, an idempotency key names at most one of them,    *)
(* an id is never given twice, and an answer shows sandboxes of the        *)
(* caller's tenant that are stored at that moment: one, or all of them.    *)
(*                                                                         *)
(* InMemoryStore and KubernetesStore are shown to implement this.          *)
(***************************************************************************)
CONSTANTS Tenants, Keys, NoKey, Ids

VARIABLES stored,   \* pairs id, tenant
          named,    \* triples tenant, key, id: the ids that keys name
          used,     \* the ids given so far
          answer    \* pairs id, calling tenant: what the last answer showed

storeVars == <<stored, named, used, answer>>

StoreInit == stored = {} /\ named = {} /\ used = {} /\ answer = {}

(* Nothing (an error, an empty list, a lost answer), one sandbox, or all   *)
(* those of the calling tenant.                                            *)
Shows ==
    \/ answer' = {}
    \/ \E s \in stored' : answer' = {s}
    \/ \E t \in Tenants : answer' = {s \in stored' : s[2] = t}

Create(t, k, id) ==
    /\ id \notin used
    /\ \A n \in named : ~(n[1] = t /\ n[2] = k)
    /\ stored' = stored \cup {<<id, t>>}
    /\ named' = IF k = NoKey THEN named ELSE named \cup {<<t, k, id>>}
    /\ used' = used \cup {id}
    /\ Shows

(* get, list, a create whose key names a sandbox, and every error. *)
Read == Shows /\ UNCHANGED <<stored, named, used>>

(* The sandbox is deleted or expires, and its key is free again. *)
Remove(id) ==
    /\ stored' = {s \in stored : s[1] # id}
    /\ named' = {n \in named : n[3] # id}
    /\ answer' = {}
    /\ UNCHANGED used

StoreNext ==
    \/ \E t \in Tenants, k \in Keys \cup {NoKey}, id \in Ids : Create(t, k, id)
    \/ Read
    \/ \E id \in Ids : Remove(id)

StoreSpec == StoreInit /\ [][StoreNext]_storeVars
=============================================================================
