---------------------------- MODULE InMemoryStore ----------------------------
(***************************************************************************)
(* The in-process sandbox store of xolis-api                               *)
(* (services/xolis-api/src/store.rs, InMemorySandboxStore): two hash maps  *)
(* behind one RwLock.  Every method takes the lock once and holds it until *)
(* it returns, so each method is one atomic step.                          *)
(*                                                                         *)
(* Kept: the two maps, every early return, the answer of each call.        *)
(* Abstracted: timestamps, profile and metadata (no branch reads them);    *)
(* the order of a listing.                                                 *)
(***************************************************************************)
EXTENDS FiniteSets

CONSTANTS Tenants,   \* values of the X-Xolis-Tenant header
          Keys,      \* values of the Idempotency-Key header
          NoKey,     \* the header is absent
          Ids        \* what Uuid::new_v4 can return in one behaviour

ASSUME NoKeyAssumption == NoKey \notin Keys

VARIABLES sandboxes,    \* HashMap<id, Sandbox>
          idempotency,  \* HashMap<(tenant, key), id>
          issued,       \* every id new_v4 has returned so far
          reply         \* the call that took effect last, and its answer

vars == <<sandboxes, idempotency, issued, reply>>

States == {"Pending", "Running"}
Sandbox == [tenant : Tenants, state : States]
Errors == {"none", "NotFound", "Conflict"}
Reply == [op : {"init", "create", "list", "get", "delete"},
          tenant : Tenants, error : Errors, ids : SUBSET Ids]

Answer(op, t, ids) == [op |-> op, tenant |-> t, error |-> "none", ids |-> ids]
Refuse(op, t, e) == [op |-> op, tenant |-> t, error |-> e, ids |-> {}]

Without(f, S) == [x \in DOMAIN f \ S |-> f[x]]
With(f, x, v) == [y \in DOMAIN f \cup {x} |-> IF y = x THEN v ELSE f[y]]

Init == /\ sandboxes = [i \in {} |-> {}]
        /\ idempotency = [r \in {} |-> {}]
        /\ issued = {}
        /\ reply \in [op : {"init"}, tenant : Tenants, error : {"none"}, ids : {{}}]

-----------------------------------------------------------------------------
(* create: a key that is already recorded answers the recorded sandbox, or *)
(* Conflict("stale idempotency record") when the sandbox is not there.     *)

CreateKnown(t, k) ==
    /\ <<t, k>> \in DOMAIN idempotency
    /\ reply' = IF idempotency[<<t, k>>] \in DOMAIN sandboxes
                  THEN Answer("create", t, {idempotency[<<t, k>>]})
                  ELSE Refuse("create", t, "Conflict")
    /\ UNCHANGED <<sandboxes, idempotency, issued>>

(* The new Pending sandbox enters both maps, the idempotency map as given. *)
Insert(t, id, records) ==
    /\ id \in Ids \ issued
    /\ issued' = issued \cup {id}
    /\ idempotency' = records
    /\ sandboxes' = With(sandboxes, id, [tenant |-> t, state |-> "Pending"])
    /\ reply' = Answer("create", t, {id})

\* Slip: the lookup of the key is skipped, so the record is overwritten.
CreateFreshSlipLookup(t, k, id) ==
    Insert(t, id, IF k = NoKey THEN idempotency ELSE With(idempotency, <<t, k>>, id))

CreateFresh(t, k, id) ==
    /\ <<t, k>> \notin DOMAIN idempotency
    /\ Insert(t, id, IF k = NoKey THEN idempotency
                                  ELSE With(idempotency, <<t, k>>, id))

Owned(t) == {i \in DOMAIN sandboxes : sandboxes[i].tenant = t}

List(t) == /\ reply' = Answer("list", t, Owned(t))
           /\ UNCHANGED <<sandboxes, idempotency, issued>>

Get(t, id) == /\ reply' = IF id \in Owned(t) THEN Answer("get", t, {id})
                                             ELSE Refuse("get", t, "NotFound")
              /\ UNCHANGED <<sandboxes, idempotency, issued>>

DeleteAbsent(t, id) ==
    /\ id \notin Owned(t)
    /\ reply' = Refuse("delete", t, "NotFound")
    /\ UNCHANGED <<sandboxes, idempotency, issued>>

\* Slip: the retain that drops the records of the sandbox is forgotten.
DeletePresentSlip(t, id) ==
    /\ id \in Owned(t)
    /\ sandboxes' = Without(sandboxes, {id})
    /\ reply' = Answer("delete", t, {id})
    /\ UNCHANGED <<idempotency, issued>>

DeletePresent(t, id) ==
    /\ id \in Owned(t)
    /\ sandboxes' = Without(sandboxes, {id})
    /\ idempotency' = Without(idempotency,
                              {r \in DOMAIN idempotency : idempotency[r] = id})
    /\ reply' = Answer("delete", t, {id})
    /\ UNCHANGED issued

(* mark_running stands in for the reconciler in the API's own tests. *)
MarkRunning(id) ==
    /\ id \in DOMAIN sandboxes
    /\ sandboxes' = [sandboxes EXCEPT ![id].state = "Running"]
    /\ UNCHANGED <<idempotency, issued, reply>>

Next == \/ \E t \in Tenants, k \in Keys : CreateKnown(t, k)
        \/ \E t \in Tenants, k \in Keys \cup {NoKey}, id \in Ids : CreateFresh(t, k, id)
        \/ \E t \in Tenants : List(t)
        \/ \E t \in Tenants, id \in Ids : \/ Get(t, id)
                                          \/ DeleteAbsent(t, id)
                                          \/ DeletePresent(t, id)
        \/ \E id \in Ids : MarkRunning(id)

Spec == Init /\ [][Next]_vars

-----------------------------------------------------------------------------
(* Type correctness of the two maps and of the answer (store.rs 29-38). *)
TypeOK ==
    /\ issued \subseteq Ids
    /\ DOMAIN sandboxes \subseteq issued
    /\ sandboxes \in [DOMAIN sandboxes -> Sandbox]
    /\ DOMAIN idempotency \subseteq Tenants \X Keys
    /\ idempotency \in [DOMAIN idempotency -> Ids]
    /\ reply \in Reply

(* The two maps agree: every idempotency record names a sandbox that is    *)
(* still stored and that belongs to the record's tenant (delete's retain,  *)
(* store.rs 113, against create's lookup, 46-53).                          *)
RecordsAreLive ==
    \A r \in DOMAIN idempotency :
        /\ idempotency[r] \in DOMAIN sandboxes
        /\ sandboxes[idempotency[r]].tenant = r[1]

(* No caller is ever told "stale idempotency record": the Conflict arm of  *)
(* create (store.rs 52) is dead code.                                      *)
NoStaleRecordAnswer == reply.error # "Conflict"

(* A call on behalf of one tenant neither answers with, nor adds, removes  *)
(* or changes a sandbox of another tenant (the filters of list, get and    *)
(* delete, and create's lookup by tenant and key).                         *)
TenantStep ==
    reply' # reply =>
        /\ \A i \in reply'.ids :
              \/ i \in DOMAIN sandboxes /\ sandboxes[i].tenant = reply'.tenant
              \/ i \in DOMAIN sandboxes' /\ sandboxes'[i].tenant = reply'.tenant
        /\ \A i \in DOMAIN sandboxes :
              sandboxes[i].tenant # reply'.tenant =>
                  i \in DOMAIN sandboxes' /\ sandboxes'[i] = sandboxes[i]

TenantScoped == [][TenantStep]_vars

(* While the sandbox of a key lives, the key keeps naming it: a record     *)
(* disappears only together with its sandbox and is never repointed, so a  *)
(* retry of create with the same key gets the same id.                     *)
KeyStep ==
    \A r \in DOMAIN idempotency :
        idempotency[r] \in DOMAIN sandboxes' =>
            r \in DOMAIN idempotency' /\ idempotency'[r] = idempotency[r]

KeysAreStable == [][KeyStep]_vars

-----------------------------------------------------------------------------
(* The abstract store this one implements; a delete shows nothing. *)
Stored == {<<i, sandboxes[i].tenant>> : i \in DOMAIN sandboxes}
Named == {<<r[1], r[2], idempotency[r]>> : r \in DOMAIN idempotency}
Shown == IF reply.op = "delete" THEN {} ELSE {<<i, reply.tenant>> : i \in reply.ids}

Contract == INSTANCE SandboxStore
            WITH stored <- Stored, named <- Named, used <- issued, answer <- Shown

(* Every call is one step of the contract: both maps change together, a    *)
(* recorded key is never given a second sandbox, and lists are complete    *)
(* (store.rs 42-125).                                                      *)
ImplementsSandboxStore == Contract!StoreSpec
=============================================================================
