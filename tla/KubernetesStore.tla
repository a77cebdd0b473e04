---------------------------- MODULE KubernetesStore ----------------------------
(***************************************************************************)
(* The sandbox store of the deployed xolis-api                             *)
(* (services/xolis-api/src/kubernetes.rs, KubernetesSandboxStore): each    *)
(* method is one or two requests to the Kubernetes API server, awaited in  *)
(* turn, so calls of several tenants and API instances interleave between  *)
(* the requests, with each other and with the claim controller.            *)
(*                                                                         *)
(* External, modelled from how the code uses them: the API server (POST is *)
(* refused when the name exists; a foreground DELETE marks the object and  *)
(* leaves it readable until its dependents are gone; an answer can be lost *)
(* after the request took effect) and the SandboxClaim controller (sets    *)
(* the Ready condition, deletes a claim whose shutdownTime has passed).    *)
(*                                                                         *)
(* Abstracted: the SHA-256 prefixes are injective (the name of a keyed     *)
(* claim is the pair tenant, key); time is the flag "due" of a claim whose *)
(* shutdownTime has passed; the sandbox's profile, metadata, addresses and *)
(* diagnostics are left out.                                               *)
(***************************************************************************)
EXTENDS Integers, FiniteSets

CONSTANTS Calls,      \* calls in flight, of any tenant and API instance
          Tenants,    \* tenant ids
          Keys,       \* idempotency keys
          NoKey,      \* no Idempotency-Key header
          Uuids,      \* names Uuid::new_v4 yields for unkeyed claims
          Reports,    \* Ready conditions the controller reports
          MaxUid      \* bound: claims ever stored

VARIABLES claims,     \* API server: name -> SandboxClaim
          made,       \* API server: number of claims stored so far
          calls,      \* store calls: arguments and progress
          last,       \* observer: the answer given by the step just taken
          deleted     \* observer: claims whose deletion was answered

vars == <<claims, made, calls, last, deleted>>

Uids == 1..MaxUid
Names == (Tenants \X Keys) \cup Uuids
ExpiredReasons == {"ClaimExpired", "Expired"}
FailedReasons == {"ReconcilerError", "InvalidMetadata", "TemplateNotFound", "WarmPoolNotFound"}

(* Ready condition: missing, true, or the reason it is not true. *)
Conditions == {"absent", "True", "SandboxNotReady"} \cup ExpiredReasons \cup FailedReasons

ASSUME StoreAssumption ==
    NoKey \notin Keys /\ MaxUid \in Nat /\ Reports \subseteq Conditions

(* A uuid is never the hash of a tenant and a key. *)
ASSUME NamesAssumption == Uuids \cap (Tenants \X Keys) = {}

States == {"Pending", "Running", "Failed", "Terminating", "Expired"}

Claim == [uid : Uids, tenant : Tenants, key : Keys \cup {NoKey}, ready : Conditions,
          deleting : BOOLEAN, shutdown : BOOLEAN, due : BOOLEAN]
Sandbox == [uid : Uids, owner : Tenants, key : Keys \cup {NoKey}, state : States]

(* A call awaits one request: POST, GET, LIST, the GET or the DELETE of delete. *)
Idle == [pc |-> "idle"]
InFlight == [pc : {"post", "read", "list", "verify", "delete"}, op : {"create", "get", "list", "delete"},
             tenant : Tenants, key : Keys \cup {NoKey}, name : Names \cup {NoKey}]

NoAnswer == [op |-> "none"]
Answer == [op : {"create", "get", "list", "delete"}, tenant : Tenants, key : Keys \cup {NoKey},
           error : {"none", "NotFound", "Conflict", "Unavailable"},
           sandboxes : SUBSET Sandbox, hit : SUBSET (Uids \X Tenants)]

(* claim_name of build_claim: keyed claims are named by tenant and key. *)
\* Slip: the tenant is left out of the hashed input.
KeyedNameSlip(t, k) == <<CHOOSE x \in Tenants : TRUE, k>>

KeyedName(t, k) == <<t, k>>

\* Slip: the claim is built without its lifecycle.
HasShutdownTimeSlip == FALSE

HasShutdownTime == TRUE

build_claim(t, k) ==
    [uid |-> made + 1, tenant |-> t, key |-> k, ready |-> "absent",
     deleting |-> FALSE, shutdown |-> HasShutdownTime, due |-> FALSE]

\* Slip: the Ready condition is looked at before the deletion timestamp.
claim_stateSlipOrder(c) ==
    IF c.ready = "True" THEN "Running" ELSE IF c.deleting THEN "Terminating" ELSE "Pending"

claim_state(c) ==
    CASE c.deleting -> "Terminating"
      [] ~c.deleting /\ c.ready = "True" -> "Running"
      [] ~c.deleting /\ c.ready \in ExpiredReasons -> "Expired"
      [] ~c.deleting /\ c.ready \in FailedReasons -> "Failed"
      [] OTHER -> "Pending"

\* Slip: the tenant label of the claim is not compared.
verify_tenantSlip(c, t) == TRUE

verify_tenant(c, t) == c.tenant = t

claim_to_sandbox(c) == [uid |-> c.uid, owner |-> c.tenant, key |-> c.key, state |-> claim_state(c)]

Init ==
    /\ claims = [n \in {} |-> Idle]
    /\ made = 0
    /\ calls = [c \in Calls |-> Idle]
    /\ last = NoAnswer
    /\ deleted = {}

-----------------------------------------------------------------------------
(* Steps of a call.  Each ends at the await of its next request. *)

Begin(c, op, t, k, n, at) ==
    /\ calls[c] = Idle
    /\ calls' = [calls EXCEPT ![c] = [pc |-> at, op |-> op, tenant |-> t, key |-> k, name |-> n]]
    /\ last' = NoAnswer
    /\ UNCHANGED <<claims, made, deleted>>

(* The call returns: an error, or sandboxes; hit is what its DELETE marked. *)
Return(c, error, sandboxes, hit) ==
    /\ calls' = [calls EXCEPT ![c] = Idle]
    /\ last' = [op |-> calls[c].op, tenant |-> calls[c].tenant, key |-> calls[c].key,
                error |-> error, sandboxes |-> sandboxes, hit |-> hit]

Continue(c, at) ==
    /\ calls' = [calls EXCEPT ![c].pc = at]
    /\ last' = NoAnswer
    /\ UNCHANGED <<claims, made, deleted>>

(* Names in use: stored claims, and names calls in flight will POST. *)
Taken == DOMAIN claims \cup {calls[c].name : c \in {d \in Calls : calls[d] # Idle}}

CallCreate(c, t, k) ==
    \/ k # NoKey /\ Begin(c, "create", t, k, KeyedName(t, k), "post")
    \/ k = NoKey /\ \E u \in Uuids \ Taken : Begin(c, "create", t, k, u, "post")

(* The profile is not the configured one: refused without a request. *)
CreateOtherProfile(c, t, k) ==
    /\ calls[c] = Idle
    /\ last' = [op |-> "create", tenant |-> t, key |-> k, error |-> "Conflict",
                sandboxes |-> {}, hit |-> {}]
    /\ UNCHANGED <<claims, made, calls, deleted>>

Store(n, claim) ==
    /\ claims' = [m \in DOMAIN claims \cup {n} |-> IF m = n THEN claim ELSE claims[m]]
    /\ made' = made + 1

(* POST: the new claim is answered as it was stored. *)
PostCreates(c) ==
    LET claim == build_claim(calls[c].tenant, calls[c].key)
    IN  /\ calls[c].pc = "post" /\ calls[c].name \notin DOMAIN claims /\ made < MaxUid
        /\ Store(calls[c].name, claim)
        /\ Return(c, "none", {claim_to_sandbox(claim)}, {})
        /\ UNCHANGED deleted

(* POST: 409, the name exists; a GET of it follows. *)
PostConflicts(c) ==
    calls[c].pc = "post" /\ calls[c].name \in DOMAIN claims /\ Continue(c, "read")

CallGet(c, t, n) == Begin(c, "get", t, NoKey, n, "read")
CallList(c, t) == Begin(c, "list", t, NoKey, NoKey, "list")
CallDelete(c, t, n) == Begin(c, "delete", t, NoKey, n, "verify")

Visible(n, t) == n \in DOMAIN claims /\ verify_tenant(claims[n], t)

(* GET of get, and of create after a 409. *)
Read(c) ==
    /\ calls[c].pc = "read"
    /\ IF Visible(calls[c].name, calls[c].tenant)
         THEN Return(c, "none", {claim_to_sandbox(claims[calls[c].name])}, {})
         ELSE Return(c, "NotFound", {}, {})
    /\ UNCHANGED <<claims, made, deleted>>

(* LIST by the tenant-hash label. *)
List(c) ==
    /\ calls[c].pc = "list"
    /\ LET own == {n \in DOMAIN claims : claims[n].tenant = calls[c].tenant}
       IN  Return(c, "none", {claim_to_sandbox(claims[n]) : n \in own}, {})
    /\ UNCHANGED <<claims, made, deleted>>

(* The GET of delete, with verify_tenant. *)
Verify(c) ==
    /\ calls[c].pc = "verify"
    /\ \/ Visible(calls[c].name, calls[c].tenant) /\ Continue(c, "delete")
       \/ /\ ~Visible(calls[c].name, calls[c].tenant)
          /\ Return(c, "NotFound", {}, {})
          /\ UNCHANGED <<claims, made, deleted>>

(* DELETE by name: whatever is stored under the name now is marked. *)
Delete(c) ==
    LET n == calls[c].name
    IN  /\ calls[c].pc = "delete"
        /\ \/ /\ n \notin DOMAIN claims
              /\ Return(c, "NotFound", {}, {})
              /\ UNCHANGED <<claims, deleted>>
           \/ /\ n \in DOMAIN claims
              /\ claims' = [claims EXCEPT ![n].deleting = TRUE]
              /\ Return(c, "none", {}, {<<claims[n].uid, claims[n].tenant>>})
              /\ deleted' = deleted \cup {claims[n].uid}
        /\ UNCHANGED made

(* A request fails at the transport or with a server error, or the caller  *)
(* is gone and the call dropped.  A POST or a DELETE may have taken effect *)
(* all the same.                                                           *)
Fails(c) ==
    LET n == calls[c].name
    IN  /\ calls[c] # Idle
        /\ UNCHANGED deleted
        /\ \/ Return(c, "Unavailable", {}, {}) /\ UNCHANGED <<claims, made>>
           \/ /\ calls[c].pc = "post" /\ n \notin DOMAIN claims /\ made < MaxUid
              /\ Store(n, build_claim(calls[c].tenant, calls[c].key))
              /\ Return(c, "Unavailable", {}, {})
           \/ /\ calls[c].pc = "delete" /\ n \in DOMAIN claims
              /\ claims' = [claims EXCEPT ![n].deleting = TRUE]
              /\ Return(c, "Unavailable", {}, {<<claims[n].uid, claims[n].tenant>>})
              /\ UNCHANGED made

CallStep(c) ==
    \/ PostCreates(c) \/ PostConflicts(c) \/ Read(c) \/ List(c)
    \/ Verify(c) \/ Delete(c) \/ Fails(c)

-----------------------------------------------------------------------------
(* The claim controller and the clock (external). *)

Controlled == last' = NoAnswer /\ UNCHANGED <<made, calls, deleted>>

Live(n) == n \in DOMAIN claims /\ ~claims[n].deleting

Report(n) ==
    /\ Live(n)
    /\ \E r \in Reports : claims' = [claims EXCEPT ![n].ready = r]
    /\ Controlled

ShutdownTimePasses(n) ==
    /\ Live(n) /\ claims[n].shutdown /\ ~claims[n].due
    /\ claims' = [claims EXCEPT ![n].due = TRUE]
    /\ Controlled

Expire(n) ==
    /\ Live(n) /\ claims[n].due
    /\ claims' = [claims EXCEPT ![n].deleting = TRUE]
    /\ Controlled

(* The dependents of a marked claim are gone, and so is the claim. *)
Finalize(n) ==
    /\ n \in DOMAIN claims /\ claims[n].deleting
    /\ claims' = [m \in DOMAIN claims \ {n} |-> claims[m]]
    /\ Controlled

Call(c) ==
    \E t \in Tenants :
        \/ \E k \in Keys \cup {NoKey} : CallCreate(c, t, k) \/ CreateOtherProfile(c, t, k)
        \/ CallList(c, t)
        \/ \E n \in Names : CallGet(c, t, n) \/ CallDelete(c, t, n)

Controller(n) == Report(n) \/ ShutdownTimePasses(n) \/ Expire(n) \/ Finalize(n)

Next == (\E c \in Calls : Call(c) \/ CallStep(c)) \/ (\E n \in Names : Controller(n))

Spec == Init /\ [][Next]_vars

(* The clock advances and the controller reconciles; callers owe nothing. *)
ControllerFair ==
    \A n \in Names : /\ WF_vars(ShutdownTimePasses(n))
                     /\ WF_vars(Expire(n))
                     /\ WF_vars(Finalize(n))

-----------------------------------------------------------------------------
(* Stored claims, calls and answers have their types; in particular every  *)
(* answered state is one of the SandboxState variants.                     *)
TypeOK ==
    /\ DOMAIN claims \subseteq Names
    /\ \A n \in DOMAIN claims : claims[n] \in Claim
    /\ made \in 0..MaxUid
    /\ \A c \in Calls : calls[c] \in InFlight \cup {Idle}
    /\ last = NoAnswer \/ last \in Answer
    /\ deleted \subseteq Uids

Answered == last # NoAnswer

(* No answer shows a sandbox of another tenant, and a keyed create answers *)
(* with the sandbox of its key, whatever happened between its POST and its *)
(* GET.                                                                    *)
AnswersAreOwn ==
    Answered => \A sb \in last.sandboxes :
                    /\ sb.owner = last.tenant
                    /\ last.op = "create" => sb.key = last.key

(* delete's DELETE goes by name: it never marks another tenant's claim,    *)
(* although the claim its GET verified may be gone and its name taken      *)
(* again by then.                                                          *)
DeletesAreOwn == Answered => \A h \in last.hit : h[2] = last.tenant

(* However often a create is retried, after lost answers too, the cluster  *)
(* never holds two claims of one tenant and key.                           *)
OneClaimPerKey ==
    \A m, n \in DOMAIN claims :
        /\ claims[m].key # NoKey
        /\ claims[m].key = claims[n].key
        /\ claims[m].tenant = claims[n].tenant
        => m = n

(* Once a delete was answered, no get, list or retried create shows that   *)
(* sandbox as Running (or anything but Terminating) again, whatever the    *)
(* controller last reported of it.                                         *)
DeletionIsSeen ==
    Answered => \A sb \in last.sandboxes : sb.uid \in deleted => sb.state = "Terminating"

(* Docs/Initial-Sandbox-Service-Design.md, "Expiration and deletion": the  *)
(* absolute shutdownTime is the backstop when a client or API instance     *)
(* disappears; a claim goes away with no call of the store.                *)
ClaimsExpire ==
    \A u \in Uids :
        (\E n \in DOMAIN claims : claims[n].uid = u) ~> (\A n \in DOMAIN claims : claims[n].uid # u)

(* Same document: a client retry with the same idempotency key returns the *)
(* same Xolis ID; so a keyed create never answers "not found".             *)
RetryReturnsId == Answered /\ last.op = "create" => last.error # "NotFound"

-----------------------------------------------------------------------------
(* The abstract store this one implements: the claims in the API server. *)
Stored == {<<claims[n].uid, claims[n].tenant>> : n \in DOMAIN claims}
Keyed == {n \in DOMAIN claims : claims[n].key # NoKey}
Named == {<<claims[n].tenant, claims[n].key, claims[n].uid>> : n \in Keyed}
ShownNow == IF last = NoAnswer THEN {} ELSE {<<sb.uid, last.tenant>> : sb \in last.sandboxes}

Contract == INSTANCE SandboxStore
            WITH Ids <- Uids, stored <- Stored, named <- Named, used <- 1..made,
                 answer <- ShownNow

(* The requests of a method, interleaved with those of other calls and     *)
(* with the controller, add up to steps of the contract: one POST creates, *)
(* whatever a call answers was stored when its last request was served     *)
(* (kubernetes.rs 48-104).                                                 *)
ImplementsSandboxStore == Contract!StoreSpec
=============================================================================
