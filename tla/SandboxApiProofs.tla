-------------------------- MODULE SandboxApiProofs --------------------------
(* Proofs about the Kubernetes store and the API in front of it, for any   *)
(* number of calls, tenants, keys and names, and any bound on the claims.  *)
EXTENDS SandboxApi, TLAPS

-----------------------------------------------------------------------------
(* The inductive invariant. *)

(* The API server: uids count up, a keyed claim has the name its tenant    *)
(* and key determine, an unkeyed one a uuid, and a claim whose deletion    *)
(* was answered is marked.                                                 *)
ClaimsOK ==
    /\ made \in 0..MaxUid
    /\ deleted \subseteq 1..made
    /\ DOMAIN claims \subseteq Names
    /\ claims \in [DOMAIN claims -> Claim]
    /\ \A n \in DOMAIN claims :
          /\ claims[n].uid <= made
          /\ claims[n].key = NoKey => n \in Uuids
          /\ claims[n].key # NoKey => n = <<claims[n].tenant, claims[n].key>>
          /\ claims[n].uid \in deleted => claims[n].deleting
    /\ \A m, n \in DOMAIN claims : claims[m].uid = claims[n].uid => m = n

(* The calls: only a create posts; it posts and reads the name of its key, *)
(* or posts a uuid.                                                        *)
CallOK(call) ==
    /\ call \in InFlight \cup {Idle}
    /\ call.pc = "post" => call.op = "create"
    /\ call.pc # "idle" /\ call.op = "create" =>
          /\ call.pc \in {"post", "read"}
          /\ call.key # NoKey => call.name = <<call.tenant, call.key>>
          /\ call.key = NoKey => call.pc = "post" /\ call.name \in Uuids

CallsOK == calls \in [Calls -> InFlight \cup {Idle}] /\ \A c \in Calls : CallOK(calls[c])

(* Between the GET and the DELETE of delete: the name can only ever belong *)
(* to the caller's tenant.                                                 *)
DeletesOK ==
    \A c \in Calls : calls[c].pc = "delete" =>
        /\ \A t \in Tenants, k \in Keys : calls[c].name = <<t, k>> => t = calls[c].tenant
        /\ calls[c].name \in DOMAIN claims => claims[calls[c].name].tenant = calls[c].tenant

(* A uuid about to be posted is nobody's: no claim has it, and no other    *)
(* call is about to post or to delete it.                                  *)
FreshOK ==
    \A c \in Calls : calls[c].pc = "post" /\ calls[c].key = NoKey =>
        /\ calls[c].name \notin DOMAIN claims
        /\ \A d \in Calls \ {c} :
              calls[d].pc \in {"post", "delete"} => calls[d].name # calls[c].name

StoreInv == ClaimsOK /\ CallsOK /\ DeletesOK /\ FreshOK

(* What the observer saw in the last answer. *)
AnswerOK ==
    /\ last = NoAnswer \/ last \in Answer
    /\ AnswersAreOwn /\ DeletesAreOwn /\ DeletionIsSeen

-----------------------------------------------------------------------------
(* What steps do to the claims and the calls, independently of the action. *)

(* Claims are changed in place: the same names, uids, tenants and keys. *)
Touch ==
    /\ DOMAIN claims' = DOMAIN claims
    /\ claims' \in [DOMAIN claims -> Claim]
    /\ \A n \in DOMAIN claims :
          /\ claims'[n].uid = claims[n].uid
          /\ claims'[n].tenant = claims[n].tenant
          /\ claims'[n].key = claims[n].key
          /\ claims[n].deleting => claims'[n].deleting

(* No call goes on to another request. *)
Calm == calls' = calls \/ \E c \in Calls : calls' = [calls EXCEPT ![c] = Idle]

(* At most the deletion of a marked claim is answered. *)
Deletes ==
    \/ deleted' = deleted
    \/ \E n \in DOMAIN claims : claims'[n].deleting /\ deleted' = deleted \cup {claims[n].uid}

(* A returning call takes nothing from the others. *)
LEMMA CalmCalls ==
    ASSUME CallsOK, Calm
    PROVE  /\ CallsOK'
           /\ \A c \in Calls : calls'[c] = calls[c] \/ calls'[c] = Idle
<1>1. \A c \in Calls : calls'[c] = calls[c] \/ calls'[c] = Idle
  BY DEF CallsOK, Calm
<1>2. calls' \in [Calls -> InFlight \cup {Idle}]
  BY DEF CallsOK, Calm
<1>3. CallOK(Idle)
  BY DEF CallOK, Idle
<1> QED BY <1>1, <1>2, <1>3 DEF CallsOK

LEMMA TouchKeeps ==
    ASSUME StoreInv, Touch, Calm, Deletes, made' = made
    PROVE  StoreInv'
<1> USE DEF StoreInv
<1>1. CallsOK' /\ \A c \in Calls : calls'[c] = calls[c] \/ calls'[c] = Idle
  BY CalmCalls
<1>2. ClaimsOK'
  <2> DEFINE Marked == /\ deleted' \subseteq 1..made
                      /\ \A n \in DOMAIN claims : claims[n].uid \in deleted' => claims'[n].deleting
  <2>1. Marked
    <3>1. \A n \in DOMAIN claims : claims[n].uid \in 1..made
      BY DEF ClaimsOK, Claim, Uids
    <3>2. CASE deleted' = deleted
      BY <3>2 DEF ClaimsOK, Touch
    <3>3. ASSUME NEW n \in DOMAIN claims, claims'[n].deleting, deleted' = deleted \cup {claims[n].uid}
          PROVE  Marked
      BY <3>1, <3>3 DEF ClaimsOK, Touch
    <3> QED BY <3>2, <3>3 DEF Deletes
  <2> QED BY <2>1 DEF ClaimsOK, Touch
<1>3. DeletesOK' /\ FreshOK'
  BY <1>1 DEF DeletesOK, FreshOK, Touch, Idle
<1> QED BY <1>1, <1>2, <1>3

LEMMA BeginKeeps ==
    ASSUME StoreInv, NEW c \in Calls, NEW op, NEW t, NEW k, NEW n, NEW at,
           Begin(c, op, t, k, n, at),
           CallOK([pc |-> at, op |-> op, tenant |-> t, key |-> k, name |-> n]),
           at # "idle", at # "delete", at = "post" /\ k = NoKey => n \notin Taken
    PROVE  StoreInv'
<1> USE DEF StoreInv
<1> DEFINE call == [pc |-> at, op |-> op, tenant |-> t, key |-> k, name |-> n]
<1>1. calls' = [calls EXCEPT ![c] = call] /\ UNCHANGED <<claims, made, deleted>>
  BY DEF Begin
<1>2. \A d \in Calls : calls'[d] = IF d = c THEN call ELSE calls[d]
  BY <1>1 DEF CallsOK
<1>3. CallsOK'
  BY <1>1, <1>2 DEF CallsOK, CallOK
<1>4. ClaimsOK' /\ DeletesOK'
  BY <1>1, <1>2 DEF ClaimsOK, DeletesOK
<1>5. FreshOK'
  <2> SUFFICES ASSUME NEW d \in Calls, calls'[d].pc = "post", calls'[d].key = NoKey
               PROVE  /\ calls'[d].name \notin DOMAIN claims
                      /\ \A e \in Calls \ {d} :
                            calls'[e].pc \in {"post", "delete"} => calls'[e].name # calls'[d].name
    BY <1>1 DEF FreshOK
  <2>1. CASE d = c
    <3>1. n \notin Taken
      BY <1>2, <2>1
    <3>2. \A e \in Calls \ {c} : calls'[e].pc \in {"post", "delete"} => calls[e].name \in Taken
      BY <1>2 DEF Taken, Idle
    <3> QED BY <1>2, <2>1, <3>1, <3>2 DEF Taken
  <2>2. CASE d # c
    <3>1. calls'[d] = calls[d] /\ calls[d].name \in Taken /\ calls[d].name \in Uuids
      BY <1>2, <2>2 DEF Taken, Idle, CallsOK, CallOK
    <3>2. call.pc = "post" => call.name # calls[d].name
      <4>1. CASE k = NoKey
        BY <3>1, <4>1
      <4>2. CASE k # NoKey
        <5>1. call.pc = "post" => call.name \in Tenants \X Keys
          BY <4>2 DEF CallOK, InFlight, Idle
        <5> QED BY <5>1, <3>1, NamesAssumption
      <4> QED BY <4>1, <4>2
    <3> QED BY <1>2, <2>2, <3>1, <3>2 DEF FreshOK
  <2> QED BY <2>1, <2>2
<1> QED BY <1>3, <1>4, <1>5

(* A create that met an existing claim goes on to read it: it was keyed. *)
LEMMA ConflictKeeps ==
    ASSUME StoreInv, NEW c \in Calls, PostConflicts(c)
    PROVE  StoreInv'
<1> USE DEF StoreInv
<1>1. /\ calls[c].pc = "post" /\ calls[c].name \in DOMAIN claims
      /\ calls' = [calls EXCEPT ![c].pc = "read"] /\ UNCHANGED <<claims, made, deleted>>
  BY DEF PostConflicts, Continue
<1>2. calls[c] \in InFlight /\ calls[c].op = "create" /\ calls[c].key # NoKey
  BY <1>1 DEF CallsOK, CallOK, Idle, FreshOK
<1>3. /\ \A d \in Calls \ {c} : calls'[d] = calls[d]
      /\ calls'[c] = [calls[c] EXCEPT !.pc = "read"]
  BY <1>1 DEF CallsOK
<1>4. calls'[c] \in InFlight /\ calls'[c].pc = "read" /\ CallOK(calls'[c])
  BY <1>1, <1>2, <1>3 DEF CallsOK, CallOK, InFlight
<1>5. CallsOK'
  BY <1>1, <1>3, <1>4 DEF CallsOK
<1>6. ClaimsOK' /\ DeletesOK' /\ FreshOK'
  BY <1>1, <1>3, <1>4 DEF ClaimsOK, DeletesOK, FreshOK
<1> QED BY <1>5, <1>6

(* delete has verified the claim: its name is one of the tenant's own. *)
LEMMA VerifiedKeeps ==
    ASSUME StoreInv, NEW c \in Calls, calls[c].pc = "verify",
           Visible(calls[c].name, calls[c].tenant), Continue(c, "delete")
    PROVE  StoreInv'
<1> USE DEF StoreInv
<1> DEFINE n == calls[c].name
<1>1. calls' = [calls EXCEPT ![c].pc = "delete"] /\ UNCHANGED <<claims, made, deleted>>
  BY DEF Continue
<1>2. n \in DOMAIN claims /\ claims[n].tenant = calls[c].tenant
  BY DEF Visible, verify_tenant
<1>3. calls[c] \in InFlight /\ calls[c].op # "create"
  BY DEF CallsOK, CallOK, Idle
<1>4. /\ \A d \in Calls \ {c} : calls'[d] = calls[d]
      /\ calls'[c] = [calls[c] EXCEPT !.pc = "delete"]
  BY <1>1 DEF CallsOK
<1>5. /\ calls'[c] \in InFlight /\ calls'[c].pc = "delete" /\ CallOK(calls'[c])
      /\ calls'[c].name = n /\ calls'[c].tenant = calls[c].tenant
  BY <1>3, <1>4 DEF CallOK, InFlight
<1>6. CallsOK' /\ ClaimsOK'
  BY <1>1, <1>4, <1>5 DEF CallsOK, ClaimsOK
<1>7. \A t \in Tenants, k \in Keys : n = <<t, k>> => t = calls[c].tenant
  <2> SUFFICES ASSUME NEW t \in Tenants, NEW k \in Keys, n = <<t, k>> PROVE t = calls[c].tenant
    OBVIOUS
  <2>1. n \notin Uuids
    BY NamesAssumption
  <2> QED BY <1>2, <2>1 DEF ClaimsOK
<1>8. DeletesOK'
  BY <1>1, <1>2, <1>4, <1>5, <1>7 DEF DeletesOK
<1>9. FreshOK'
  BY <1>1, <1>2, <1>4, <1>5 DEF FreshOK
<1> QED BY <1>6, <1>8, <1>9

(* POST stores the claim of a create, and the call is over. *)
LEMMA StoreKeeps ==
    ASSUME StoreInv, NEW c \in Calls, calls[c].pc = "post",
           calls[c].name \notin DOMAIN claims, made < MaxUid,
           Store(calls[c].name, build_claim(calls[c].tenant, calls[c].key)),
           calls' = [calls EXCEPT ![c] = Idle], deleted' = deleted
    PROVE  StoreInv'
<1> USE DEF StoreInv
<1> DEFINE n == calls[c].name
           claim == build_claim(calls[c].tenant, calls[c].key)
<1>1. /\ DOMAIN claims' = DOMAIN claims \cup {n} /\ claims'[n] = claim
      /\ \A m \in DOMAIN claims : claims'[m] = claims[m]
      /\ made' = made + 1
  BY DEF Store
<1>2. calls[c] \in InFlight /\ calls[c].op = "create" /\ CallOK(calls[c])
  BY DEF CallsOK, CallOK, Idle
<1>3. /\ calls[c].key # NoKey => n = <<calls[c].tenant, calls[c].key>>
      /\ calls[c].key = NoKey => n \in Uuids
      /\ calls[c].tenant \in Tenants /\ calls[c].key \in Keys \cup {NoKey}
  BY <1>2 DEF CallOK, InFlight
<1>4. n \in Names
  BY <1>3 DEF Names
<1>5. /\ claim \in Claim /\ claim.uid = made + 1 /\ claim.tenant = calls[c].tenant
      /\ claim.key = calls[c].key
  BY <1>3, StoreAssumption DEF build_claim, Claim, Uids, Conditions, HasShutdownTime, ClaimsOK
<1>6. claims' \in [DOMAIN claims' -> Claim]
  BY <1>1, <1>5 DEF ClaimsOK, Store
<1>7. ClaimsOK'
  <2>1. made' \in 0..MaxUid /\ deleted' \subseteq 1..made' /\ DOMAIN claims' \subseteq Names
    BY <1>1, <1>4, StoreAssumption DEF ClaimsOK
  <2>2. \A m \in DOMAIN claims : claims[m].uid \in 1..made
    BY DEF ClaimsOK, Claim, Uids
  <2>3. claim.uid \notin deleted
    BY <1>5 DEF ClaimsOK
  <2> HIDE DEF claim, n
  <2>4. ASSUME NEW m \in DOMAIN claims'
        PROVE  /\ claims'[m].uid <= made'
               /\ claims'[m].key = NoKey => m \in Uuids
               /\ claims'[m].key # NoKey => m = <<claims'[m].tenant, claims'[m].key>>
               /\ claims'[m].uid \in deleted' => claims'[m].deleting
    <3>1. CASE m = n
      BY <1>1, <1>3, <1>5, <2>1, <2>3, <3>1
    <3>2. CASE m # n
      BY <1>1, <2>1, <2>2, <3>2 DEF ClaimsOK
    <3> QED BY <3>1, <3>2
  <2>5. \A m, q \in DOMAIN claims' : claims'[m].uid = claims'[q].uid => m = q
    BY <1>1, <1>5, <2>2 DEF ClaimsOK
  <2> QED BY <1>6, <2>1, <2>4, <2>5 DEF ClaimsOK
<1>8. CallsOK' /\ \A d \in Calls : calls'[d] = IF d = c THEN Idle ELSE calls[d]
  BY CalmCalls DEF Calm, CallsOK
<1>9. DeletesOK'
  <2> SUFFICES ASSUME NEW d \in Calls, calls'[d].pc = "delete"
               PROVE  /\ \A t \in Tenants, k \in Keys : calls'[d].name = <<t, k>> => t = calls'[d].tenant
                      /\ calls'[d].name \in DOMAIN claims' => claims'[calls'[d].name].tenant = calls'[d].tenant
    BY DEF DeletesOK
  <2>1. d # c /\ calls'[d] = calls[d]
    BY <1>8 DEF Idle
  <2>2. CASE calls[d].name = n
    <3>1. calls[c].key # NoKey
      BY <2>1, <2>2 DEF FreshOK
    <3> QED BY <1>1, <1>3, <1>5, <2>1, <2>2, <3>1 DEF DeletesOK
  <2>3. CASE calls[d].name # n
    BY <1>1, <2>1, <2>3 DEF DeletesOK
  <2> QED BY <2>2, <2>3
<1>10. FreshOK'
  <2> SUFFICES ASSUME NEW d \in Calls, calls'[d].pc = "post", calls'[d].key = NoKey
               PROVE  /\ calls'[d].name \notin DOMAIN claims'
                      /\ \A e \in Calls \ {d} :
                            calls'[e].pc \in {"post", "delete"} => calls'[e].name # calls'[d].name
    BY DEF FreshOK
  <2>1. d # c /\ calls'[d] = calls[d]
    BY <1>8 DEF Idle
  <2>2. calls[d].name # n
    BY <2>1 DEF FreshOK
  <2> QED BY <1>1, <1>8, <2>1, <2>2 DEF FreshOK, Idle
<1> QED BY <1>7, <1>8, <1>9, <1>10

(* A finalised claim leaves the others as they are. *)
LEMMA FinalizeKeeps ==
    ASSUME StoreInv, NEW n \in Names, Finalize(n)
    PROVE  StoreInv'
<1> USE DEF StoreInv
<1>1. /\ DOMAIN claims' = DOMAIN claims \ {n}
      /\ \A m \in DOMAIN claims' : claims'[m] = claims[m]
      /\ claims' \in [DOMAIN claims' -> Claim]
      /\ UNCHANGED <<made, calls, deleted>>
  BY DEF Finalize, Controlled, ClaimsOK
<1>2. ClaimsOK'
  BY <1>1 DEF ClaimsOK
<1>3. CallsOK' /\ DeletesOK' /\ FreshOK'
  BY <1>1 DEF CallsOK, DeletesOK, FreshOK
<1> QED BY <1>2, <1>3

-----------------------------------------------------------------------------
(* The invariant is kept by every action. *)

(* Steps that only read the claims. *)
LEMMA ReadingTouches ==
    ASSUME StoreInv, UNCHANGED claims
    PROVE  Touch
BY DEF StoreInv, ClaimsOK, Touch

(* A mark, a report, the passing of the shutdownTime. *)
LEMMA MarkingTouches ==
    ASSUME StoreInv, NEW n \in DOMAIN claims,
           \/ claims' = [claims EXCEPT ![n].deleting = TRUE]
           \/ claims' = [claims EXCEPT ![n].due = TRUE]
           \/ \E r \in Reports : claims' = [claims EXCEPT ![n].ready = r]
    PROVE  Touch
<1>1. claims \in [DOMAIN claims -> Claim] /\ claims[n] \in Claim
  BY DEF StoreInv, ClaimsOK
<1>2. CASE claims' = [claims EXCEPT ![n].deleting = TRUE]
  BY <1>1, <1>2 DEF Touch, Claim
<1>3. CASE claims' = [claims EXCEPT ![n].due = TRUE]
  BY <1>1, <1>3 DEF Touch, Claim
<1>4. ASSUME NEW r \in Reports, claims' = [claims EXCEPT ![n].ready = r] PROVE Touch
  <2>1. r \in Conditions
    BY StoreAssumption
  <2> QED BY <1>1, <1>4, <2>1 DEF Touch, Claim
<1> QED BY <1>2, <1>3, <1>4

LEMMA CallKeeps ==
    ASSUME StoreInv, NEW c \in Calls, Call(c)
    PROVE  StoreInv'
<1> PICK t \in Tenants :
        \/ \E k \in Keys \cup {NoKey} : CallCreate(c, t, k) \/ CreateOtherProfile(c, t, k)
        \/ CallList(c, t)
        \/ \E n \in Names : CallGet(c, t, n) \/ CallDelete(c, t, n)
  BY DEF Call
<1>1. ASSUME NEW k \in Keys \cup {NoKey}, CallCreate(c, t, k) PROVE StoreInv'
  <2>1. CASE k # NoKey /\ Begin(c, "create", t, k, KeyedName(t, k), "post")
    <3>1. CallOK([pc |-> "post", op |-> "create", tenant |-> t, key |-> k, name |-> <<t, k>>])
      BY <2>1 DEF CallOK, InFlight, Names
    <3> QED BY <2>1, <3>1, BeginKeeps DEF KeyedName
  <2>2. ASSUME NEW u \in Uuids \ Taken, k = NoKey, Begin(c, "create", t, k, u, "post")
        PROVE  StoreInv'
    <3>1. CallOK([pc |-> "post", op |-> "create", tenant |-> t, key |-> k, name |-> u])
      BY <2>2 DEF CallOK, InFlight, Names
    <3> QED BY <2>2, <3>1, BeginKeeps
  <2> QED BY <1>1, <2>1, <2>2 DEF CallCreate
<1>2. ASSUME NEW k \in Keys \cup {NoKey}, CreateOtherProfile(c, t, k) PROVE StoreInv'
  BY <1>2, ReadingTouches, TouchKeeps DEF CreateOtherProfile, Calm, Deletes
<1>3. CASE CallList(c, t)
  <2>1. CallOK([pc |-> "list", op |-> "list", tenant |-> t, key |-> NoKey, name |-> NoKey])
    BY DEF CallOK, InFlight
  <2> QED BY <1>3, <2>1, BeginKeeps DEF CallList
<1>4. ASSUME NEW n \in Names, CallGet(c, t, n) PROVE StoreInv'
  <2>1. CallOK([pc |-> "read", op |-> "get", tenant |-> t, key |-> NoKey, name |-> n])
    BY DEF CallOK, InFlight
  <2> QED BY <1>4, <2>1, BeginKeeps DEF CallGet
<1>5. ASSUME NEW n \in Names, CallDelete(c, t, n) PROVE StoreInv'
  <2>1. CallOK([pc |-> "verify", op |-> "delete", tenant |-> t, key |-> NoKey, name |-> n])
    BY DEF CallOK, InFlight
  <2> QED BY <1>5, <2>1, BeginKeeps DEF CallDelete
<1> QED BY <1>1, <1>2, <1>3, <1>4, <1>5

LEMMA CallStepKeeps ==
    ASSUME StoreInv, NEW c \in Calls, CallStep(c)
    PROVE  StoreInv'
<1> DEFINE n == calls[c].name
<1>1. CASE PostCreates(c)
  BY <1>1, StoreKeeps DEF PostCreates, Return
<1>2. CASE PostConflicts(c)
  BY <1>2, ConflictKeeps
<1>3. CASE Read(c)
  BY <1>3, ReadingTouches, TouchKeeps DEF Read, Return, Calm, Deletes
<1>4. CASE List(c)
  BY <1>4, ReadingTouches, TouchKeeps DEF List, Return, Calm, Deletes
<1>5. CASE Verify(c)
  <2>1. CASE Visible(n, calls[c].tenant) /\ Continue(c, "delete")
    BY <1>5, <2>1, VerifiedKeeps DEF Verify
  <2>2. CASE Return(c, "NotFound", {}, {}) /\ UNCHANGED <<claims, made, deleted>>
    BY <2>2, ReadingTouches, TouchKeeps DEF Return, Calm, Deletes
  <2> QED BY <1>5, <2>1, <2>2 DEF Verify
<1>6. CASE Delete(c)
  <2>1. CASE n \notin DOMAIN claims
    BY <1>6, <2>1, ReadingTouches, TouchKeeps DEF Delete, Return, Calm, Deletes
  <2>2. CASE n \in DOMAIN claims
    <3>1. /\ claims' = [claims EXCEPT ![n].deleting = TRUE] /\ made' = made
          /\ deleted' = deleted \cup {claims[n].uid} /\ Calm
      BY <1>6, <2>2 DEF Delete, Return, Calm
    <3>2. Touch
      BY <2>2, <3>1, MarkingTouches
    <3>3. claims'[n].deleting
      BY <2>2, <3>1 DEF StoreInv, ClaimsOK, Claim
    <3>4. Deletes
      BY <2>2, <3>1, <3>3 DEF Deletes
    <3> QED BY <3>1, <3>2, <3>4, TouchKeeps
  <2> QED BY <2>1, <2>2
<1>7. CASE Fails(c)
  <2>1. CASE UNCHANGED <<claims, made>>
    BY <1>7, <2>1, ReadingTouches, TouchKeeps DEF Fails, Return, Calm, Deletes
  <2>2. CASE /\ calls[c].pc = "post" /\ n \notin DOMAIN claims /\ made < MaxUid
             /\ Store(n, build_claim(calls[c].tenant, calls[c].key))
    BY <1>7, <2>2, StoreKeeps DEF Fails, Return
  <2>3. CASE n \in DOMAIN claims /\ claims' = [claims EXCEPT ![n].deleting = TRUE] /\ made' = made
    BY <1>7, <2>3, MarkingTouches, TouchKeeps DEF Fails, Return, Calm, Deletes
  <2> QED BY <1>7, <2>1, <2>2, <2>3 DEF Fails
<1> QED BY <1>1, <1>2, <1>3, <1>4, <1>5, <1>6, <1>7 DEF CallStep

LEMMA ControllerKeeps ==
    ASSUME StoreInv, NEW n \in Names, Controller(n)
    PROVE  StoreInv'
<1>1. CASE Report(n) \/ ShutdownTimePasses(n) \/ Expire(n)
  BY <1>1, MarkingTouches, TouchKeeps
     DEF Report, ShutdownTimePasses, Expire, Live, Controlled, Calm, Deletes
<1>2. CASE Finalize(n)
  BY <1>2, FinalizeKeeps
<1> QED BY <1>1, <1>2 DEF Controller

LEMMA StoreInvStep == StoreInv /\ [Next]_vars => StoreInv'
<1> SUFFICES ASSUME StoreInv, [Next]_vars PROVE StoreInv'
  OBVIOUS
<1>1. CASE UNCHANGED vars
  BY <1>1, ReadingTouches, TouchKeeps DEF vars, Calm, Deletes
<1> QED BY <1>1, CallKeeps, CallStepKeeps, ControllerKeeps DEF Next

LEMMA StoreInvHolds == Spec => []StoreInv
<1>1. Init => StoreInv
  <2> SUFFICES ASSUME Init PROVE StoreInv
    OBVIOUS
  <2>1. ClaimsOK
    BY StoreAssumption DEF Init, ClaimsOK
  <2>2. CallsOK /\ DeletesOK /\ FreshOK
    BY DEF Init, CallsOK, CallOK, DeletesOK, FreshOK, Idle
  <2> QED BY <2>1, <2>2 DEF StoreInv
<1> QED BY <1>1, StoreInvStep, PTL DEF Spec

-----------------------------------------------------------------------------
(* Answers. *)

(* What claim_to_sandbox makes of a stored claim (kubernetes.rs 160-230). *)
LEMMA ShownTruly ==
    ASSUME StoreInv, NEW n \in DOMAIN claims
    PROVE  LET sb == claim_to_sandbox(claims[n])
           IN  /\ sb \in Sandbox
               /\ sb.uid = claims[n].uid /\ sb.owner = claims[n].tenant /\ sb.key = claims[n].key
               /\ sb.uid \in deleted => sb.state = "Terminating"
<1>1. claims[n] \in Claim /\ (claims[n].uid \in deleted => claims[n].deleting)
  BY DEF StoreInv, ClaimsOK
<1>2. /\ claim_state(claims[n]) \in States
      /\ claims[n].deleting => claim_state(claims[n]) = "Terminating"
  BY <1>1 DEF claim_state, States, Claim
<1> QED BY <1>1, <1>2 DEF claim_to_sandbox, Sandbox, Claim

(* A call that returns what is its own gives an answer without fault. *)
LEMMA ReturnAnswers ==
    ASSUME StoreInv, NEW c \in Calls, calls[c] # Idle,
           NEW error \in {"none", "NotFound", "Conflict", "Unavailable"},
           NEW S \in SUBSET Sandbox, NEW hit \in SUBSET (Uids \X Tenants),
           Return(c, error, S, hit),
           \A sb \in S : /\ sb.owner = calls[c].tenant
                         /\ calls[c].op = "create" => sb.key = calls[c].key
                         /\ sb.uid \in deleted' => sb.state = "Terminating",
           \A h \in hit : h[2] = calls[c].tenant
    PROVE  AnswerOK'
<1>1. calls[c] \in InFlight
  BY DEF StoreInv, CallsOK
<1>2. last' \in Answer
  BY <1>1 DEF Return, Answer, InFlight
<1>3. /\ last'.op = calls[c].op /\ last'.tenant = calls[c].tenant /\ last'.key = calls[c].key
      /\ last'.sandboxes = S /\ last'.hit = hit
  BY DEF Return
<1> QED BY <1>2, <1>3 DEF AnswerOK, AnswersAreOwn, DeletesAreOwn, DeletionIsSeen

LEMMA EmptyAnswers ==
    ASSUME StoreInv, NEW c \in Calls, calls[c] # Idle,
           NEW error \in {"none", "NotFound", "Conflict", "Unavailable"},
           Return(c, error, {}, {})
    PROVE  AnswerOK'
BY ReturnAnswers

(* A DELETE marks a claim of the calling tenant only. *)
LEMMA HitAnswers ==
    ASSUME StoreInv, NEW c \in Calls, NEW error \in {"none", "Unavailable"},
           calls[c].pc = "delete", calls[c].name \in DOMAIN claims,
           Return(c, error, {}, {<<claims[calls[c].name].uid, claims[calls[c].name].tenant>>})
    PROVE  AnswerOK'
<1> DEFINE claim == claims[calls[c].name]
<1>1. claim \in Claim /\ claim.tenant = calls[c].tenant /\ calls[c] # Idle
  BY DEF StoreInv, ClaimsOK, DeletesOK, Idle
<1>2. <<claim.uid, claim.tenant>> \in Uids \X Tenants
  BY <1>1 DEF Claim
<1> QED BY <1>1, <1>2, ReturnAnswers

LEMMA QuietAnswers == ASSUME last' = NoAnswer PROVE AnswerOK'
BY DEF AnswerOK, AnswersAreOwn, DeletesAreOwn, DeletionIsSeen, Answered

LEMMA CallStepAnswers ==
    ASSUME StoreInv, NEW c \in Calls, CallStep(c)
    PROVE  AnswerOK'
<1> DEFINE n == calls[c].name
<1>0. calls[c].pc # "idle" => calls[c] # Idle /\ calls[c] \in InFlight
  BY DEF StoreInv, CallsOK, Idle
<1>1. CASE PostCreates(c)
  <2> DEFINE claim == build_claim(calls[c].tenant, calls[c].key)
             sb == claim_to_sandbox(claim)
  <2>1. claim.uid = made + 1 /\ claim.uid \notin deleted /\ claim.uid \in Uids
    BY <1>1, StoreAssumption DEF PostCreates, build_claim, StoreInv, ClaimsOK, Uids
  <2>2. claim_state(claim) = "Pending"
    BY DEF claim_state, build_claim, ExpiredReasons, FailedReasons
  <2>3. /\ sb \in Sandbox /\ sb.owner = calls[c].tenant /\ sb.key = calls[c].key
        /\ sb.uid \notin deleted
    <3>1. calls[c].tenant \in Tenants /\ calls[c].key \in Keys \cup {NoKey}
      BY <1>0, <1>1 DEF PostCreates, InFlight
    <3>2. claim.tenant = calls[c].tenant /\ claim.key = calls[c].key
      BY DEF build_claim
    <3> HIDE DEF claim
    <3> QED BY <2>1, <2>2, <3>1, <3>2 DEF claim_to_sandbox, Sandbox, States
  <2>4. Return(c, "none", {sb}, {}) /\ deleted' = deleted /\ calls[c] # Idle
    BY <1>0, <1>1 DEF PostCreates
  <2> HIDE DEF sb
  <2> QED BY <2>3, <2>4, ReturnAnswers
<1>2. CASE PostConflicts(c)
  BY <1>2, QuietAnswers DEF PostConflicts, Continue
<1>3. CASE Read(c)
  <2>1. calls[c] # Idle /\ deleted' = deleted
    BY <1>0, <1>3 DEF Read
  <2>2. CASE Visible(n, calls[c].tenant)
    <3> DEFINE sb == claim_to_sandbox(claims[n])
    <3>1. n \in DOMAIN claims /\ claims[n].tenant = calls[c].tenant
      BY <2>2 DEF Visible, verify_tenant
    <3>2. /\ sb \in Sandbox /\ sb.owner = calls[c].tenant /\ sb.key = claims[n].key
          /\ sb.uid \in deleted => sb.state = "Terminating"
      BY <3>1, ShownTruly
    <3>3. calls[c].op = "create" => claims[n].key = calls[c].key
      <4> SUFFICES ASSUME calls[c].op = "create" PROVE claims[n].key = calls[c].key
        OBVIOUS
      <4>1. calls[c].key # NoKey /\ n = <<calls[c].tenant, calls[c].key>> /\ calls[c] \in InFlight
        BY <1>0, <1>3 DEF Read, StoreInv, CallsOK, CallOK
      <4>2. n \in Tenants \X Keys
        BY <4>1 DEF InFlight
      <4>3. n \notin Uuids
        BY <4>2, NamesAssumption
      <4>4. n = <<claims[n].tenant, claims[n].key>>
        BY <3>1, <4>3 DEF StoreInv, ClaimsOK
      <4> QED BY <4>1, <4>4
    <3>4. Return(c, "none", {sb}, {})
      BY <1>3, <2>2 DEF Read
    <3> HIDE DEF sb
    <3> QED BY <2>1, <3>2, <3>3, <3>4, ReturnAnswers
  <2>3. CASE ~Visible(n, calls[c].tenant)
    BY <1>3, <2>1, <2>3, EmptyAnswers DEF Read
  <2> QED BY <2>2, <2>3
<1>4. CASE List(c)
  <2> DEFINE own == {m \in DOMAIN claims : claims[m].tenant = calls[c].tenant}
             S == {claim_to_sandbox(claims[m]) : m \in own}
  <2>1. /\ calls[c] # Idle /\ calls[c].op # "create" /\ deleted' = deleted
        /\ Return(c, "none", S, {})
    BY <1>0, <1>4 DEF List, StoreInv, CallsOK, CallOK
  <2>2. \A m \in own : LET sb == claim_to_sandbox(claims[m])
                       IN  /\ sb \in Sandbox /\ sb.owner = calls[c].tenant
                           /\ sb.uid \in deleted => sb.state = "Terminating"
    BY ShownTruly
  <2>3. \A sb \in S : /\ sb \in Sandbox /\ sb.owner = calls[c].tenant
                      /\ sb.uid \in deleted => sb.state = "Terminating"
    BY <2>2
  <2> HIDE DEF S
  <2> QED BY <2>1, <2>3, ReturnAnswers
<1>5. CASE Verify(c)
  <2>1. calls[c] # Idle
    BY <1>0, <1>5 DEF Verify
  <2> QED BY <1>5, <2>1, QuietAnswers, EmptyAnswers DEF Verify, Continue
<1>6. CASE Delete(c)
  <2>1. CASE n \in DOMAIN claims
    BY <1>6, <2>1, HitAnswers DEF Delete
  <2>2. CASE n \notin DOMAIN claims
    BY <1>0, <1>6, <2>2, EmptyAnswers DEF Delete
  <2> QED BY <2>1, <2>2
<1>7. CASE Fails(c)
  <2>1. CASE Return(c, "Unavailable", {}, {})
    BY <1>7, <2>1, EmptyAnswers DEF Fails
  <2>2. CASE /\ calls[c].pc = "delete" /\ n \in DOMAIN claims
             /\ Return(c, "Unavailable", {}, {<<claims[n].uid, claims[n].tenant>>})
    BY <2>2, HitAnswers
  <2> QED BY <1>7, <2>1, <2>2 DEF Fails
<1> QED BY <1>1, <1>2, <1>3, <1>4, <1>5, <1>6, <1>7 DEF CallStep

LEMMA AnswerStep == StoreInv /\ AnswerOK /\ [Next]_vars => AnswerOK'
<1> SUFFICES ASSUME StoreInv, AnswerOK, [Next]_vars PROVE AnswerOK'
  OBVIOUS
<1>1. ASSUME NEW c \in Calls, Call(c) PROVE AnswerOK'
  <2> PICK t \in Tenants :
          \/ \E k \in Keys \cup {NoKey} : CallCreate(c, t, k) \/ CreateOtherProfile(c, t, k)
          \/ CallList(c, t)
          \/ \E n \in Names : CallGet(c, t, n) \/ CallDelete(c, t, n)
    BY <1>1 DEF Call
  <2>1. ASSUME NEW k \in Keys \cup {NoKey}, CreateOtherProfile(c, t, k) PROVE AnswerOK'
    BY <2>1 DEF CreateOtherProfile, AnswerOK, Answer, AnswersAreOwn, DeletesAreOwn, DeletionIsSeen
  <2>2. CASE last' = NoAnswer
    BY <2>2, QuietAnswers
  <2> QED BY <2>1, <2>2 DEF CallCreate, CallList, CallGet, CallDelete, Begin
<1>2. ASSUME NEW n \in Names, Controller(n) PROVE AnswerOK'
  BY <1>2, QuietAnswers DEF Controller, Report, ShutdownTimePasses, Expire, Finalize, Controlled
<1>3. CASE UNCHANGED vars
  BY <1>3 DEF vars, AnswerOK, AnswersAreOwn, DeletesAreOwn, DeletionIsSeen, Answered
<1> QED BY <1>1, <1>2, <1>3, CallStepAnswers DEF Next

LEMMA AnswerHolds == Spec => []AnswerOK
<1>1. Init => AnswerOK
  BY DEF Init, AnswerOK, AnswersAreOwn, DeletesAreOwn, DeletionIsSeen, Answered
<1> QED BY <1>1, AnswerStep, StoreInvHolds, PTL DEF Spec

-----------------------------------------------------------------------------
(* Claims, calls and answers stay well typed; every answered state is one  *)
(* of the SandboxState variants (kubernetes.rs 246-290).                   *)
THEOREM KubernetesTypeCorrect == Spec => []TypeOK
<1>1. StoreInv => deleted \subseteq Uids
  BY StoreAssumption DEF StoreInv, ClaimsOK, Uids
<1>2. StoreInv => \A n \in DOMAIN claims : claims[n] \in Claim
  BY DEF StoreInv, ClaimsOK
<1>3. StoreInv /\ AnswerOK => TypeOK
  BY <1>1, <1>2 DEF StoreInv, ClaimsOK, CallsOK, AnswerOK, TypeOK
<1> QED BY <1>3, StoreInvHolds, AnswerHolds, PTL

(* No answer shows another tenant's sandbox, and a keyed create answers    *)
(* with the sandbox of its key, whatever happened between POST and GET.    *)
THEOREM AnswersStayOwn == Spec => []AnswersAreOwn
BY AnswerHolds, PTL DEF AnswerOK

(* The DELETE of delete never marks another tenant's claim, although it    *)
(* goes by name and the name may have changed hands since the GET.         *)
THEOREM DeletesStayOwn == Spec => []DeletesAreOwn
BY AnswerHolds, PTL DEF AnswerOK

(* A claim whose deletion was answered is shown as Terminating ever after. *)
THEOREM DeletionStaysSeen == Spec => []DeletionIsSeen
BY AnswerHolds, PTL DEF AnswerOK

(* However calls, lost answers, expiry and retries interleave, one tenant  *)
(* and key never have two claims.                                          *)
THEOREM OneClaimStaysPerKey == Spec => []OneClaimPerKey
<1>1. StoreInv => OneClaimPerKey
  BY DEF StoreInv, ClaimsOK, OneClaimPerKey
<1> QED BY <1>1, StoreInvHolds, PTL

-----------------------------------------------------------------------------
(* Refinement of the contract. *)

(* A step that changes claims in place at most is a Read of the contract,  *)
(* as long as it shows nothing, one sandbox or all those of a tenant.      *)
LEMMA TouchImplements ==
    ASSUME StoreInv, Touch, made' = made,
           \/ ShownNow' = {}
           \/ \E n \in DOMAIN claims : ShownNow' = {<<claims[n].uid, claims[n].tenant>>}
           \/ \E t \in Tenants : ShownNow' = {s \in Stored : s[2] = t}
    PROVE  Contract!StoreNext
<1>1. Stored' = Stored
  BY DEF Touch, Stored
<1>2. Keyed' = Keyed /\ \A n \in Keyed : n \in DOMAIN claims
  BY DEF Touch, Keyed
<1>3. Named' = Named
  BY <1>2 DEF Touch, Named
<1>4. Contract!Shows
  <2>1. ASSUME NEW n \in DOMAIN claims, ShownNow' = {<<claims[n].uid, claims[n].tenant>>}
        PROVE  Contract!Shows
    <3>1. <<claims[n].uid, claims[n].tenant>> \in Stored'
      BY <1>1 DEF Stored
    <3> QED BY <2>1, <3>1 DEF Contract!Shows
  <2> QED BY <1>1, <2>1 DEF Contract!Shows
<1>5. Contract!Read
  BY <1>1, <1>3, <1>4 DEF Contract!Read
<1> QED BY <1>5 DEF Contract!StoreNext

(* A POST that takes effect is a Create, answered or not. *)
LEMMA StoreImplements ==
    ASSUME StoreInv, NEW c \in Calls, calls[c].pc = "post",
           calls[c].name \notin DOMAIN claims, made < MaxUid,
           Store(calls[c].name, build_claim(calls[c].tenant, calls[c].key)),
           ShownNow' \in {{}, {<<made + 1, calls[c].tenant>>}}
    PROVE  Contract!StoreNext
<1> DEFINE n == calls[c].name
           t == calls[c].tenant
           k == calls[c].key
           id == made + 1
<1>1. /\ DOMAIN claims' = DOMAIN claims \cup {n}
      /\ claims'[n].uid = id /\ claims'[n].tenant = t /\ claims'[n].key = k
      /\ \A m \in DOMAIN claims : claims'[m] = claims[m]
      /\ made' = id
  BY DEF Store, build_claim
<1>2. calls[c] \in InFlight /\ calls[c].op = "create"
  BY DEF StoreInv, CallsOK, CallOK, Idle
<1>3. /\ t \in Tenants /\ k \in Keys \cup {NoKey} /\ id \in Uids /\ made \in Nat
      /\ k # NoKey => n = <<t, k>>
  BY <1>2, StoreAssumption DEF InFlight, Uids, StoreInv, ClaimsOK, CallsOK, CallOK
<1>4. id \notin 1..made /\ 1..made' = (1..made) \cup {id}
  BY <1>1, <1>3
<1> HIDE DEF n, t, k, id
<1>5. Stored' = Stored \cup {<<id, t>>}
  <2>1. Stored' = {<<claims'[m].uid, claims'[m].tenant>> : m \in DOMAIN claims \cup {n}}
    BY <1>1 DEF Stored
  <2> QED BY <1>1, <2>1 DEF Stored
<1>6. Named' = IF k = NoKey THEN Named ELSE Named \cup {<<t, k, id>>}
  <2>1. CASE k = NoKey
    <3>1. Keyed' = Keyed /\ n \notin Keyed
      BY <1>1, <2>1 DEF Keyed, n
    <3> QED BY <1>1, <2>1, <3>1 DEF Named, Keyed
  <2>2. CASE k # NoKey
    <3>1. Keyed' = Keyed \cup {n} /\ Keyed \subseteq DOMAIN claims
      BY <1>1, <2>2 DEF Keyed, n
    <3>2. Named' = {<<claims'[m].tenant, claims'[m].key, claims'[m].uid>> : m \in Keyed \cup {n}}
      BY <3>1 DEF Named
    <3> QED BY <1>1, <2>2, <3>1, <3>2 DEF Named
  <2> QED BY <2>1, <2>2
<1>7. \A r \in Named : ~(r[1] = t /\ r[2] = k)
  <2> SUFFICES ASSUME NEW m \in Keyed, claims[m].tenant = t, claims[m].key = k PROVE FALSE
    BY DEF Named
  <2>1. m \in DOMAIN claims /\ k # NoKey /\ m = <<t, k>>
    BY DEF Keyed, StoreInv, ClaimsOK
  <2> QED BY <1>3, <2>1 DEF n
<1>8. Contract!Shows
  BY <1>5 DEF Contract!Shows, t, id
<1>9. Contract!Create(t, k, id)
  BY <1>4, <1>5, <1>6, <1>7, <1>8 DEF Contract!Create
<1> QED BY <1>3, <1>9 DEF Contract!StoreNext

(* A finalised claim is a Remove, because no other claim has its uid. *)
LEMMA FinalizeImplements ==
    ASSUME StoreInv, NEW n \in Names, Finalize(n)
    PROVE  Contract!StoreNext
<1> DEFINE id == claims[n].uid
<1>1. /\ n \in DOMAIN claims /\ DOMAIN claims' = DOMAIN claims \ {n}
      /\ \A m \in DOMAIN claims' : claims'[m] = claims[m]
      /\ made' = made /\ last' = NoAnswer
  BY DEF Finalize, Controlled
<1>2. id \in Uids /\ \A m \in DOMAIN claims : claims[m].uid = id => m = n
  BY <1>1 DEF StoreInv, ClaimsOK, Claim
<1> HIDE DEF id
<1>3. Stored' = {s \in Stored : s[1] # id}
  BY <1>1, <1>2 DEF Stored, id
<1>4. Named' = {r \in Named : r[3] # id}
  <2>1. Keyed' = Keyed \ {n} /\ Keyed \subseteq DOMAIN claims
    BY <1>1 DEF Keyed
  <2> QED BY <1>1, <1>2, <2>1 DEF Named, id
<1>5. Contract!Remove(id)
  BY <1>1, <1>3, <1>4 DEF Contract!Remove, ShownNow
<1> QED BY <1>2, <1>5 DEF Contract!StoreNext

LEMMA QuietImplements ==
    ASSUME StoreInv, Touch, made' = made,
           last' = NoAnswer \/ last'.sandboxes = {}
    PROVE  Contract!StoreNext
<1>1. ShownNow' = {}
  BY DEF ShownNow
<1> QED BY <1>1, TouchImplements

(* What a returning call shows. *)
LEMMA ReturnShows ==
    ASSUME StoreInv, NEW c \in Calls, calls[c].pc # "idle",
           NEW error, NEW S, NEW hit, Return(c, error, S, hit)
    PROVE  ShownNow' = {<<sb.uid, calls[c].tenant>> : sb \in S}
<1>1. calls[c] \in InFlight
  BY DEF StoreInv, CallsOK, Idle
<1>2. last'.op = calls[c].op /\ last'.tenant = calls[c].tenant /\ last'.sandboxes = S
  BY DEF Return
<1>3. last' # NoAnswer
  BY <1>1, <1>2 DEF NoAnswer, InFlight
<1> QED BY <1>2, <1>3 DEF ShownNow

LEMMA CallStepImplements ==
    ASSUME StoreInv, NEW c \in Calls, CallStep(c)
    PROVE  Contract!StoreNext
<1> DEFINE n == calls[c].name
<1>1. CASE PostCreates(c)
  <2> DEFINE claim == build_claim(calls[c].tenant, calls[c].key)
  <2>1. Return(c, "none", {claim_to_sandbox(claim)}, {}) /\ calls[c].pc = "post"
    BY <1>1 DEF PostCreates
  <2>2. claim_to_sandbox(claim).uid = made + 1
    BY DEF claim_to_sandbox, build_claim
  <2>3. ShownNow' = {<<sb.uid, calls[c].tenant>> : sb \in {claim_to_sandbox(claim)}}
    BY <2>1, ReturnShows
  <2>4. ShownNow' = {<<made + 1, calls[c].tenant>>}
    BY <2>2, <2>3
  <2> QED BY <1>1, <2>4, StoreImplements DEF PostCreates
<1>2. CASE PostConflicts(c)
  BY <1>2, ReadingTouches, QuietImplements DEF PostConflicts, Continue
<1>3. CASE Read(c)
  <2>1. CASE Visible(n, calls[c].tenant)
    <3> DEFINE sb == claim_to_sandbox(claims[n])
    <3>1. n \in DOMAIN claims /\ claims[n].tenant = calls[c].tenant
      BY <2>1 DEF Visible, verify_tenant
    <3>2. Return(c, "none", {sb}, {}) /\ calls[c].pc = "read" /\ UNCHANGED <<claims, made>>
      BY <1>3, <2>1 DEF Read
    <3>3. sb.uid = claims[n].uid
      BY DEF claim_to_sandbox
    <3>4. ShownNow' = {<<s.uid, calls[c].tenant>> : s \in {sb}}
      BY <3>2, ReturnShows
    <3>5. ShownNow' = {<<claims[n].uid, claims[n].tenant>>}
      BY <3>1, <3>3, <3>4
    <3> QED BY <3>1, <3>2, <3>5, ReadingTouches, TouchImplements
  <2>2. CASE ~Visible(n, calls[c].tenant)
    BY <1>3, <2>2, ReadingTouches, QuietImplements DEF Read, Return
  <2> QED BY <2>1, <2>2
<1>4. CASE List(c)
  <2> DEFINE own == {m \in DOMAIN claims : claims[m].tenant = calls[c].tenant}
             S == {claim_to_sandbox(claims[m]) : m \in own}
  <2>1. Return(c, "none", S, {}) /\ calls[c].pc = "list" /\ UNCHANGED <<claims, made>>
    BY <1>4 DEF List
  <2>2. ShownNow' = {<<sb.uid, calls[c].tenant>> : sb \in S}
    BY <2>1, ReturnShows
  <2>3. ShownNow' = {s \in Stored : s[2] = calls[c].tenant}
    <3>1. \A m \in own : claim_to_sandbox(claims[m]).uid = claims[m].uid
      BY DEF claim_to_sandbox
    <3>2. ShownNow' = {<<claims[m].uid, calls[c].tenant>> : m \in own}
      BY <2>2, <3>1
    <3>3. ShownNow' = {<<claims[m].uid, claims[m].tenant>> : m \in own}
      BY <3>2
    <3>4. \A s : s \in ShownNow' <=> s \in Stored /\ s[2] = calls[c].tenant
      BY <3>3 DEF Stored
    <3> QED BY <3>4
  <2>4. calls[c].tenant \in Tenants
    BY <2>1 DEF StoreInv, CallsOK, InFlight, Idle
  <2> QED BY <2>1, <2>3, <2>4, ReadingTouches, TouchImplements
<1>5. CASE Verify(c)
  BY <1>5, ReadingTouches, QuietImplements DEF Verify, Continue, Return
<1>6. CASE Delete(c)
  <2>1. CASE n \in DOMAIN claims
    BY <1>6, <2>1, MarkingTouches, QuietImplements DEF Delete, Return
  <2>2. CASE n \notin DOMAIN claims
    BY <1>6, <2>2, ReadingTouches, QuietImplements DEF Delete, Return
  <2> QED BY <2>1, <2>2
<1>7. CASE Fails(c)
  <2>0. last'.sandboxes = {}
    BY <1>7 DEF Fails, Return
  <2>1. CASE UNCHANGED <<claims, made>>
    BY <2>0, <2>1, ReadingTouches, QuietImplements
  <2>2. CASE /\ calls[c].pc = "post" /\ n \notin DOMAIN claims /\ made < MaxUid
             /\ Store(n, build_claim(calls[c].tenant, calls[c].key))
    <3>1. ShownNow' = {}
      BY <2>0 DEF ShownNow
    <3> QED BY <2>2, <3>1, StoreImplements
  <2>3. CASE n \in DOMAIN claims /\ claims' = [claims EXCEPT ![n].deleting = TRUE] /\ made' = made
    BY <2>0, <2>3, MarkingTouches, QuietImplements
  <2> QED BY <1>7, <2>1, <2>2, <2>3 DEF Fails
<1> QED BY <1>1, <1>2, <1>3, <1>4, <1>5, <1>6, <1>7 DEF CallStep

LEMMA KubernetesStepImplements ==
    StoreInv /\ [Next]_vars => [Contract!StoreNext]_(Contract!storeVars)
<1> SUFFICES ASSUME StoreInv, [Next]_vars
             PROVE  Contract!StoreNext \/ UNCHANGED Contract!storeVars
  OBVIOUS
<1>1. ASSUME NEW c \in Calls, Call(c) PROVE Contract!StoreNext
  <2>1. UNCHANGED <<claims, made>> /\ (last' = NoAnswer \/ last'.sandboxes = {})
    BY <1>1 DEF Call, CallCreate, CreateOtherProfile, CallList, CallGet, CallDelete, Begin
  <2> QED BY <2>1, ReadingTouches, QuietImplements
<1>2. ASSUME NEW n \in Names, Controller(n) PROVE Contract!StoreNext
  <2>1. CASE Report(n) \/ ShutdownTimePasses(n) \/ Expire(n)
    <3>1. Touch
      BY <2>1, MarkingTouches DEF Report, ShutdownTimePasses, Expire, Live
    <3>2. last' = NoAnswer /\ made' = made
      BY <2>1 DEF Report, ShutdownTimePasses, Expire, Controlled
    <3> QED BY <3>1, <3>2, QuietImplements
  <2> QED BY <1>2, <2>1, FinalizeImplements DEF Controller
<1>3. CASE UNCHANGED vars
  <2>1. Stored' = Stored /\ Named' = Named /\ (1..made)' = 1..made /\ ShownNow' = ShownNow
    BY <1>3 DEF vars, Stored, Named, Keyed, ShownNow
  <2> QED BY <2>1 DEF Contract!storeVars
<1> QED BY <1>1, <1>2, <1>3, CallStepImplements DEF Next

(* The requests of concurrent calls, their lost answers and the controller *)
(* add up to the store the trait promises, for any number of calls,        *)
(* tenants, keys and claims (kubernetes.rs 48-104).                        *)
THEOREM KubernetesImplementsContract == Spec => ImplementsSandboxStore
<1>1. Init => Contract!StoreInit
  BY DEF Init, Contract!StoreInit, Stored, Named, Keyed, ShownNow
<1> QED BY <1>1, KubernetesStepImplements, StoreInvHolds, PTL
        DEF Spec, ImplementsSandboxStore, Contract!StoreSpec

-----------------------------------------------------------------------------
(* The API in front of the store.  What a handler does to the store is a   *)
(* call of the store, or nothing.                                          *)

LEMMA ApiStepsStore == ApiNext => [Next]_vars
<1> SUFFICES ASSUME ApiNext PROVE Next \/ UNCHANGED vars
  OBVIOUS
<1>1. ASSUME NEW c \in Calls, Call(c) \/ CallStep(c) PROVE Next
  BY <1>1 DEF Next
<1>2. ASSUME NEW c \in Calls, NEW t \in Tenants, NEW n \in Names, CallGet(c, t, n)
      PROVE  Next
  BY <1>1, <1>2 DEF Call
<1>3. ASSUME NEW c \in Calls, running_sandbox(c) PROVE Next
  BY <1>1, <1>3 DEF running_sandbox, CallStep
<1>4. ASSUME NEW n \in Names, Controller(n) PROVE Next
  BY <1>4 DEF Next
<1>5. ASSUME NEW c \in Calls, NEW t \in Tenants, NEW n \in Names,
             NEW l \in 0..(MaxTimeout + Slack + 1), execute_command(c, t, n, l)
      PROVE  Next \/ UNCHANGED vars
  BY <1>2, <1>5 DEF execute_command, StoreRest
<1>6. ASSUME NEW c \in Calls, NEW t \in Tenants, NEW n \in Names, interactive_session(c, t, n)
      PROVE  Next
  BY <1>2, <1>6 DEF interactive_session
<1>7. CASE StoreRest
  BY <1>7 DEF StoreRest
<1> QED BY <1>1, <1>3, <1>4, <1>5, <1>6, <1>7 DEF ApiNext, RequestStep

(* Every behaviour of the API is one of the store: what is proved of the   *)
(* store's calls holds while requests and sessions are under way.          *)
THEOREM ApiUsesStore == ApiSpec => Spec
<1>1. ApiInit => Init
  BY DEF ApiInit
<1>2. [ApiNext]_everything => [Next]_vars
  BY ApiStepsStore DEF everything
<1> QED BY <1>1, <1>2, PTL DEF ApiSpec, Spec

-----------------------------------------------------------------------------
(* The request: what is known at each state of its handler.  A request     *)
(* that is out carries a limit that was accepted, its command has not      *)
(* outlived that limit, and nothing is answered before the handler is done *)
(* with it.                                                                *)
RequestInv ==
    /\ elapsed \in Nat /\ limit \in Nat
    /\ handler \notin {"sent", "done"} => command = "none" /\ elapsed = 0
    /\ handler \in {"lookup_command", "sent"} => limit \in 1..MaxTimeout
    /\ handler = "sent" /\ command = "running" => elapsed <= limit
    /\ handler # "done" => answer = "none"
    /\ TimeoutMeansKilled

LEMMA RequestHolds == RequestInv /\ [ApiNext]_everything => RequestInv'
<1> SUFFICES ASSUME RequestInv, [ApiNext]_everything PROVE RequestInv'
  OBVIOUS
<1>0. MaxTimeout \in Nat /\ Slack \in Nat /\ Slack > 0
  BY TimeoutAssumption
<1> USE <1>0 DEF RequestInv, TimeoutMeansKilled
<1>1. CASE UNCHANGED apiVars
  BY <1>1 DEF apiVars
<1>2. ASSUME NEW c \in Calls, NEW t \in Tenants, NEW n \in Names,
             NEW l \in 0..(MaxTimeout + Slack + 1), execute_command(c, t, n, l)
      PROVE  RequestInv'
  <2>1. /\ handler = "idle" /\ UNCHANGED <<command, elapsed>>
        /\ \/ handler' = "done" /\ answer' = "BadRequest" /\ UNCHANGED limit
           \/ /\ validate_command(l) /\ handler' = "lookup_command" /\ limit' = l
              /\ UNCHANGED answer
    BY <1>2 DEF execute_command, Answers
  <2>2. l \in Nat
    OBVIOUS
  <2> QED BY <2>1, <2>2 DEF validate_command
<1>3. ASSUME NEW c \in Calls, NEW t \in Tenants, NEW n \in Names, interactive_session(c, t, n)
      PROVE  RequestInv'
  BY <1>3 DEF interactive_session
<1>4. ASSUME NEW c \in Calls, running_sandbox(c) PROVE RequestInv'
  <2>1. /\ handler \in {"lookup_command", "lookup_session"} /\ UNCHANGED <<limit, elapsed>>
        /\ \/ handler' = "done" /\ UNCHANGED command
           \/ handler' = "session" /\ UNCHANGED <<command, answer>>
           \/ handler = "lookup_command" /\ handler' = "sent" /\ UNCHANGED answer
    BY <1>4 DEF running_sandbox, Answers
  <2> QED BY <2>1
<1>5. CASE RequestStep
  <2>1. CASE CommandEnds
    BY <2>1 DEF CommandEnds, Runtime!Ends
  <2>2. CASE Releases
    BY <2>2 DEF Releases, Runtime!Releases
  <2>3. CASE RuntimeAnswers
    BY <2>3 DEF RuntimeAnswers, Runtime!Answers
  <2>4. CASE RequestFails
    BY <2>4 DEF RequestFails, Answers, Runtime!NotStarted
  <2>5. CASE ClientTimesOut
    BY <2>5 DEF ClientTimesOut, Answers
  <2>6. CASE Tick
    BY <2>6 DEF Tick
  <2> QED BY <1>5, <2>1, <2>2, <2>3, <2>4, <2>5, <2>6 DEF RequestStep
<1>6. CASE SessionOver
  BY <1>6 DEF SessionOver
<1>7. CASE Forget
  BY <1>7 DEF Forget
<1> QED BY <1>1, <1>2, <1>3, <1>4, <1>5, <1>6, <1>7 DEF ApiNext, everything

(* When the client's timeout ends a request, the command is over: every    *)
(* accepted limit is below it, whatever the two timeouts are               *)
(* (api.rs 179-181, main.rs 75).                                           *)
THEOREM ApiTimeoutMeansKilled == ApiSpec => []TimeoutMeansKilled
<1>1. ApiInit => RequestInv
  BY DEF ApiInit, RequestInv, TimeoutMeansKilled
<1>2. RequestInv => TimeoutMeansKilled
  BY DEF RequestInv
<1> QED BY <1>1, <1>2, RequestHolds, PTL DEF ApiSpec

-----------------------------------------------------------------------------
(* The session: what is on its way to the client, seen from the client.    *)

Stops == {"exit", "error"}
Message == [type : {"output", "error", "frame_8"}] \cup [type : {"exit"}, code : Int]

(* An exit message carries the code the session ended with; the close      *)
(* frame is not sent before the end.                                       *)
Marked(q) ==
    \A i \in 1..Len(q) :
        /\ q[i].type = "frame_8" => rt = "ended"
        /\ q[i].type = "exit" => ended = Code(q[i].code)

(* A client that still reads meets the close frame after a message that    *)
(* makes it leave, in the same queue or in the one it reads first, or the  *)
(* runtime sent nothing else.                                              *)
Warned(i, q) == \E j \in 1..Len(q) : j < i /\ q[j].type \in Stops
StopAhead == \E j \in 1..Len(downCl) : downCl[j].type \in Stops
StopSent == \E j \in 1..Len(down) : down[j].type \in Stops

(* What the runtime announced is still on its way to a client that reads.  *)
Coming == client = "on" /\ ended \notin {NotYet, Dropped} => StopAhead \/ StopSent

CloseIsLast ==
    client = "on" /\ ended # Dropped =>
        /\ \A i \in 1..Len(downCl) : downCl[i].type = "frame_8" => Warned(i, downCl)
        /\ \A i \in 1..Len(down) : down[i].type = "frame_8" => Warned(i, down) \/ StopAhead

SessionInv ==
    /\ down \in Seq(Message) /\ downCl \in Seq(Message)
    /\ rt # "ended" => ended # Dropped
    /\ Marked(down) /\ Marked(downCl)
    /\ Coming /\ CloseIsLast
    /\ SessionCodeIsTrue

LEMMA Outcomes ==
    /\ \A c, d : Code(c) = Code(d) => c = d
    /\ \A c : Code(c) # Raised /\ Code(c) # NotYet /\ Code(c) # Failed /\ Code(c) # Dropped
    /\ NotYet # Dropped /\ NotYet # Failed /\ Raised # NotYet /\ Dropped # Failed
BY DEF Code, Raised, NotYet, Failed, Dropped

(* The queues and the runtime are left alone; the client goes on, or       *)
(* leaves without a code of the command's.                                 *)
LEMMA AsideKeeps ==
    ASSUME SessionInv, UNCHANGED <<down, downCl, rt, ended>>,
           UNCHANGED <<client, result>> \/ (\E r \in {Raised, Code(130)} : Leave(r))
    PROVE  SessionInv'
<1>1. (down \in Seq(Message) /\ downCl \in Seq(Message) /\ (rt # "ended" => ended # Dropped))'
  BY DEF SessionInv
<1>2. (Marked(down) /\ Marked(downCl))'
  BY DEF SessionInv, Marked
<1>3. (Coming /\ CloseIsLast)'
  BY DEF SessionInv, Coming, CloseIsLast, Warned, StopAhead, StopSent, Leave
<1>4. SessionCodeIsTrue'
  <2>1. CASE UNCHANGED <<client, result>>
    BY <2>1 DEF SessionInv, SessionCodeIsTrue
  <2>2. CASE result' = Raised \/ result' = Code(130)
    BY <2>2, Outcomes DEF SessionCodeIsTrue, Ended
  <2> QED BY <2>1, <2>2 DEF Leave
<1> QED BY <1>1, <1>2, <1>3, <1>4 DEF SessionInv

(* One message moves from the runtime's queue to the client's. *)
LEMMA MoveKeeps ==
    ASSUME SessionInv, down # <<>>, down' = Tail(down), downCl' = Append(downCl, Head(down)),
           UNCHANGED <<client, result, rt, ended>>
    PROVE  SessionInv'
<1>1. down' \in Seq(Message) /\ downCl' \in Seq(Message) /\ Head(down) = down[1]
  BY DEF SessionInv
<1>2. Len(down') = Len(down) - 1 /\ \A i \in 1..Len(down') : down'[i] = down[i + 1]
  BY DEF SessionInv
<1>3. /\ Len(downCl') = Len(downCl) + 1 /\ downCl'[Len(downCl')] = down[1]
      /\ \A i \in 1..Len(downCl) : downCl'[i] = downCl[i]
  BY <1>1 DEF SessionInv
<1>4. Len(down) \in Nat /\ Len(downCl) \in Nat /\ Len(down) >= 1
  BY DEF SessionInv
<1>5. (Marked(down) /\ Marked(downCl))'
  BY <1>1, <1>2, <1>3, <1>4 DEF SessionInv, Marked
<1>6. ASSUME client' = "on", ended' # Dropped
      PROVE  CloseIsLast'
  <2>0. /\ \A i \in 1..Len(downCl) : downCl[i].type = "frame_8" => Warned(i, downCl)
        /\ \A i \in 1..Len(down) : down[i].type = "frame_8" => Warned(i, down) \/ StopAhead
    BY <1>6 DEF SessionInv, CloseIsLast
  <2>1. StopAhead => StopAhead'
    BY <1>3, <1>4 DEF StopAhead
  <2>2. down[1].type \in Stops => StopAhead'
    BY <1>3, <1>4 DEF StopAhead
  <2>3. ASSUME NEW i \in 1..Len(downCl'), downCl'[i].type = "frame_8"
        PROVE  Warned(i, downCl)'
    <3>1. CASE i \in 1..Len(downCl)
      BY <1>3, <1>4, <2>0, <2>3, <3>1 DEF Warned
    <3>2. CASE i = Len(downCl) + 1
      <4>1. StopAhead
        BY <1>3, <1>4, <2>0, <2>3, <3>2 DEF Warned
      <4> QED BY <1>3, <1>4, <3>2, <4>1 DEF Warned, StopAhead
    <3> QED BY <1>3, <1>4, <3>1, <3>2
  <2>4. ASSUME NEW i \in 1..Len(down'), down'[i].type = "frame_8"
        PROVE  Warned(i, down)' \/ StopAhead'
    <3>1. Warned(i + 1, down) \/ StopAhead
      BY <1>2, <1>4, <2>0, <2>4
    <3>2. ASSUME NEW j \in 1..Len(down), j < i + 1, down[j].type \in Stops
          PROVE  Warned(i, down)' \/ StopAhead'
      <4>1. CASE j = 1
        BY <2>2, <3>2, <4>1
      <4>2. CASE j # 1
        <5>1. j - 1 \in 1..Len(down') /\ j - 1 < i /\ down'[j - 1] = down[j]
          BY <1>2, <1>4, <3>2, <4>2
        <5> QED BY <3>2, <5>1 DEF Warned
      <4> QED BY <4>1, <4>2
    <3> QED BY <2>1, <3>1, <3>2 DEF Warned
  <2> QED BY <2>3, <2>4 DEF CloseIsLast
<1>7. CloseIsLast'
  BY <1>6 DEF CloseIsLast
<1>8. Coming'
  <2>1. StopAhead => StopAhead'
    BY <1>3, <1>4 DEF StopAhead
  <2>2. ASSUME NEW j \in 1..Len(down), down[j].type \in Stops PROVE StopAhead' \/ StopSent'
    <3>1. CASE j = 1
      BY <1>3, <1>4, <2>2, <3>1 DEF StopAhead
    <3>2. CASE j # 1
      <4>1. j - 1 \in 1..Len(down') /\ down'[j - 1] = down[j]
        BY <1>2, <1>4, <3>2
      <4> QED BY <2>2, <4>1 DEF StopSent
    <3> QED BY <3>1, <3>2
  <2> QED BY <2>1, <2>2 DEF SessionInv, Coming, StopSent
<1> QED BY <1>1, <1>5, <1>7, <1>8 DEF SessionInv, SessionCodeIsTrue

(* The client takes one message, and leaves if it is the end. *)
LEMMA ReadKeeps == SessionInv /\ ClientReads => SessionInv'
<1> SUFFICES ASSUME SessionInv, ClientReads PROVE SessionInv'
  OBVIOUS
<1> DEFINE m == Head(downCl)
<1>1. downCl # <<>> /\ downCl' = Tail(downCl) /\ UNCHANGED <<down, rt, ended>> /\ client = "on"
  BY DEF ClientReads, rtVars
<1>2. downCl' \in Seq(Message) /\ m = downCl[1] /\ 1 \in 1..Len(downCl)
  BY <1>1 DEF SessionInv
<1>3. Len(downCl') = Len(downCl) - 1 /\ \A i \in 1..Len(downCl') : downCl'[i] = downCl[i + 1]
  BY <1>1 DEF SessionInv
<1>4. Len(downCl) \in Nat
  BY DEF SessionInv
<1>5. (Marked(down) /\ Marked(downCl))'
  BY <1>1, <1>3, <1>4 DEF SessionInv, Marked
<1>6. CASE m.type = "output" /\ UNCHANGED <<client, result>>
  <2>1. (Coming /\ CloseIsLast)'
    <3> SUFFICES ASSUME client' = "on", ended' # Dropped PROVE (Coming /\ CloseIsLast)'
      BY DEF Coming, CloseIsLast
    <3>0. /\ \A i \in 1..Len(downCl) : downCl[i].type = "frame_8" => Warned(i, downCl)
          /\ \A i \in 1..Len(down) : down[i].type = "frame_8" => Warned(i, down) \/ StopAhead
      BY <1>1 DEF SessionInv, CloseIsLast
    <3>1. ASSUME NEW j \in 1..Len(downCl), downCl[j].type \in Stops
          PROVE  j - 1 \in 1..Len(downCl') /\ downCl'[j - 1] = downCl[j]
      <4>1. j # 1
        BY <1>2, <1>6, <3>1 DEF Stops
      <4> QED BY <1>3, <1>4, <4>1
    <3>2. StopAhead => StopAhead'
      BY <3>1 DEF StopAhead
    <3>3. ASSUME NEW i \in 1..Len(downCl'), downCl'[i].type = "frame_8"
          PROVE  Warned(i, downCl)'
      <4>0. Warned(i + 1, downCl)
        BY <1>3, <1>4, <3>0, <3>3
      <4>1. PICK j \in 1..Len(downCl) : j < i + 1 /\ downCl[j].type \in Stops
        BY <4>0 DEF Warned
      <4>2. j - 1 \in 1..Len(downCl') /\ downCl'[j - 1].type \in Stops /\ j - 1 < i
        BY <1>4, <3>1, <4>1
      <4> QED BY <4>2 DEF Warned
    <3>4. ASSUME NEW i \in 1..Len(down'), down'[i].type = "frame_8"
          PROVE  Warned(i, down)' \/ StopAhead'
      BY <1>1, <3>0, <3>2, <3>4 DEF Warned
    <3>5. Coming'
      BY <1>1, <3>2 DEF SessionInv, Coming, StopSent
    <3> QED BY <3>3, <3>4, <3>5 DEF CloseIsLast
  <2> QED BY <1>1, <1>2, <1>5, <1>6, <2>1 DEF SessionInv, SessionCodeIsTrue
<1>7. ASSUME client' = "left", SessionCodeIsTrue' PROVE SessionInv'
  BY <1>1, <1>2, <1>5, <1>7 DEF SessionInv, Coming, CloseIsLast
<1>8. CASE m.type = "exit" /\ Leave(Code(m.code))
  <2>1. ended' = Code(m.code) /\ result' = Code(m.code) /\ client' = "left"
    BY <1>1, <1>2, <1>8 DEF SessionInv, Marked, Leave
  <2> QED BY <1>7, <2>1, Outcomes DEF SessionCodeIsTrue
<1>9. CASE m.type = "frame_8" /\ Leave(Code(0))
  <2>1. ended = Dropped
    BY <1>1, <1>2, <1>4, <1>9 DEF SessionInv, CloseIsLast, Warned
  <2> QED BY <1>1, <1>7, <1>9, <2>1, Outcomes DEF SessionCodeIsTrue, Leave, Ended
<1>10. CASE Leave(Raised)
  BY <1>7, <1>10, Outcomes DEF SessionCodeIsTrue, Leave, Ended
<1> QED BY <1>6, <1>8, <1>9, <1>10 DEF ClientReads

(* The runtime sends m: output, which changes nothing; an announcement     *)
(* (how it will end), which makes the client leave; or the close frame,    *)
(* which comes after the announcement, if there was one.                   *)
LEMMA SayKeeps ==
    ASSUME SessionInv, NEW m \in Message, down' = Append(down, m), rt = "open",
           UNCHANGED <<client, result, downCl>>,
           \/ m.type = "output" /\ UNCHANGED <<rt, ended>>
           \/ /\ m.type \in Stops /\ UNCHANGED rt /\ ended \in {NotYet, Failed}
              /\ ended' = (IF m.type = "exit" THEN Code(m.code) ELSE Failed)
           \/ /\ m.type = "frame_8" /\ rt' = "ended"
              /\ ended' = (IF ended = NotYet THEN Dropped ELSE ended)
    PROVE  SessionInv'
<1> DEFINE d == Len(down)
<1>1. /\ down' \in Seq(Message) /\ d \in Nat /\ Len(down') = d + 1
      /\ \A i \in 1..d : down'[i] = down[i]
      /\ down'[d + 1] = m
  BY DEF SessionInv
<1>2. /\ \A i \in 1..d : down[i].type # "frame_8"
      /\ \A i \in 1..Len(downCl) : downCl[i].type # "frame_8"
  BY DEF SessionInv, Marked
<1>3. rt' # "ended" => ended' # Dropped
  BY Outcomes DEF SessionInv, Stops
<1>4. ASSUME NEW q, Marked(q), \A i \in 1..Len(q) : q[i].type = "exit" => UNCHANGED ended
      PROVE  \A i \in 1..Len(q) : q[i].type = "exit" => ended' = Code(q[i].code)
  BY <1>4 DEF Marked
<1>5. /\ \A i \in 1..d : down[i].type = "exit" => UNCHANGED ended
      /\ \A i \in 1..Len(downCl) : downCl[i].type = "exit" => UNCHANGED ended
  BY Outcomes DEF SessionInv, Marked, Stops
<1>6. (Marked(down) /\ Marked(downCl))'
  <2>1. Marked(downCl)'
    BY <1>2, <1>4, <1>5 DEF SessionInv, Marked
  <2>2. ASSUME NEW i \in 1..Len(down'), down'[i].type = "exit"
        PROVE  ended' = Code(down'[i].code)
    <3>1. CASE i \in 1..d
      BY <1>1, <1>4, <1>5, <2>2, <3>1 DEF SessionInv
    <3>2. CASE i = d + 1
      BY <1>1, <2>2, <3>2 DEF Stops
    <3> QED BY <1>1, <3>1, <3>2
  <2>3. ASSUME NEW i \in 1..Len(down'), down'[i].type = "frame_8" PROVE rt' = "ended"
    <3>1. i = d + 1
      BY <1>1, <1>2, <2>3
    <3> QED BY <1>1, <2>3, <3>1 DEF Stops
  <2> QED BY <2>1, <2>2, <2>3 DEF Marked
<1>7. Coming'
  <2>1. StopAhead => StopAhead'
    BY DEF StopAhead
  <2>2. StopSent => StopSent'
    BY <1>1 DEF StopSent
  <2>3. m.type \in Stops => StopSent'
    BY <1>1 DEF StopSent
  <2>4. m.type \notin Stops /\ ended' \notin {NotYet, Dropped} => ended \notin {NotYet, Dropped}
    OBVIOUS
  <2> QED BY <2>1, <2>2, <2>3, <2>4 DEF SessionInv, Coming
<1>8. CloseIsLast'
  <2> SUFFICES ASSUME client' = "on", ended' # Dropped,
                      NEW i \in 1..Len(down'), down'[i].type = "frame_8"
               PROVE  Warned(i, down)' \/ StopAhead'
    BY <1>2 DEF CloseIsLast
  <2>1. i = d + 1 /\ m.type = "frame_8"
    BY <1>1, <1>2
  <2>2. StopAhead \/ StopSent
    BY <2>1 DEF SessionInv, Coming, Stops
  <2>3. ASSUME NEW j \in 1..d, down[j].type \in Stops PROVE Warned(i, down)'
    <3>1. j \in 1..Len(down') /\ j < i /\ down'[j].type \in Stops
      BY <1>1, <2>1, <2>3
    <3> QED BY <3>1 DEF Warned
  <2> QED BY <2>2, <2>3 DEF StopAhead, StopSent
<1>9. SessionCodeIsTrue'
  BY Outcomes DEF SessionInv, SessionCodeIsTrue, Ended, Stops
<1> QED BY <1>1, <1>3, <1>6, <1>7, <1>8, <1>9 DEF SessionInv

LEMMA SessionStepHolds ==
    SessionInv /\ (SessionStep \/ ClientInterrupted \/ ClientKilled) => SessionInv'
<1> SUFFICES ASSUME SessionInv, SessionStep \/ ClientInterrupted \/ ClientKilled
             PROVE  SessionInv'
  OBVIOUS
<1>1. ASSUME NEW type \in {"input", "close"}, ClientSends(type) PROVE SessionInv'
  BY <1>1, AsideKeeps DEF ClientSends, rtVars
<1>2. CASE ClientReads
  BY <1>2, ReadKeeps
<1>3. CASE ClientDropped \/ ClientInterrupted \/ ClientKilled
  BY <1>3, AsideKeeps DEF ClientDropped, ClientInterrupted, ClientKilled, rtVars
<1>4. CASE ProxyBreaks \/ ReceiverEnds
  BY <1>4, AsideKeeps DEF ProxyBreaks, ReceiverEnds, ProxyEnds, rtVars
<1>5. CASE client_to_runtime
  BY <1>5, AsideKeeps DEF client_to_runtime, ProxyEnds, rtVars
<1>6. CASE runtime_to_client
  BY <1>6, AsideKeeps, MoveKeeps DEF runtime_to_client, ProxyEnds, RtTaken, rtVars
<1>7. CASE RtSpeaks
  <2>0. rt = "open" /\ ended \in {NotYet, Failed} /\ UNCHANGED <<rt, client, result, downCl>>
    BY <1>7 DEF RtSpeaks, RtOutput, RtFails, RtExits, Speaking, RtRest
  <2>1. CASE RtOutput
    BY <2>0, <2>1, SayKeeps DEF RtOutput, Text, Message
  <2>2. CASE RtFails
    BY <2>0, <2>2, SayKeeps DEF RtFails, Text, Message, Stops
  <2>3. ASSUME NEW c \in ExitCodes \cup Limits, RtExits(c) PROVE SessionInv'
    <3>1. Exit(c) \in Message /\ Exit(c).type = "exit" /\ Exit(c).code = c
      BY SessionAssumption DEF Exit, Message, Limits
    <3> QED BY <2>0, <2>3, <3>1, SayKeeps DEF RtExits, Stops
  <2> QED BY <1>7, <2>1, <2>2, <2>3 DEF RtSpeaks
<1>8. CASE RtReceives
  BY <1>8, AsideKeeps DEF RtReceives, RtAsked, RtRest, rtVars
<1>9. CASE RtEnds
  <2>1. Text("frame_8") \in Message /\ Text("frame_8").type = "frame_8"
    BY DEF Text, Message
  <2> QED BY <1>9, <2>1, SayKeeps DEF RtEnds, RtCloses, RtRest
<1> QED BY <1>1, <1>2, <1>3, <1>4, <1>5, <1>6, <1>7, <1>8, <1>9 DEF SessionStep

LEMMA SessionHolds == SessionInv /\ [ApiNext]_everything => SessionInv'
<1> SUFFICES ASSUME SessionInv, [ApiNext]_everything PROVE SessionInv'
  OBVIOUS
<1>1. CASE UNCHANGED sessionVars
  BY <1>1, AsideKeeps DEF sessionVars
<1>2. ASSUME result' = NotYet, ended' = NotYet, down' = <<>>, downCl' = <<>>
      PROVE  SessionInv'
  BY <1>2, Outcomes DEF SessionInv, Marked, Coming, CloseIsLast, SessionCodeIsTrue, Ended
<1>3. CASE SessionStep \/ ClientInterrupted \/ ClientKilled
  BY <1>3, SessionStepHolds
<1>4. ASSUME NEW c \in Calls, running_sandbox(c) PROVE SessionInv'
  BY <1>1, <1>2, <1>4 DEF running_sandbox, SessionRest, SessionBegin
<1>5. CASE SessionOver
  BY <1>2, <1>5 DEF SessionOver
<1>6. ASSUME NEW c \in Calls, NEW t \in Tenants, NEW n \in Names,
             \/ \E l \in 0..(MaxTimeout + Slack + 1) : execute_command(c, t, n, l)
             \/ interactive_session(c, t, n)
      PROVE  SessionInv'
  BY <1>1, <1>6 DEF execute_command, interactive_session, SessionRest
<1>7. CASE RequestStep
  BY <1>1, <1>7 DEF RequestStep, SessionRest
<1> QED BY <1>1, <1>3, <1>4, <1>5, <1>6, <1>7 DEF ApiNext, SessionRest, everything

(* Whatever is lost between runtime, proxy and client, and whoever leaves  *)
(* first, the code the terminal client reports is the command's            *)
(* (hermes_demo.py 485-505, runtime.rs 275-278).                           *)
THEOREM ApiSessionCodeTrue == ApiSpec => []SessionCodeIsTrue
<1>1. ApiInit => SessionInv
  BY Outcomes DEF ApiInit, SessionInit, SessionInv, Marked, Coming, CloseIsLast, SessionCodeIsTrue, Ended
<1>2. SessionInv => SessionCodeIsTrue
  BY DEF SessionInv
<1> QED BY <1>1, <1>2, SessionHolds, PTL DEF ApiSpec
-----------------------------------------------------------------------------
(* The types of the API and of the session it proxies. *)

Codes == ExitCodes \cup Limits

RequestTypeOK ==
    /\ handler \in {"idle", "lookup_command", "lookup_session", "sent", "session", "done"}
    /\ elapsed <= MaxTimeout + Slack /\ target \in 0..MaxUid
    /\ command \in {"none", "running", "exited", "killed"} /\ held \in BOOLEAN

(* Only a sandbox that the store has just shown becomes a target. *)
LEMMA TargetShown ==
    ASSUME StoreInv, AnswerOK, NEW c \in Calls, running_sandbox(c),
           NEW sb \in last'.sandboxes, Shown
    PROVE  sb.uid \in 0..MaxUid
<1>1. Next
  BY DEF running_sandbox, CallStep, Next
<1>2. AnswerOK'
  BY <1>1, AnswerStep
<1>3. last' # NoAnswer
  <2>1. Read(c) \/ Fails(c)
    BY DEF running_sandbox
  <2>2. ASSUME NEW e, NEW s, NEW h, Return(c, e, s, h) PROVE last' # NoAnswer
    <3>1. calls[c] \in InFlight
      BY <2>1 DEF StoreInv, CallsOK, Read, Fails, Idle
    <3>2. last'.op = calls[c].op /\ calls[c].op # "none"
      BY <2>2, <3>1 DEF Return, InFlight
    <3> QED BY <3>2 DEF NoAnswer
  <2> QED BY <2>1, <2>2 DEF Read, Fails
<1>4. last' \in Answer
  BY <1>2, <1>3 DEF AnswerOK
<1>5. sb \in Sandbox
  BY <1>4 DEF Answer
<1> QED BY <1>5, StoreAssumption DEF Sandbox, Uids

(* The uid a handler keeps is one the store has given out, and the clock  *)
(* stays within the largest limit.                                         *)
LEMMA RequestTyped ==
    StoreInv /\ AnswerOK /\ RequestInv /\ RequestTypeOK /\ [ApiNext]_everything => RequestTypeOK'
<1> SUFFICES ASSUME StoreInv, AnswerOK, RequestInv, RequestTypeOK, [ApiNext]_everything
             PROVE  RequestTypeOK'
  OBVIOUS
<1>0. MaxTimeout \in Nat /\ Slack \in Nat /\ MaxUid \in Nat /\ elapsed \in Nat
  BY TimeoutAssumption, StoreAssumption DEF RequestInv
<1> USE <1>0 DEF RequestTypeOK
<1>1. CASE UNCHANGED apiVars
  BY <1>1 DEF apiVars
<1>2. ASSUME NEW c \in Calls, NEW t \in Tenants, NEW n \in Names, NEW l, execute_command(c, t, n, l)
      PROVE  RequestTypeOK'
  BY <1>2 DEF execute_command, Answers
<1>3. ASSUME NEW c \in Calls, NEW t \in Tenants, NEW n \in Names, interactive_session(c, t, n)
      PROVE  RequestTypeOK'
  BY <1>3 DEF interactive_session
<1>4. ASSUME NEW c \in Calls, running_sandbox(c) PROVE RequestTypeOK'
  BY <1>4, TargetShown DEF running_sandbox, Answers
<1>5. CASE RequestStep
  <2>1. CASE CommandEnds \/ Releases
    BY <2>1 DEF CommandEnds, Releases, Runtime!Ends, Runtime!Releases
  <2>2. CASE RuntimeAnswers \/ RequestFails \/ ClientTimesOut
    BY <2>2 DEF RuntimeAnswers, RequestFails, ClientTimesOut, Answers, Runtime!Answers, Runtime!NotStarted
  <2>3. CASE Tick
    BY <2>3 DEF Tick
  <2> QED BY <1>5, <2>1, <2>2, <2>3 DEF RequestStep
<1>6. CASE SessionOver
  BY <1>6 DEF SessionOver
<1>7. CASE Forget
  <2>1. handler' = "idle" /\ command' = "none" /\ elapsed' = 0 /\ target' = 0
    BY <1>7 DEF Forget
  <2>2. held' \in BOOLEAN
    BY <1>7 DEF Forget
  <2> QED BY <2>1, <2>2
<1> QED BY <1>1, <1>2, <1>3, <1>4, <1>5, <1>6, <1>7 DEF ApiNext, everything

(* A code the client reads is the code the session ended with. *)
LEMMA SessionTyped ==
    SessionInv /\ SessionTypeOK /\ [ApiNext]_everything => SessionTypeOK'
<1> SUFFICES ASSUME SessionInv, SessionTypeOK, [ApiNext]_everything PROVE SessionTypeOK'
  OBVIOUS
<1>0. Code(130) \in Ended(Codes) /\ (\A c \in Codes : Code(c) \in Ended(Codes))
      /\ Ended(Codes) \subseteq Ended(Codes \cup {0}) /\ Code(0) \in Ended(Codes \cup {0})
  BY DEF Ended, Codes, Limits
<1>1. ASSUME UNCHANGED <<client, result, proxy, rt, ended, asked>> PROVE SessionTypeOK'
  BY <1>1 DEF SessionTypeOK
<1>2. ASSUME client' \in {"on", "off"}, result' = NotYet, proxy' \in {"on", "off"},
             rt' \in {"open", "off"}, ended' = NotYet, asked' = FALSE
      PROVE  SessionTypeOK'
  BY <1>2 DEF SessionTypeOK
<1>3. ASSUME UNCHANGED <<client, result, rt, ended, asked>>, proxy' \in {proxy, "gone"}
      PROVE  SessionTypeOK'
  BY <1>3 DEF SessionTypeOK
<1>4. ASSUME UNCHANGED <<proxy, rt, ended, asked>>,
             NEW r \in Ended(Codes \cup {0}) \cup {Raised}, Leave(r)
      PROVE  SessionTypeOK'
  BY <1>4 DEF SessionTypeOK, Leave, Codes
<1>5. ASSUME UNCHANGED <<client, result, proxy>>, rt' \in {rt, "ended"}, asked' \in {asked, TRUE},
             ended' \in {ended, Failed, Dropped} \cup Ended(Codes)
      PROVE  SessionTypeOK'
  BY <1>5 DEF SessionTypeOK, Codes
<1> USE DEF rtVars
<1>6. ASSUME NEW type, ClientSends(type) PROVE SessionTypeOK'
  BY <1>1, <1>4, <1>6 DEF ClientSends
<1>7. CASE ClientReads
  <2> DEFINE m == Head(downCl)
  <2>1. m = downCl[1] /\ 1 \in 1..Len(downCl)
    BY <1>7 DEF ClientReads, SessionInv
  <2>2. m.type = "exit" => ended = Code(m.code)
    BY <2>1 DEF SessionInv, Marked
  <2>3. m.type = "exit" => Code(m.code) \in Ended(Codes \cup {0})
    BY <1>0, <2>2, Outcomes DEF SessionTypeOK, Codes
  <2>4. UNCHANGED <<proxy, rt, ended, asked>> /\
        (UNCHANGED <<client, result>> \/ (m.type = "exit" /\ Leave(Code(m.code)))
         \/ Leave(Code(0)) \/ Leave(Raised))
    BY <1>7 DEF ClientReads
  <2> QED BY <1>0, <1>1, <1>4, <2>3, <2>4
<1>8. CASE ClientDropped \/ ClientInterrupted \/ ClientKilled
  BY <1>0, <1>4, <1>8 DEF ClientDropped, ClientInterrupted, ClientKilled
<1>9. CASE ProxyBreaks \/ ReceiverEnds \/ client_to_runtime \/ runtime_to_client
  BY <1>3, <1>9 DEF ProxyBreaks, ReceiverEnds, client_to_runtime, runtime_to_client, ProxyEnds, RtTaken
<1>10. CASE RtSpeaks
  <2>1. CASE RtOutput \/ RtFails
    BY <1>5, <1>10, <2>1 DEF RtSpeaks, RtRest, RtOutput, RtFails
  <2>2. ASSUME NEW c \in Codes, RtExits(c) PROVE SessionTypeOK'
    BY <1>0, <1>5, <1>10, <2>2 DEF RtSpeaks, RtRest, RtExits
  <2> QED BY <1>10, <2>1, <2>2 DEF RtSpeaks, Codes
<1>11. CASE RtReceives \/ RtEnds
  BY <1>1, <1>5, <1>11 DEF RtReceives, RtAsked, RtEnds, RtCloses, RtRest
<1>12. ASSUME NEW c \in Calls, running_sandbox(c) PROVE SessionTypeOK'
  BY <1>1, <1>2, <1>12 DEF running_sandbox, SessionRest, SessionBegin, sessionVars
<1>13. CASE SessionOver
  BY <1>2, <1>13 DEF SessionOver
<1>14. CASE UNCHANGED sessionVars
  BY <1>1, <1>14 DEF sessionVars
<1>15. ASSUME NEW c \in Calls, NEW t \in Tenants, NEW n \in Names,
              \/ \E l \in 0..(MaxTimeout + Slack + 1) : execute_command(c, t, n, l)
              \/ interactive_session(c, t, n)
       PROVE  SessionTypeOK'
  BY <1>14, <1>15 DEF execute_command, interactive_session, SessionRest
<1>16. CASE RequestStep
  BY <1>14, <1>16 DEF RequestStep, SessionRest
<1> QED BY <1>6, <1>7, <1>8, <1>9, <1>10, <1>11, <1>12, <1>13, <1>14, <1>15, <1>16
        DEF ApiNext, SessionStep, SessionRest, everything

(* Claims, calls, requests and sessions keep their types: a request goes   *)
(* to a uid the store has given out, and no client returns a code outside  *)
(* those of commands and limits, for every pair of timeouts (api.rs,       *)
(* runtime.rs 150-290, hermes_demo.py 430-520).                            *)
THEOREM ApiTypeCorrect == ApiSpec => []ApiTypeOK
<1>1. ApiInit => RequestInv /\ RequestTypeOK /\ SessionInv /\ SessionTypeOK
  <2> SUFFICES ASSUME ApiInit PROVE RequestInv /\ RequestTypeOK /\ SessionInv /\ SessionTypeOK
    OBVIOUS
  <2>1. SessionInv
    BY Outcomes DEF ApiInit, SessionInit, SessionInv, Marked, Coming, CloseIsLast, SessionCodeIsTrue, Ended
  <2>2. SessionTypeOK
    BY DEF ApiInit, SessionInit, SessionTypeOK
  <2>3. RequestInv
    BY DEF ApiInit, RequestInv, TimeoutMeansKilled
  <2>4. elapsed = 0 /\ target = 0 /\ handler = "idle" /\ command = "none"
    BY DEF ApiInit
  <2>5. held \in BOOLEAN
    BY DEF ApiInit
  <2>6. RequestTypeOK
    BY <2>4, <2>5, TimeoutAssumption, StoreAssumption DEF RequestTypeOK
  <2> QED BY <2>1, <2>2, <2>3, <2>6
<1>2. TypeOK /\ RequestInv /\ RequestTypeOK /\ SessionTypeOK => ApiTypeOK
  BY TimeoutAssumption DEF RequestInv, RequestTypeOK, ApiTypeOK
<1> QED BY <1>1, <1>2, ApiUsesStore, KubernetesTypeCorrect, StoreInvHolds, AnswerHolds, RequestHolds,
           RequestTyped, SessionHolds, SessionTyped, PTL DEF ApiSpec

=============================================================================
