------------------------- MODULE InMemoryStoreProofs -------------------------
(* Proofs about InMemoryStore and the contract it implements, for every    *)
(* set of tenants, keys and ids.                                           *)
EXTENDS InMemoryStore, TLAPS

(* The maps stay well typed across every method (store.rs 42-125). *)
THEOREM TypeCorrect == Spec => []TypeOK
<1>1. Init => TypeOK
  BY DEF Init, TypeOK, Reply, Errors, Sandbox
<1>2. TypeOK /\ [Next]_vars => TypeOK'
  <2> SUFFICES ASSUME TypeOK, [Next]_vars PROVE TypeOK'
    OBVIOUS
  <2> USE DEF TypeOK
  <2>1. ASSUME NEW t \in Tenants, NEW k \in Keys, CreateKnown(t, k) PROVE TypeOK'
    BY <2>1 DEF CreateKnown, Answer, Refuse, Reply, Errors
  <2>2. ASSUME NEW t \in Tenants, NEW k \in Keys \cup {NoKey}, NEW id \in Ids,
               CreateFresh(t, k, id)
        PROVE  TypeOK'
    <3>1. sandboxes' = With(sandboxes, id, [tenant |-> t, state |-> "Pending"])
          /\ issued' = issued \cup {id} /\ reply' = Answer("create", t, {id})
      BY <2>2 DEF CreateFresh, Insert
    <3>2. DOMAIN sandboxes' \subseteq issued' /\ sandboxes' \in [DOMAIN sandboxes' -> Sandbox]
      BY <3>1 DEF With, Sandbox, States
    <3>3. DOMAIN idempotency' \subseteq Tenants \X Keys
          /\ idempotency' \in [DOMAIN idempotency' -> Ids]
      <4>1. CASE k = NoKey
        BY <2>2, <4>1 DEF CreateFresh, Insert
      <4>2. CASE k # NoKey
        BY <2>2, <4>2 DEF CreateFresh, Insert, With
      <4> QED BY <4>1, <4>2
    <3>4. reply' \in Reply
      BY <3>1 DEF Answer, Reply, Errors
    <3> QED BY <3>1, <3>2, <3>3, <3>4
  <2>3. ASSUME NEW t \in Tenants, List(t) PROVE TypeOK'
    BY <2>3 DEF List, Owned, Answer, Reply, Errors
  <2>4. ASSUME NEW t \in Tenants, NEW id \in Ids, Get(t, id) PROVE TypeOK'
    BY <2>4 DEF Get, Answer, Refuse, Reply, Errors
  <2>5. ASSUME NEW t \in Tenants, NEW id \in Ids, DeleteAbsent(t, id) PROVE TypeOK'
    BY <2>5 DEF DeleteAbsent, Refuse, Reply, Errors
  <2>6. ASSUME NEW t \in Tenants, NEW id \in Ids, DeletePresent(t, id) PROVE TypeOK'
    BY <2>6 DEF DeletePresent, Without, Answer, Reply, Errors
  <2>7. ASSUME NEW id \in Ids, MarkRunning(id) PROVE TypeOK'
    BY <2>7 DEF MarkRunning, Sandbox, States
  <2>8. CASE UNCHANGED vars
    BY <2>8 DEF vars
  <2> QED BY <2>1, <2>2, <2>3, <2>4, <2>5, <2>6, <2>7, <2>8 DEF Next
<1> QED BY <1>1, <1>2, PTL DEF Spec

(* The inductive invariant: the maps agree, and no answer was a Conflict.  *)
IInv == RecordsAreLive /\ NoStaleRecordAnswer

LEMMA InductiveStep == TypeOK /\ IInv /\ [Next]_vars => IInv'
<1> SUFFICES ASSUME TypeOK, IInv, [Next]_vars PROVE IInv'
  OBVIOUS
<1> USE DEF IInv, RecordsAreLive, NoStaleRecordAnswer
<1>1. ASSUME NEW t \in Tenants, NEW k \in Keys, CreateKnown(t, k) PROVE IInv'
  BY <1>1 DEF CreateKnown, Answer, Refuse
<1>2. ASSUME NEW t \in Tenants, NEW k \in Keys \cup {NoKey}, NEW id \in Ids,
             CreateFresh(t, k, id)
      PROVE  IInv'
  <2>1. /\ id \notin DOMAIN sandboxes
        /\ sandboxes' = With(sandboxes, id, [tenant |-> t, state |-> "Pending"])
        /\ reply' = Answer("create", t, {id})
    BY <1>2 DEF CreateFresh, Insert, TypeOK
  <2>2. CASE k = NoKey
    BY <1>2, <2>1, <2>2 DEF CreateFresh, Insert, With, Answer, TypeOK
  <2>3. CASE k # NoKey
    <3>1. idempotency' = With(idempotency, <<t, k>>, id)
      BY <1>2, <2>3 DEF CreateFresh, Insert
    <3>2. ASSUME NEW r \in DOMAIN idempotency'
          PROVE  idempotency'[r] \in DOMAIN sandboxes'
                 /\ sandboxes'[idempotency'[r]].tenant = r[1]
      <4>1. CASE r = <<t, k>>
        BY <2>1, <3>1, <4>1 DEF With
      <4>2. CASE r # <<t, k>>
        BY <2>1, <3>1, <3>2, <4>2 DEF With
      <4> QED BY <4>1, <4>2
    <3> QED BY <2>1, <3>2 DEF Answer
  <2> QED BY <2>2, <2>3
<1>3. ASSUME NEW t \in Tenants, List(t) PROVE IInv'
  BY <1>3 DEF List, Answer
<1>4. ASSUME NEW t \in Tenants, NEW id \in Ids, Get(t, id) PROVE IInv'
  BY <1>4 DEF Get, Answer, Refuse
<1>5. ASSUME NEW t \in Tenants, NEW id \in Ids, DeleteAbsent(t, id) PROVE IInv'
  BY <1>5 DEF DeleteAbsent, Refuse
<1>6. ASSUME NEW t \in Tenants, NEW id \in Ids, DeletePresent(t, id) PROVE IInv'
  BY <1>6 DEF DeletePresent, Without, Answer
<1>7. ASSUME NEW id \in Ids, MarkRunning(id) PROVE IInv'
  BY <1>7 DEF MarkRunning, TypeOK, Sandbox
<1>8. CASE UNCHANGED vars
  BY <1>8 DEF vars
<1> QED BY <1>1, <1>2, <1>3, <1>4, <1>5, <1>6, <1>7, <1>8 DEF Next

(* Every idempotency record names a stored sandbox of the record's tenant: *)
(* create and delete keep the two maps of store.rs in step.                *)
THEOREM RecordsStayLive == Spec => []RecordsAreLive
<1>1. Init => IInv
  BY DEF Init, IInv, RecordsAreLive, NoStaleRecordAnswer
<1> QED BY <1>1, TypeCorrect, InductiveStep, PTL DEF Spec, IInv

(* The Conflict("stale idempotency record") arm of create is unreachable.  *)
THEOREM ConflictUnreachable == Spec => []NoStaleRecordAnswer
<1>1. Init => IInv
  BY DEF Init, IInv, RecordsAreLive, NoStaleRecordAnswer
<1> QED BY <1>1, TypeCorrect, InductiveStep, PTL DEF Spec, IInv

(* A recorded key keeps naming its sandbox for as long as the sandbox is   *)
(* stored, so retries of create with that key agree (store.rs 46-53).      *)
THEOREM KeysStayStable == Spec => KeysAreStable
<1>1. TypeOK /\ [Next]_vars => [KeyStep]_vars
  <2> SUFFICES ASSUME TypeOK, [Next]_vars PROVE KeyStep
    OBVIOUS
  <2> USE DEF KeyStep
  <2>1. ASSUME NEW t \in Tenants, NEW k \in Keys \cup {NoKey}, NEW id \in Ids,
               CreateFresh(t, k, id)
        PROVE  KeyStep
    BY <2>1 DEF CreateFresh, Insert, With
  <2>2. ASSUME NEW t \in Tenants, NEW id \in Ids, DeletePresent(t, id) PROVE KeyStep
    BY <2>2 DEF DeletePresent, Without
  <2>3. CASE UNCHANGED idempotency
    BY <2>3
  <2> QED BY <2>1, <2>2, <2>3
          DEF Next, vars, CreateKnown, List, Get, DeleteAbsent, MarkRunning
<1> QED BY <1>1, TypeCorrect, PTL DEF Spec, KeysAreStable

(* No call answers with or disturbs a sandbox of a tenant other than the   *)
(* caller's; create needs RecordsAreLive for this, because it answers from *)
(* the record without looking at the sandbox's tenant (store.rs 46-53).    *)
THEOREM TenantsStaySeparate == Spec => TenantScoped
<1>1. TypeOK /\ RecordsAreLive /\ [Next]_vars => [TenantStep]_vars
  <2> SUFFICES ASSUME TypeOK, RecordsAreLive, [Next]_vars PROVE TenantStep \/ UNCHANGED vars
    OBVIOUS
  <2> USE DEF TenantStep
  <2>1. ASSUME NEW t \in Tenants, NEW k \in Keys, CreateKnown(t, k) PROVE TenantStep
    BY <2>1 DEF CreateKnown, Answer, Refuse, RecordsAreLive
  <2>2. ASSUME NEW t \in Tenants, NEW k \in Keys \cup {NoKey}, NEW id \in Ids,
               CreateFresh(t, k, id)
        PROVE  TenantStep
    <3>1. id \notin DOMAIN sandboxes
      BY <2>2 DEF CreateFresh, Insert, TypeOK
    <3> QED BY <2>2, <3>1 DEF CreateFresh, Insert, With, Answer
  <2>3. ASSUME NEW t \in Tenants, List(t) PROVE TenantStep
    BY <2>3 DEF List, Owned, Answer
  <2>4. ASSUME NEW t \in Tenants, NEW id \in Ids, Get(t, id) PROVE TenantStep
    BY <2>4 DEF Get, Owned, Answer, Refuse
  <2>5. ASSUME NEW t \in Tenants, NEW id \in Ids, DeleteAbsent(t, id) PROVE TenantStep
    BY <2>5 DEF DeleteAbsent, Refuse
  <2>6. ASSUME NEW t \in Tenants, NEW id \in Ids, DeletePresent(t, id) PROVE TenantStep
    BY <2>6 DEF DeletePresent, Owned, Without, Answer
  <2>7. ASSUME NEW id \in Ids, MarkRunning(id) PROVE TenantStep
    BY <2>7 DEF MarkRunning
  <2> QED BY <2>1, <2>2, <2>3, <2>4, <2>5, <2>6, <2>7 DEF Next
<1> QED BY <1>1, TypeCorrect, RecordsStayLive, PTL DEF Spec, TenantScoped

-----------------------------------------------------------------------------
(* Refinement of the contract. *)

LEMMA StepImplements ==
    TypeOK /\ RecordsAreLive /\ [Next]_vars => [Contract!StoreNext]_(Contract!storeVars)
<1> SUFFICES ASSUME TypeOK, RecordsAreLive, [Next]_vars
             PROVE  Contract!StoreNext \/ UNCHANGED Contract!storeVars
  OBVIOUS
<1> USE DEF Contract!StoreNext
<1>1. ASSUME NEW t \in Tenants, NEW k \in Keys, CreateKnown(t, k) PROVE Contract!StoreNext
  <2>1. UNCHANGED <<Stored, Named, issued>>
    BY <1>1 DEF CreateKnown, Stored, Named
  <2>2. LET i == idempotency[<<t, k>>] IN i \in DOMAIN sandboxes /\ sandboxes[i].tenant = t
    BY <1>1 DEF CreateKnown, RecordsAreLive
  <2>3. Shown' = {<<idempotency[<<t, k>>], t>>}
    BY <1>1, <2>2 DEF CreateKnown, Shown, Answer
  <2>4. <<idempotency[<<t, k>>], t>> \in Stored'
    BY <2>1, <2>2 DEF Stored
  <2> QED BY <2>1, <2>3, <2>4 DEF Contract!Read, Contract!Shows
<1>2. ASSUME NEW t \in Tenants, NEW k \in Keys \cup {NoKey}, NEW id \in Ids,
             CreateFresh(t, k, id)
      PROVE  Contract!StoreNext
  <2>1. /\ id \notin issued /\ issued' = issued \cup {id} /\ id \notin DOMAIN sandboxes
        /\ sandboxes' = With(sandboxes, id, [tenant |-> t, state |-> "Pending"])
        /\ reply' = Answer("create", t, {id})
        /\ <<t, k>> \notin DOMAIN idempotency
    BY <1>2 DEF CreateFresh, Insert, TypeOK
  <2>2. Stored' = Stored \cup {<<id, t>>}
    BY <2>1 DEF Stored, With
  <2>3. Shown' = {<<id, t>>}
    BY <2>1 DEF Shown, Answer
  <2>4. \A n \in Named : ~(n[1] = t /\ n[2] = k)
    BY <2>1 DEF Named, TypeOK
  <2>5. Named' = IF k = NoKey THEN Named ELSE Named \cup {<<t, k, id>>}
    <3>1. CASE k = NoKey
      BY <1>2, <3>1 DEF CreateFresh, Insert, Named
    <3>2. CASE k # NoKey
      <4>1. idempotency' = With(idempotency, <<t, k>>, id)
        BY <1>2, <3>2 DEF CreateFresh, Insert
      <4>2. DOMAIN idempotency' = DOMAIN idempotency \cup {<<t, k>>}
            /\ idempotency'[<<t, k>>] = id
            /\ \A r \in DOMAIN idempotency : idempotency'[r] = idempotency[r]
        BY <2>1, <4>1 DEF With
      <4>3. Named' = {<<r[1], r[2], idempotency'[r]>> : r \in DOMAIN idempotency'}
        BY DEF Named
      <4>4. Named' = Named \cup {<<<<t, k>>[1], <<t, k>>[2], id>>}
        BY <4>2, <4>3, Zenon DEF Named
      <4> QED BY <3>2, <4>4
    <3> QED BY <3>1, <3>2
  <2>6. Contract!Shows
    BY <2>2, <2>3 DEF Contract!Shows
  <2>7. Contract!Create(t, k, id)
    BY <2>1, <2>2, <2>4, <2>5, <2>6 DEF Contract!Create
  <2> QED BY <2>7, Zenon
<1>3. ASSUME NEW t \in Tenants, List(t) PROVE Contract!StoreNext
  <2>1. UNCHANGED <<Stored, Named, issued>>
    BY <1>3 DEF List, Stored, Named
  <2>2. Shown' = {s \in Stored' : s[2] = t}
    BY <1>3, <2>1 DEF List, Shown, Stored, Owned, Answer
  <2> QED BY <2>1, <2>2 DEF Contract!Read, Contract!Shows
<1>4. ASSUME NEW t \in Tenants, NEW id \in Ids, Get(t, id) PROVE Contract!StoreNext
  <2>1. UNCHANGED <<Stored, Named, issued>>
    BY <1>4 DEF Get, Stored, Named
  <2>2. Shown' = {} \/ (Shown' = {<<id, t>>} /\ <<id, t>> \in Stored)
    BY <1>4 DEF Get, Shown, Stored, Owned, Answer, Refuse
  <2> QED BY <2>1, <2>2 DEF Contract!Read, Contract!Shows
<1>5. ASSUME NEW t \in Tenants, NEW id \in Ids, DeleteAbsent(t, id) PROVE Contract!StoreNext
  <2>1. UNCHANGED <<Stored, Named, issued>> /\ Shown' = {}
    BY <1>5 DEF DeleteAbsent, Refuse, Stored, Named, Shown
  <2> QED BY <2>1 DEF Contract!Read, Contract!Shows
<1>6. ASSUME NEW t \in Tenants, NEW id \in Ids, DeletePresent(t, id) PROVE Contract!StoreNext
  <2>1. Stored' = {s \in Stored : s[1] # id}
    BY <1>6 DEF DeletePresent, Without, Stored
  <2>2. Named' = {n \in Named : n[3] # id}
    BY <1>6 DEF DeletePresent, Without, Named
  <2>3. Shown' = {} /\ issued' = issued
    BY <1>6 DEF DeletePresent, Shown, Answer
  <2> QED BY <2>1, <2>2, <2>3 DEF Contract!Remove
<1>7. ASSUME NEW id \in Ids, MarkRunning(id) PROVE UNCHANGED Contract!storeVars
  <2>1. UNCHANGED <<Named, issued, Shown>>
    BY <1>7 DEF MarkRunning, Named, Shown
  <2>2. Stored' = Stored
    BY <1>7 DEF MarkRunning, Stored, TypeOK, Sandbox
  <2> QED BY <2>1, <2>2 DEF Contract!storeVars
<1>8. CASE UNCHANGED vars
  <2>1. UNCHANGED <<Stored, Named, issued, Shown>>
    BY <1>8 DEF vars, Stored, Named, Shown
  <2> QED BY <2>1 DEF Contract!storeVars
<1> QED BY <1>1, <1>2, <1>3, <1>4, <1>5, <1>6, <1>7, <1>8 DEF Next

(* The store of store.rs implements what the trait promises, for every set *)
(* of tenants, keys and ids: its maps never disagree about a sandbox.      *)
THEOREM MemoryImplementsContract == Spec => ImplementsSandboxStore
<1>1. Init => Contract!StoreInit
  BY DEF Init, Contract!StoreInit, Stored, Named, Shown
<1> QED BY <1>1, StepImplements, TypeCorrect, RecordsStayLive, PTL
        DEF Spec, ImplementsSandboxStore, Contract!StoreSpec

-----------------------------------------------------------------------------
(* What follows from the contract alone, for every store that implements   *)
(* it: variables of their own, which no definition above constrains.       *)

VARIABLES stored, named, used, answer

Any == INSTANCE SandboxStore

(* A key names one sandbox, which is stored under the key's tenant; an id  *)
(* has one owner; and no answer shows a sandbox the caller does not own or *)
(* that is already gone (trait SandboxStore, store.rs 22-27).              *)
NamesAreStored == \A n \in named : <<n[3], n[1]>> \in stored
KeysNameOne == \A m, n \in named : m[1] = n[1] /\ m[2] = n[2] => m[3] = n[3]
OneOwner == \A r, s \in stored : r[1] = s[1] => r[2] = s[2]
AnswersAreStored == answer \subseteq stored

Promises == NamesAreStored /\ KeysNameOne /\ OneOwner /\ AnswersAreStored

(* Ids in the store have been given before; Create needs it. *)
StoredAreUsed == \A s \in stored : s[1] \in used

(* Every behaviour of the contract keeps the promises. *)
THEOREM ContractKeepsPromises == Any!StoreSpec => []Promises
<1> DEFINE CInv == Promises /\ StoredAreUsed
<1> USE DEF Promises, NamesAreStored, KeysNameOne, OneOwner, AnswersAreStored, StoredAreUsed
<1>1. Any!StoreInit => CInv
  BY DEF Any!StoreInit
<1>2. CInv /\ [Any!StoreNext]_(Any!storeVars) => CInv'
  <2> SUFFICES ASSUME CInv, [Any!StoreNext]_(Any!storeVars) PROVE CInv'
    OBVIOUS
  <2>1. ASSUME Any!Shows PROVE AnswersAreStored'
    BY <2>1 DEF Any!Shows
  <2>2. ASSUME NEW t \in Tenants, NEW k \in Keys \cup {NoKey}, NEW id \in Ids, Any!Create(t, k, id)
        PROVE  CInv'
    <3>1. AnswersAreStored'
      BY <2>1, <2>2 DEF Any!Create
    <3>2. OneOwner' /\ StoredAreUsed'
      BY <2>2 DEF Any!Create
    <3>3. NamesAreStored' /\ KeysNameOne'
      <4>1. CASE k = NoKey
        BY <2>2, <4>1 DEF Any!Create
      <4>2. CASE k # NoKey
        BY <2>2, <4>2 DEF Any!Create
      <4> QED BY <4>1, <4>2
    <3> QED BY <3>1, <3>2, <3>3
  <2>3. CASE Any!Read
    BY <2>1, <2>3 DEF Any!Read
  <2>4. ASSUME NEW id \in Ids, Any!Remove(id) PROVE CInv'
    BY <2>4 DEF Any!Remove
  <2>5. CASE UNCHANGED Any!storeVars
    BY <2>5 DEF Any!storeVars
  <2> QED BY <2>2, <2>3, <2>4, <2>5 DEF Any!StoreNext
<1> QED BY <1>1, <1>2, PTL DEF Any!StoreSpec
=============================================================================
