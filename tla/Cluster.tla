------------------------------- MODULE Cluster -------------------------------
(***************************************************************************)
(* What the operator's tools act upon, modelled from how tools/ uses it:   *)
(* the sandbox Auto Scaling group and its instances, the Kubernetes node   *)
(* objects (which outlive their instance for a while), the warm pools, the *)
(* environment of the xolis-api deployment, and the clock and the Ctrl-C   *)
(* that reach a tool.  Everything here is external to the repository.      *)
(***************************************************************************)
EXTENDS Naturals, FiniteSets

CONSTANTS MaxInstances,   \* bound: instances ever launched, stale one included
          MaxInterrupts   \* bound: KeyboardInterrupts in one behaviour

ASSUME ClusterAssumption == MaxInstances \in Nat /\ MaxInterrupts \in Nat

VARIABLES desired,     \* DesiredCapacity of the Auto Scaling group
          inst,        \* LifecycleState of each instance
          node,        \* the node object of each instance
          pool,        \* warm pools: spec.replicas and status.readyReplicas
          apiEnv,      \* profile the xolis-api deployment is configured for
          served,      \* observer: instances in service since the tool began
          interrupts,  \* KeyboardInterrupts so far
          late         \* the deadline of the wait in progress has passed

clusterVars == <<desired, inst, node, pool, apiEnv, served>>

Instances == 1..MaxInstances
Pools == {"python", "hermes"}

Listed == {i \in Instances : inst[i] \in {"Pending", "InService", "Terminating"}}
InService == {i \in Instances : inst[i] = "InService"}
Nodes == {i \in Instances : node[i] # "none"}
ReadyNodes == {i \in Instances : node[i] = "Ready"}

(* Nothing is left that costs money or that a later run could mistake for  *)
(* its own.                                                                *)
CapacityIsZero == desired = 0 /\ Listed = {} /\ Nodes = {}

(* The group is at zero; an earlier instance may have left its node object *)
(* behind, still Ready because nothing has reported otherwise yet.         *)
ClusterInit ==
    /\ desired = 0
    /\ \E stale \in SUBSET {1} :
          /\ inst = [i \in Instances |-> IF i \in stale THEN "Gone" ELSE "New"]
          /\ node = [i \in Instances |-> IF i \in stale THEN "Ready" ELSE "none"]
    /\ pool = [p \in Pools |-> [replicas |-> 0, ready |-> 0]]
    /\ apiEnv = "native"
    /\ served = {}
    /\ interrupts = 0
    /\ late = FALSE

-----------------------------------------------------------------------------
(* The group and the nodes. *)

Running == {i \in Instances : inst[i] \in {"Pending", "InService"}}

Launch(i) == /\ Cardinality(Running) < desired /\ inst[i] = "New"
             /\ \A j \in 1..(i - 1) : inst[j] # "New"
             /\ inst' = [inst EXCEPT ![i] = "Pending"]
             /\ UNCHANGED <<node, served>>

EntersService(i) == /\ inst[i] = "Pending"
                    /\ inst' = [inst EXCEPT ![i] = "InService"]
                    /\ served' = served \cup {i}
                    /\ UNCHANGED node

(* Scaled in, or replaced because its health check failed. *)
Terminates(i) == /\ \/ i \in Running /\ desired < Cardinality(Running)
                    \/ i \in InService
                 /\ inst' = [inst EXCEPT ![i] = "Terminating"]
                 /\ UNCHANGED <<node, served>>

Goes(i) == /\ inst[i] = "Terminating"
           /\ inst' = [inst EXCEPT ![i] = "Gone"]
           /\ UNCHANGED <<node, served>>

Joins(i) == /\ i \in Running /\ node[i] = "none"
            /\ node' = [node EXCEPT ![i] = "NotReady"]
            /\ UNCHANGED <<inst, served>>

BecomesReady(i) == /\ i \in Running /\ node[i] = "NotReady"
                   /\ node' = [node EXCEPT ![i] = "Ready"]
                   /\ UNCHANGED <<inst, served>>

NodeRemoved(i) == /\ inst[i] = "Gone" /\ node[i] # "none"
                  /\ node' = [node EXCEPT ![i] = "none"]
                  /\ UNCHANGED <<inst, served>>

NodeStep(i) ==
    /\ \/ Launch(i) \/ EntersService(i) \/ Terminates(i) \/ Goes(i)
       \/ Joins(i) \/ BecomesReady(i) \/ NodeRemoved(i)
    /\ UNCHANGED <<desired, pool, apiEnv, interrupts, late>>

(* The warm-pool controller: pods need a Ready node of a live instance. *)
PoolStep(p) ==
    LET host == ReadyNodes \cap InService # {}
        to == IF host THEN pool[p].replicas ELSE 0
    IN  /\ pool[p].ready # to
        /\ pool' = [pool EXCEPT ![p].ready = to]
        /\ UNCHANGED <<desired, inst, node, apiEnv, served, interrupts, late>>

-----------------------------------------------------------------------------
(* The tools' side: what commands do to the cluster, and how they end. *)

SetDesired(n) == desired' = n /\ UNCHANGED <<inst, node, pool, apiEnv, served>>
SetPool(p, n) == pool' = [pool EXCEPT ![p].replicas = n] /\ UNCHANGED <<desired, inst, node, apiEnv, served>>
SetApiEnv(e) == apiEnv' = e /\ UNCHANGED <<desired, inst, node, pool, served>>

Interrupt == interrupts < MaxInterrupts /\ interrupts' = interrupts + 1

(* One command of a tool: it succeeds; or it fails, or the operator        *)
(* interrupts it, before or after it took effect.                          *)
Outcome(effect, none, onSuccess, onError, onInterrupt) ==
    \/ effect /\ onSuccess /\ UNCHANGED interrupts
    \/ (effect \/ none) /\ onError /\ UNCHANGED interrupts
    \/ (effect \/ none) /\ onInterrupt /\ Interrupt

NoEffect == UNCHANGED clusterVars
Command(effect, onSuccess, onError, onInterrupt) ==
    Outcome(effect, NoEffect, onSuccess, onError, onInterrupt)

ClusterTypeOK ==
    /\ desired \in 0..1
    /\ inst \in [Instances -> {"New", "Pending", "InService", "Terminating", "Gone"}]
    /\ node \in [Instances -> {"none", "NotReady", "Ready"}]
    /\ pool \in [Pools -> [replicas : 0..1, ready : 0..1]]
    /\ apiEnv \in {"native", "hermes"}
    /\ served \subseteq Instances
    /\ interrupts \in 0..MaxInterrupts
    /\ late \in BOOLEAN
=============================================================================
