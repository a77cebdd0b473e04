----------------------------- MODULE Workbench -----------------------------
(***************************************************************************)
(* An operator at work: the tools of tools/ run one after another against  *)
(* the same cluster, which goes on moving while they run and in between.   *)
(* A run finds what the runs before it left behind.                        *)
(***************************************************************************)
EXTENDS AwsLab, HermesDemo, ImageBuilder

CONSTANT Plans   \* the sequences of tools the operator may run

VARIABLE plan    \* the tools still to be run

vars == <<plan, clusterVars, interrupts, late, labVars, demoVars, buildVars>>

Busy == LabRunning \/ DemoRunning \/ BuildRunning

Init == plan \in Plans /\ ClusterInit /\ LabInit /\ DemoInit /\ BuildInit

LabRest == UNCHANGED labVars
DemoRest == UNCHANGED demoVars
BuildRest == UNCHANGED buildVars
LabAside == LabReset("idle")
DemoAside == DemoReset("idle", FALSE, FALSE)

(* The next tool starts; what is known of the ended ones is put aside. *)
Begin ==
    /\ ~Busy /\ plan # <<>> /\ plan' = Tail(plan)
    /\ \/ Head(plan) \in Workflows /\ LabBegin(Head(plan)) /\ DemoAside /\ BuildRest
       \/ /\ Head(plan) \in {"demo", "demo_keep", "demo_use"}
          /\ DemoBegin(Head(plan) = "demo_use", Head(plan) = "demo_keep")
          /\ LabAside /\ BuildRest
       \/ /\ Head(plan) \in {"build", "build_keep"}
          /\ \E n \in Converted : BuildBegin(Head(plan) = "build_keep", n)
          /\ LabAside /\ DemoAside

Tool ==
    \/ (LabStep \/ LabDeadline \/ WaitFails) /\ DemoRest /\ BuildRest
    \/ (DemoStep \/ DemoDeadline \/ PollFails) /\ LabRest /\ BuildRest
    \/ (BuildStep \/ BuildDeadline \/ BuildPollFails) /\ LabRest /\ DemoRest

World ==
    \/ ((\E i \in Instances : NodeStep(i)) \/ (\E p \in Pools : PoolStep(p)))
       /\ LabRest /\ DemoRest /\ BuildRest
    \/ ClaimExpires /\ LabRest /\ BuildRest
    \/ RemoteStep /\ LabRest /\ DemoRest

Terminated == ~Busy /\ plan = <<>> /\ UNCHANGED vars

Next == Begin \/ ((Tool \/ World) /\ UNCHANGED plan) \/ Terminated

(* A tool that can take a step takes one: its commands return.  The clock  *)
(* reaches every deadline.  Nothing is assumed of the cluster.             *)
Fairness ==
    /\ WF_vars(LabStep /\ DemoRest /\ BuildRest /\ UNCHANGED plan)
    /\ WF_vars(LabDeadline /\ DemoRest /\ BuildRest /\ UNCHANGED plan)
    /\ WF_vars(DemoStep /\ LabRest /\ BuildRest /\ UNCHANGED plan)
    /\ WF_vars(DemoDeadline /\ LabRest /\ BuildRest /\ UNCHANGED plan)
    /\ WF_vars(BuildStep /\ LabRest /\ DemoRest /\ UNCHANGED plan)
    /\ WF_vars(BuildDeadline /\ LabRest /\ DemoRest /\ UNCHANGED plan)

Spec == Init /\ [][Next]_vars /\ Fairness

-----------------------------------------------------------------------------
(* Every variable of the cluster and of the tools has its type. *)
TypeOK == ClusterTypeOK /\ LabTypeOK /\ DemoTypeOK /\ BuildTypeOK

(* Every run of a tool ends, whatever the cluster does or fails to do:     *)
(* each of the waits in lab, demo and builder has a deadline, and each     *)
(* cleanup step is tried once.                                             *)
ToolsEnd == Busy ~> ~Busy
=============================================================================
