--------------------------- MODULE WorkbenchProofs ---------------------------
(* Proofs about the tools of the workbench, for every plan of an operator, *)
(* every number of instances and interrupts, and every set of images.      *)
EXTENDS Workbench, FiniteSetTheorems, TLAPS

-----------------------------------------------------------------------------
(* One tool runs at a time, and what is left of an earlier one is known    *)
(* only until the next begins.                                             *)

OneTool ==
    /\ pc # "idle" => lab = "idle" /\ ~BuildRunning
    /\ lab # "idle" => ~BuildRunning

LabMoves == LabStep \/ LabDeadline \/ WaitFails
DemoMoves == DemoStep \/ DemoDeadline \/ PollFails
BuildMoves == BuildStep \/ BuildDeadline \/ BuildPollFails

(* A stage of a lab workflow goes on, fails, or waits. *)
LEMMA LabCases ==
    ASSUME LabMoves
    PROVE  /\ LabRunning /\ lab' = lab
           /\ \/ InStage /\ LabEffect /\ Advance /\ counted' = counted /\ LabCommand
              \/ InStage /\ (LabEffect \/ NoEffect) /\ Raise /\ counted' = counted /\ LabCommand
              \/ /\ InStage /\ Op \in {"cleanup_test_resources", "smoke"}
                 /\ (Advance \/ Raise) /\ counted' = counted
                 /\ UNCHANGED <<desired, inst, node, apiEnv, served>>
                 /\ pool' \in {pool, [pool EXCEPT !["python"].ready = 0]}
              \/ InStage /\ NoEffect /\ (ReadInstances \/ ReadNodes)
              \/ InStage /\ NoEffect /\ Op \in {"wait_pool_0", "wait_pool_1"} /\ Advance
                 /\ counted' = counted
              \/ InStage /\ NoEffect /\ Waiting /\ Raise /\ counted' = counted
              \/ NoEffect /\ UNCHANGED labVars
              \/ NoEffect /\ LabEnd
<1>1. CASE LabDeadline
  BY <1>1 DEF LabDeadline, InStage, NoEffect, labVars
<1>2. CASE WaitFails
  BY <1>2 DEF WaitFails, InStage, Error, Raise, Step
<1>3. CASE LabEnd
  BY <1>3 DEF LabEnd, NoEffect, clusterVars
<1>4. CASE InStage /\ LabCommand
  BY <1>4 DEF InStage, LabCommand, Command, Outcome, Plain, Error, Advance, Raise, Step
<1>5. CASE InStage /\ cleanup_test_resources
  BY <1>5 DEF InStage, cleanup_test_resources, Command, Outcome, Plain, Error, Advance, Raise,
              Step, NoEffect, clusterVars, Waiting
<1>6. CASE InStage /\ run_service_smoke
  BY <1>6 DEF InStage, run_service_smoke, Command, Outcome, Sampled, Advance, Raise,
              Step, NoEffect, clusterVars, Waiting
<1>7. CASE InStage /\ ReadInstances
  BY <1>7 DEF InStage, ReadInstances, NoEffect, clusterVars
<1>8. CASE InStage /\ ReadNodes
  BY <1>8 DEF InStage, ReadNodes, NoEffect, Advance, Raise, Step, clusterVars
<1>9. ASSUME InStage, NEW n \in 0..1, PollPool(n)
      PROVE  /\ LabRunning /\ lab' = lab /\ NoEffect /\ Waiting
             /\ Op \in {"wait_pool_0", "wait_pool_1"} /\ counted' = counted
             /\ Advance \/ Raise
  BY <1>9 DEF InStage, PollPool, NoEffect, Plain, Error, Advance, Raise, Step, Waiting
<1> QED BY <1>1, <1>2, <1>3, <1>4, <1>5, <1>6, <1>7, <1>8, <1>9 DEF LabMoves, LabStep

LEMMA DemoCases ==
    ASSUME DemoMoves
    PROVE  DemoRunning /\ pc' # "idle" /\ UNCHANGED <<desired, inst, node, served>>
<1> USE DEF DemoRunning, Goto, Passes, Raises, NoEffect, clusterVars, Command, Outcome, Does
<1>1. CASE DemoDeadline \/ PollFails
  BY <1>1 DEF DemoDeadline, PollFails, Polling, demoVars
<1>2. CASE prepare_runtime_class \/ ensure_prerequisites \/ verify_prepared_environment
           \/ apply_egress \/ deployment_environment
  BY <1>2 DEF prepare_runtime_class, ensure_prerequisites, verify_prepared_environment,
              apply_egress, deployment_environment
<1>3. CASE prepare_profile \/ set_env \/ rollout_status \/ warm
  BY <1>3 DEF prepare_profile, set_env, rollout_status, warm, SetPool, SetApiEnv
<1>4. CASE wait_for_warm_pool \/ wait_running
  BY <1>4 DEF wait_for_warm_pool, wait_running, Polls
<1>5. CASE PortForward \/ create \/ interactive_session
  BY <1>5 DEF PortForward, create, interactive_session
<1>6. CASE delete_sandbox \/ PortForwardExit
  BY <1>6 DEF delete_sandbox, PortForwardExit, Cleans, Warns, CutShort
<1>7. CASE scale_to_zero \/ restore_api
  BY <1>7 DEF scale_to_zero, restore_api, Cleans, Warns, CutShort, SetPool, SetApiEnv
<1> QED BY <1>1, <1>2, <1>3, <1>4, <1>5, <1>6, <1>7 DEF DemoMoves, DemoStep

LEMMA BuildCases ==
    ASSUME BuildMoves
    PROVE  BuildRunning /\ step' # "idle" /\ UNCHANGED clusterVars
<1> USE DEF BuildRunning, Next_, Then, Fail, Outcome, Frame
<1>1. CASE BuildDeadline \/ BuildPollFails
  BY <1>1 DEF BuildDeadline, BuildPollFails, Polled, buildVars
<1>2. CASE upload_source \/ lookup \/ launch_instance \/ send_build
  BY <1>2 DEF upload_source, lookup, launch_instance, send_build, Calls
<1>3. CASE wait_for_instance \/ wait_for_command \/ image_references
  BY <1>3 DEF wait_for_instance, wait_for_command, image_references, Poll
<1>4. CASE terminate_instances
  BY <1>4 DEF terminate_instances, Cleanup, Skips, Leaves
<1>5. CASE verify_terminated("wait_terminated", "verify") \/ verify_terminated("verify", "remove")
  BY <1>5 DEF verify_terminated, Leaves
<1>6. CASE remove_source \/ delete_objects \/ BuildEnds
  BY <1>6 DEF remove_source, delete_objects, BuildEnds, Cleanup, Skips, Leaves
<1> QED BY <1>1, <1>2, <1>3, <1>4, <1>5, <1>6 DEF BuildMoves, BuildStep

(* The parts of a step: the next tool begins, one tool moves, or the world *)
(* does.                                                                   *)
LEMMA StepCases ==
    ASSUME [Next]_vars
    PROVE  \/ Begin
           \/ LabMoves /\ DemoRest /\ BuildRest
           \/ DemoMoves /\ LabRest /\ BuildRest
           \/ BuildMoves /\ LabRest /\ DemoRest
           \/ (\E i \in Instances : NodeStep(i)) /\ LabRest /\ DemoRest /\ BuildRest
           \/ (\E p \in Pools : PoolStep(p)) /\ LabRest /\ DemoRest /\ BuildRest
           \/ ClaimExpires /\ LabRest /\ BuildRest
           \/ RemoteStep /\ LabRest /\ DemoRest
           \/ UNCHANGED vars
BY DEF Next, Tool, World, Terminated, LabMoves, DemoMoves, BuildMoves

LEMMA OneToolStep == OneTool /\ [Next]_vars => OneTool'
<1> SUFFICES ASSUME OneTool, [Next]_vars PROVE OneTool'
  OBVIOUS
<1> USE DEF OneTool
<1>1. CASE UNCHANGED <<pc, lab, step>>
  BY <1>1 DEF BuildRunning
<1>2. CASE LabMoves /\ DemoRest /\ BuildRest
  BY <1>2, LabCases DEF DemoRest, BuildRest, demoVars, buildVars, LabRunning, BuildRunning
<1>3. CASE DemoMoves /\ LabRest /\ BuildRest
  BY <1>3, DemoCases DEF LabRest, BuildRest, labVars, buildVars, DemoRunning, BuildRunning
<1>4. CASE BuildMoves /\ LabRest /\ DemoRest
  BY <1>4, BuildCases DEF LabRest, DemoRest, labVars, demoVars, BuildRunning
<1>5. CASE Begin
  <2>1. ~BuildRunning
    BY <1>5 DEF Begin, Busy
  <2>2. CASE LabBegin(Head(plan)) /\ DemoAside /\ BuildRest
    BY <2>1, <2>2 DEF DemoAside, DemoReset, BuildRest, buildVars, BuildRunning
  <2>3. CASE DemoBegin(Head(plan) = "demo_use", Head(plan) = "demo_keep") /\ LabAside /\ BuildRest
    BY <2>1, <2>3 DEF LabAside, LabReset, BuildRest, buildVars, BuildRunning
  <2>4. CASE LabAside /\ DemoAside
    BY <2>4 DEF LabAside, LabReset, DemoAside, DemoReset
  <2> QED BY <1>5, <2>2, <2>3, <2>4 DEF Begin
<1>6. CASE ClaimExpires /\ LabRest /\ BuildRest
  BY <1>1, <1>6 DEF ClaimExpires, LabRest, BuildRest, labVars, buildVars
<1>7. CASE RemoteStep /\ LabRest /\ DemoRest
  BY <1>1, <1>7 DEF RemoteStep, LabRest, DemoRest, labVars, demoVars
<1>8. CASE LabRest /\ DemoRest /\ BuildRest
  BY <1>1, <1>8 DEF LabRest, DemoRest, BuildRest, labVars, demoVars, buildVars
<1>9. CASE UNCHANGED vars
  BY <1>1, <1>9 DEF vars, labVars, demoVars, buildVars
<1> QED BY <1>2, <1>3, <1>4, <1>5, <1>6, <1>7, <1>8, <1>9, StepCases

-----------------------------------------------------------------------------
(* The Hermes demo. *)

Envs == {"native", "hermes"}
PoolsOK == pool \in [Pools -> [replicas : 0..1, ready : 0..1]] /\ apiEnv \in Envs

Setup == {"runtime_class", "prerequisites", "profile", "egress", "read_env", "set_env"}
Prepared == {"wait_pool", "forward", "create", "running", "session"}
Finally == {"delete", "unforward", "scale", "restore", "done"}
Replicas == pool["hermes"].replicas

(* Which steps each way of calling the demo takes. *)
Ways ==
    /\ use => pc \notin {"runtime_class", "profile", "read_env", "set_env", "rollout", "warm",
                         "restore"}
    /\ ~use => pc # "verify"
    /\ keep => pc # "restore"
    /\ pc \notin Finally => failedAt = "none"

(* What a demo that prepares its own environment has done to it so far:    *)
(* nothing, set the environment without knowing the original one, or all   *)
(* of it.                                                                  *)
Preparing ==
    ~use =>
        /\ pc \in Setup => apiEnv = before /\ original = "none"
        /\ pc \in {"set_env", "rollout"} => current = before
        /\ pc = "rollout" => original = "none" /\ apiEnv = "hermes"
        /\ pc \in {"warm"} \cup Prepared => original = before /\ apiEnv = "hermes"
        /\ pc \in Prepared => Replicas = 1

(* What the finally block finds and leaves. *)
CleaningUp ==
    /\ ~use /\ pc \in Finally \ {"done"} /\ failedAt \notin {"set_env", "rollout"} =>
          original = before \/ (original = "none" /\ apiEnv = before)
    /\ keep /\ ~use /\ pc \in Finally /\ failedAt \in {"none", "session"} =>
          apiEnv = "hermes" /\ Replicas = 1
    /\ ~cut /\ ~warned /\ pc \in Finally \ {"delete"} => (known => ~claim)
    /\ ~cut /\ pc \in {"scale", "restore", "done"} => fwd # "running"
    /\ ~cut /\ ~warned /\ ~use /\ ~keep /\ pc \in {"restore", "done"} => Replicas = 0
    /\ ~cut /\ ~warned /\ ~use /\ ~keep /\ pc = "done" =>
          (failedAt \notin {"set_env", "rollout"} => apiEnv = before)

DemoInv ==
    /\ before \in Envs /\ {current, original} \subseteq Envs \cup {"none"}
    /\ Ways /\ Preparing /\ CleaningUp

LEMMA DemoPools ==
    ASSUME PoolsOK, DemoInv, DemoMoves PROVE PoolsOK'
<1> USE DEF PoolsOK, Pools, Envs, NoEffect, clusterVars, Command, Outcome, Does
<1>1. CASE UNCHANGED <<pool, apiEnv>>
  BY <1>1
<1>2. CASE DemoDeadline \/ PollFails
  BY <1>1, <1>2 DEF DemoDeadline, PollFails
<1>3. CASE prepare_runtime_class \/ ensure_prerequisites \/ verify_prepared_environment
           \/ apply_egress \/ deployment_environment \/ rollout_status
  BY <1>1, <1>3 DEF prepare_runtime_class, ensure_prerequisites, verify_prepared_environment,
                    apply_egress, deployment_environment, rollout_status
<1>4. CASE prepare_profile \/ set_env \/ warm
  BY <1>4 DEF prepare_profile, set_env, warm, SetPool, SetApiEnv
<1>5. CASE wait_for_warm_pool \/ wait_running
  BY <1>1, <1>5 DEF wait_for_warm_pool, wait_running, Polls
<1>6. CASE PortForward \/ interactive_session \/ delete_sandbox \/ PortForwardExit
  BY <1>1, <1>6 DEF PortForward, interactive_session, delete_sandbox, PortForwardExit
<1>7. CASE create
  BY <1>7 DEF create
<1>8. CASE scale_to_zero
  BY <1>8 DEF scale_to_zero, SetPool
<1>9. CASE restore_api
  BY <1>9 DEF restore_api, SetApiEnv, DemoInv
<1> QED BY <1>2, <1>3, <1>4, <1>5, <1>6, <1>7, <1>8, <1>9 DEF DemoMoves, DemoStep

LEMMA LabPools ==
    ASSUME PoolsOK, LabMoves PROVE PoolsOK'
<1> USE DEF PoolsOK, Pools, Envs
<1>1. CASE NoEffect
  BY <1>1 DEF NoEffect, clusterVars
<1>2. CASE LabEffect /\ LabCommand
  BY <1>2 DEF LabEffect, LabCommand, update_kubeconfig, scale_autoscaling_group, set_warm_pool,
              Deploy, NoEffect, clusterVars, SetDesired, SetPool
<1>3. CASE UNCHANGED apiEnv /\ pool' \in {pool, [pool EXCEPT !["python"].ready = 0]}
  BY <1>3
<1> QED BY <1>1, <1>2, <1>3, LabCases

LEMMA DemoMovesHold ==
    ASSUME PoolsOK, DemoInv, DemoMoves PROVE DemoInv'
<1> USE DEF PoolsOK, Pools, Replicas, DemoInv, Ways, Preparing, CleaningUp, Setup, Prepared, Finally, Envs,
            Goto, Passes, Raises, Locals, NoRead, NoEffect, clusterVars, Command, Outcome, Does
<1>1. CASE DemoDeadline \/ PollFails
  BY <1>1 DEF DemoDeadline, PollFails, Polling, demoVars
<1>2. CASE prepare_runtime_class
  BY <1>2 DEF prepare_runtime_class
<1>3. CASE ensure_prerequisites
  BY <1>3 DEF ensure_prerequisites
<1>4. CASE verify_prepared_environment
  BY <1>4 DEF verify_prepared_environment
<1>5. CASE prepare_profile
  BY <1>5 DEF prepare_profile, SetPool
<1>6. CASE apply_egress
  BY <1>6 DEF apply_egress
<1>7. CASE deployment_environment
  BY <1>7 DEF deployment_environment
<1>8. CASE set_env
  BY <1>8 DEF set_env, SetApiEnv
<1>9. CASE rollout_status
  BY <1>9 DEF rollout_status
<1>10. CASE warm
  BY <1>10 DEF warm, SetPool
<1>11. CASE wait_for_warm_pool
  BY <1>11 DEF wait_for_warm_pool, Polls
<1>12. CASE PortForward
  BY <1>12 DEF PortForward
<1>13. CASE create
  BY <1>13 DEF create
<1>14. CASE wait_running
  BY <1>14 DEF wait_running, Polls
<1>15. CASE interactive_session
  BY <1>15 DEF interactive_session
<1> USE DEF Cleans, Warns, CutShort, Kept
<1>16. CASE delete_sandbox
  BY <1>16 DEF delete_sandbox
<1>17. CASE PortForwardExit
  BY <1>17 DEF PortForwardExit
<1>18. CASE scale_to_zero
  BY <1>18 DEF scale_to_zero, Restores, SetPool
<1>19. CASE restore_api
  BY <1>19 DEF restore_api, SetApiEnv
<1> QED BY <1>1, <1>2, <1>3, <1>4, <1>5, <1>6, <1>7, <1>8, <1>9, <1>10, <1>11, <1>12, <1>13,
           <1>14, <1>15, <1>16, <1>17, <1>18, <1>19 DEF DemoMoves, DemoStep

LEMMA DemoStepHolds == OneTool /\ PoolsOK /\ DemoInv /\ [Next]_vars => PoolsOK' /\ DemoInv'
<1> SUFFICES ASSUME OneTool, PoolsOK, DemoInv, [Next]_vars PROVE PoolsOK' /\ DemoInv'
  OBVIOUS
<1>1. ASSUME UNCHANGED demoVars, UNCHANGED <<pool, apiEnv>> PROVE PoolsOK' /\ DemoInv'
  BY <1>1 DEF demoVars, PoolsOK, DemoInv, Ways, Preparing, CleaningUp, Replicas
<1>2. CASE DemoMoves
  BY <1>2, DemoPools, DemoMovesHold
<1>3. CASE LabMoves /\ DemoRest
  <2>1. pc = "idle"
    BY <1>3, LabCases DEF OneTool, LabRunning
  <2> QED BY <1>3, <2>1, LabPools
          DEF DemoRest, demoVars, DemoInv, Ways, Preparing, CleaningUp, Setup, Prepared, Finally
<1>4. CASE BuildMoves /\ DemoRest
  BY <1>1, <1>4, BuildCases DEF DemoRest, clusterVars
<1>5. ASSUME NEW i \in Instances, NodeStep(i), DemoRest PROVE PoolsOK' /\ DemoInv'
  BY <1>1, <1>5 DEF NodeStep, DemoRest
<1>6. ASSUME NEW p \in Pools, PoolStep(p), DemoRest PROVE PoolsOK' /\ DemoInv'
  <2>1. PoolsOK' /\ apiEnv' = apiEnv /\ Replicas' = Replicas
    BY <1>6 DEF PoolStep, PoolsOK, Pools, Replicas
  <2> QED BY <1>6, <2>1 DEF DemoRest, demoVars, DemoInv, Ways, Preparing, CleaningUp
<1>7. CASE ClaimExpires
  BY <1>7 DEF ClaimExpires, clusterVars, PoolsOK, DemoInv, Ways, Preparing, CleaningUp, Replicas
<1>8. CASE RemoteStep /\ DemoRest
  BY <1>1, <1>8 DEF RemoteStep, DemoRest, clusterVars
<1>9. CASE UNCHANGED vars
  BY <1>1, <1>9 DEF vars, clusterVars
<1>10. CASE Begin
  <2>1. UNCHANGED <<pool, apiEnv>>
    BY <1>10 DEF Begin, LabBegin, DemoBegin, BuildBegin, clusterVars
  <2>2. PoolsOK'
    BY <2>1 DEF PoolsOK
  <2>3. ASSUME pc' \in {"idle", "prerequisites"} \/ (pc' = "runtime_class" /\ ~use'),
               current' = "none", original' = "none", failedAt' = "none", before' = apiEnv
        PROVE  DemoInv'
    BY <2>1, <2>3 DEF PoolsOK, DemoInv, Ways, Preparing, CleaningUp, Setup, Prepared, Finally, Envs
  <2>4. CASE DemoAside
    BY <2>2, <2>3, <2>4 DEF DemoAside, DemoReset
  <2>5. CASE DemoBegin(Head(plan) = "demo_use", Head(plan) = "demo_keep")
    BY <2>2, <2>3, <2>5 DEF DemoBegin, DemoReset
  <2> QED BY <1>10, <2>2, <2>4, <2>5 DEF Begin
<1> QED BY <1>2, <1>3, <1>4, <1>5, <1>6, <1>7, <1>8, <1>9, <1>10, StepCases

LEMMA DemoInvariant == Spec => [](OneTool /\ PoolsOK /\ DemoInv)
<1>1. Init => OneTool /\ PoolsOK /\ DemoInv
  BY DEF Init, ClusterInit, DemoInit, LabInit, BuildInit, OneTool, BuildRunning, PoolsOK, Pools,
         Envs, DemoInv, Ways, Preparing, CleaningUp, Setup, Prepared, Finally
<1> QED BY <1>1, OneToolStep, DemoStepHolds, PTL DEF Spec

(* Whatever failed or was interrupted, and whatever the operator ran       *)
(* before, a demo that reports no failing cleanup has undone what it did   *)
(* (hermes_demo.py 602-622).                                               *)
THEOREM DemoLeavesNothing == Spec => []DemoCleansUp
<1>1. DemoInv => DemoCleansUp
  BY DEF DemoInv, CleaningUp, Finally, DemoCleansUp, Replicas
<1> QED BY <1>1, DemoInvariant, PTL

(* What --keep-prepared keeps stays there until another tool begins, also  *)
(* when the session or the cleanup failed (hermes_demo.py 615).            *)
THEOREM DemoKeepsPrepared == Spec => []KeptStaysPrepared
<1>1. DemoInv => KeptStaysPrepared
  BY DEF DemoInv, CleaningUp, Finally, KeptStaysPrepared, Replicas
<1> QED BY <1>1, DemoInvariant, PTL

(* No step of a demo with --use-prepared changes the API environment or    *)
(* the size of the pool, and while it runs nothing else does               *)
(* (tools/README.md, hermes_demo.py 602-622).                              *)
THEOREM UsePreparedStaysReadOnly == Spec => UsePreparedIsReadOnly
<1>1. ASSUME OneTool, PoolsOK, DemoInv, [Next]_vars
      PROVE  [UsePreparedStep]_<<clusterVars, demoVars>>
  <2> SUFFICES ASSUME DemoRunning, use
               PROVE  apiEnv' = apiEnv /\ pool'["hermes"].replicas = pool["hermes"].replicas
    BY DEF UsePreparedStep
  <2>1. lab = "idle" /\ ~BuildRunning /\ pc # "idle"
    BY <1>1 DEF OneTool, DemoRunning
  <2>2. pc \notin {"runtime_class", "profile", "read_env", "set_env", "rollout", "warm", "restore"}
    BY <1>1 DEF DemoInv, Ways
  <2>3. CASE UNCHANGED clusterVars
    BY <2>3 DEF clusterVars
  <2>4. CASE DemoMoves
    <3> USE DEF NoEffect, clusterVars, Command, Outcome, Does
    <3>1. CASE DemoDeadline \/ PollFails
      BY <3>1 DEF DemoDeadline, PollFails
    <3>2. CASE prepare_runtime_class \/ prepare_profile \/ deployment_environment \/ set_env
               \/ rollout_status \/ warm \/ restore_api
      BY <2>2, <3>2 DEF prepare_runtime_class, prepare_profile, deployment_environment, set_env,
                        rollout_status, warm, restore_api
    <3>3. CASE ensure_prerequisites \/ verify_prepared_environment \/ apply_egress
      BY <3>3 DEF ensure_prerequisites, verify_prepared_environment, apply_egress
    <3>4. CASE wait_for_warm_pool \/ wait_running
      BY <3>4 DEF wait_for_warm_pool, wait_running, Polls
    <3>5. CASE PortForward \/ interactive_session \/ delete_sandbox \/ PortForwardExit
      BY <3>5 DEF PortForward, interactive_session, delete_sandbox, PortForwardExit
    <3>6. CASE create
      BY <1>1, <3>6 DEF create, PoolsOK, Pools
    <3>7. CASE scale_to_zero
      BY <3>7 DEF scale_to_zero, Restores
    <3> QED BY <2>4, <3>1, <3>2, <3>3, <3>4, <3>5, <3>6, <3>7 DEF DemoMoves, DemoStep
  <2>5. ~Begin /\ ~LabMoves /\ ~BuildMoves
    BY <2>1, LabCases, BuildCases DEF Begin, Busy, LabRunning
  <2>6. ASSUME NEW i \in Instances, NodeStep(i) PROVE UNCHANGED <<pool, apiEnv>>
    BY <2>6 DEF NodeStep
  <2>7. ASSUME NEW p \in Pools, PoolStep(p)
        PROVE  apiEnv' = apiEnv /\ pool'["hermes"].replicas = pool["hermes"].replicas
    BY <1>1, <2>7 DEF PoolStep, PoolsOK, Pools
  <2>8. CASE ClaimExpires \/ RemoteStep
    BY <2>3, <2>8 DEF ClaimExpires, RemoteStep
  <2>9. CASE UNCHANGED vars
    BY <2>3, <2>9 DEF vars
  <2> QED BY <1>1, <2>4, <2>5, <2>6, <2>7, <2>8, <2>9, StepCases
<1> QED BY <1>1, DemoInvariant, PTL DEF Spec, UsePreparedIsReadOnly

-----------------------------------------------------------------------------
(* The image builder. *)

CleanupSteps == {"terminate", "wait_terminated", "verify", "remove", "delete_objects", "end",
                 "done"}

(* What cleanup has achieved, step by step. *)
Removed ==
    /\ ~source_uri => objects = {}
    /\ step \in {"remove", "delete_objects", "end", "done"} /\ ~dirty /\ RemovesInstance =>
          ec2 = "terminated"
    /\ step \in {"end", "done"} /\ ~dirty => objects = {}

(* The script has run up to line and every command before it succeeded; it *)
(* is sent only once.                                                      *)
Executed ==
    /\ nydus \subseteq Images
    /\ line \in Nat \ {0}
    /\ step \in {"upload", "lookup", "launch", "status_ok", "register", "send"} =>
          invocation = "none"
    /\ invocation \in {"none", "Pending"} => line = 1
    /\ invocation \in {"InProgress", "Success"} =>
          \A k \in 1..Len(build_commands) : k < line => build_commands[k] \in registry
    /\ invocation = "Success" => line = Len(build_commands) + 1

(* A build that has not failed reaches the references only after the       *)
(* script succeeded, and cleanup only after the references were read.      *)
Referenced ==
    /\ buildExit # "error" /\ step \in CleanupSteps \cup {"references"} => invocation = "Success"
    /\ buildExit # "error" /\ step \in CleanupSteps => Tags \subseteq registry /\ references = Tags
    /\ buildExit = "ok" => step = "done"

BuildInv == Removed /\ Executed /\ Referenced

(* Every image that is converted is also checked by the script. *)
LEMMA SeqCovers ==
    ASSUME NEW S, IsFiniteSet(S)
    PROVE  /\ Cardinality(S) \in Nat
           /\ SetToSeq(S) \in [1..Cardinality(S) -> S]
           /\ \A x \in S : \E n \in 1..Cardinality(S) : SetToSeq(S)[n] = x
<1> DEFINE f == SetToSeq(S)
           D == 1..Cardinality(S)
<1>1. Cardinality(S) \in Nat /\ Injection(D, S) # {}
  BY FS_CardinalityType DEF ExistsBijection, Bijection
<1>2. f \in Injection(D, S)
  BY <1>1 DEF SetToSeq, Injection
<1>3. IsFiniteSet(D) /\ Cardinality(D) = Cardinality(S)
  BY <1>1, FS_Interval
<1>4. f \in Surjection(D, S)
  BY <1>2, <1>3, FS_Injection
<1> QED BY <1>1, <1>4 DEF Surjection

LEMMA ScriptChecks ==
    ASSUME nydus \subseteq Images
    PROVE  /\ Len(build_commands) \in Nat
           /\ \A i \in nydus : \E k \in 1..Len(build_commands) : build_commands[k] = <<"checked", i>>
<1> DEFINE U == {"setup", "oci", "nydus", "checked"} \X (Images \cup {"docker", "nydusify"})
           q == SetToSeq(nydus)
           A == <<<<"setup", "docker">>>>
           B == [n \in 1..Cardinality(Images) |-> <<"oci", SetToSeq(Images)[n]>>]
           N == IF nydus = {} THEN <<>> ELSE <<<<"setup", "nydusify">>>>
           C == [n \in 1..(2 * Len(q)) |->
                    <<IF n % 2 = 1 THEN "nydus" ELSE "checked", q[(n + 1) \div 2]>>]
<1>1. build_commands = A \o B \o N \o C
  BY DEF build_commands
<1>2. IsFiniteSet(Images) /\ IsFiniteSet(nydus)
  BY ImagesAssumption, FS_Subset
<1>3. A \in Seq(U) /\ N \in Seq(U)
  OBVIOUS
<1>4. B \in Seq(U)
  <2>1. Cardinality(Images) \in Nat /\ SetToSeq(Images) \in [1..Cardinality(Images) -> Images]
    BY <1>2, SeqCovers
  <2> QED BY <2>1
<1>5. Cardinality(nydus) \in Nat /\ q \in [1..Cardinality(nydus) -> nydus]
      /\ \A i \in nydus : \E n \in 1..Cardinality(nydus) : q[n] = i
  BY <1>2, SeqCovers
<1>6. Len(q) = Cardinality(nydus)
  BY <1>5
<1> HIDE DEF A, B, N, q
<1>7. C \in Seq(U) /\ Len(C) = 2 * Len(q)
  <2>1. \A n \in 1..(2 * Len(q)) : (n + 1) \div 2 \in 1..Len(q)
    BY <1>5, <1>6
  <2>2. \A n \in 1..(2 * Len(q)) : q[(n + 1) \div 2] \in Images
    BY <1>5, <1>6, <2>1
  <2> QED BY <1>5, <1>6, <2>2
<1>8. \A n \in 1..Len(q) : 2 * n \in 1..Len(C) /\ C[2 * n] = <<"checked", q[n]>>
  <2> SUFFICES ASSUME NEW n \in 1..Len(q)
               PROVE  2 * n \in 1..Len(C) /\ C[2 * n] = <<"checked", q[n]>>
    OBVIOUS
  <2>1. n \in Nat /\ (2 * n) % 2 = 0 /\ (2 * n + 1) \div 2 = n /\ 2 * n \in 1..(2 * Len(q))
    BY <1>5, <1>6
  <2> QED BY <1>7, <2>1
<1> HIDE DEF C, U
<1> DEFINE P == A \o B \o N
<1>9. P \in Seq(U)
  BY <1>3, <1>4
<1> HIDE DEF P
<1>10. /\ Len(P) \in Nat /\ Len(C) \in Nat /\ Len(build_commands) = Len(P) + Len(C)
       /\ \A k \in 1..Len(C) : build_commands[Len(P) + k] = C[k]
  <2>1. build_commands = P \o C
    BY <1>1 DEF P
  <2>2. C \in Seq(U)
    BY <1>7
  <2>3. Len(P) \in Nat /\ Len(C) \in Nat /\ Len(P \o C) = Len(P) + Len(C)
    BY <1>9, <2>2
  <2>4. ASSUME NEW k \in 1..Len(C) PROVE (P \o C)[Len(P) + k] = C[k]
    BY <1>9, <2>2, <2>3, <2>4
  <2> QED BY <2>1, <2>3, <2>4
<1>11. ASSUME NEW i \in nydus
       PROVE  \E k \in 1..Len(build_commands) : build_commands[k] = <<"checked", i>>
  <2>1. PICK n \in 1..Len(q) : q[n] = i
    BY <1>5, <1>6
  <2>2. 2 * n \in 1..Len(C) /\ C[2 * n] = <<"checked", i>>
    BY <1>8, <2>1
  <2>3. Len(P) + 2 * n \in 1..Len(build_commands)
    BY <1>10, <2>2
  <2> QED BY <1>10, <2>2, <2>3
<1>12. Len(build_commands) \in Nat
  BY <1>10
<1> QED BY <1>11, <1>12

(* The script and what it pushed do not change while the tool moves. *)
LEMMA ScriptKept ==
    ASSUME Executed, UNCHANGED <<nydus, line, registry, invocation>>,
           step' \in {"upload", "lookup", "launch", "status_ok", "register", "send"} =>
              invocation = "none"
    PROVE  Executed'
<1>1. build_commands' = build_commands
  BY DEF build_commands
<1> QED BY <1>1 DEF Executed

LEMMA BuildMovesHold ==
    ASSUME BuildInv, BuildMoves PROVE BuildInv'
<1> USE DEF Next_, Then, Fail, Outcome, Frame, NoCall, aws
<1>1. UNCHANGED <<nydus, line, registry, keepInst>>
  <2>1. CASE BuildDeadline
    BY <2>1 DEF BuildDeadline, buildVars
  <2> QED BY <2>1 DEF BuildMoves, BuildStep, BuildPollFails, upload_source, lookup,
             launch_instance, wait_for_instance, send_build, wait_for_command, image_references,
             terminate_instances, verify_terminated, remove_source, delete_objects, BuildEnds,
             Calls, Poll, Cleanup, Skips
<1>2. Removed'
  <2> USE DEF BuildInv, Removed, RemovesInstance
  <2>1. CASE BuildDeadline \/ BuildPollFails
    BY <2>1 DEF BuildDeadline, BuildPollFails, Polled, buildVars
  <2>2. CASE upload_source \/ lookup \/ launch_instance \/ send_build
    BY <2>2 DEF upload_source, lookup, launch_instance, send_build, Calls
  <2>3. CASE wait_for_instance \/ wait_for_command \/ image_references
    BY <2>3 DEF wait_for_instance, wait_for_command, image_references, Poll
  <2>4. CASE terminate_instances
    BY <2>4 DEF terminate_instances, Cleanup, Skips, Leaves
  <2>5. CASE verify_terminated("wait_terminated", "verify") \/ verify_terminated("verify", "remove")
    BY <2>5 DEF verify_terminated, Leaves
  <2>6. CASE remove_source
    BY <2>6 DEF remove_source, Cleanup, Skips, Leaves
  <2>7. CASE delete_objects
    BY <2>7 DEF delete_objects, Leaves
  <2>8. CASE BuildEnds
    BY <2>8 DEF BuildEnds
  <2> QED BY <2>1, <2>2, <2>3, <2>4, <2>5, <2>6, <2>7, <2>8 DEF BuildMoves, BuildStep
<1>3. Executed' /\ Referenced'
  <2>1. Tags' = Tags
    BY <1>1 DEF Tags
  <2>2. ASSUME UNCHANGED invocation,
               step' \in {"upload", "lookup", "launch", "status_ok", "register", "send"} =>
                  invocation = "none"
        PROVE  Executed'
    BY <1>1, <2>2, ScriptKept DEF BuildInv
  <2> USE DEF BuildInv, Referenced, CleanupSteps
  <2>3. CASE BuildDeadline \/ BuildPollFails
    BY <1>1, <2>1, <2>2, <2>3 DEF BuildDeadline, BuildPollFails, Polled, buildVars, Executed
  <2>4. CASE upload_source \/ lookup \/ launch_instance
    BY <1>1, <2>1, <2>2, <2>4 DEF upload_source, lookup, launch_instance, Calls, Executed
  <2>5. CASE send_build
    <3>1. build_commands' = build_commands
      BY <1>1 DEF build_commands
    <3>2. step = "send" /\ step' \in {"wait_command", "terminate"}
          /\ (step' = "terminate" => buildExit' = "error")
          /\ (step' = "wait_command" => buildExit' = buildExit)
          /\ invocation' \in {invocation, "Pending"}
      BY <2>5 DEF send_build, Calls
    <3>3. Executed'
      BY <1>1, <3>1, <3>2 DEF Executed
    <3>4. Referenced'
      BY <3>2
    <3> QED BY <3>3, <3>4
  <2>6. CASE wait_for_instance \/ wait_for_command
    BY <1>1, <2>1, <2>2, <2>6 DEF wait_for_instance, wait_for_command, Poll, Executed
  <2>7. CASE image_references
    BY <1>1, <2>1, <2>2, <2>7 DEF image_references
  <2>8. CASE terminate_instances
    BY <1>1, <2>1, <2>2, <2>8 DEF terminate_instances, Cleanup, Skips, Leaves
  <2>9. CASE verify_terminated("wait_terminated", "verify") \/ verify_terminated("verify", "remove")
    BY <1>1, <2>1, <2>2, <2>9 DEF verify_terminated, Leaves
  <2>10. CASE remove_source
    BY <1>1, <2>1, <2>2, <2>10 DEF remove_source, Cleanup, Skips, Leaves
  <2>11. CASE delete_objects
    BY <1>1, <2>1, <2>2, <2>11 DEF delete_objects, Leaves
  <2>12. CASE BuildEnds
    BY <1>1, <2>1, <2>2, <2>12 DEF BuildEnds
  <2> QED BY <2>3, <2>4, <2>5, <2>6, <2>7, <2>8, <2>9, <2>10, <2>11, <2>12 DEF BuildMoves, BuildStep
<1> QED BY <1>2, <1>3 DEF BuildInv

LEMMA RemoteHolds ==
    ASSUME BuildInv, RemoteStep PROVE BuildInv'
<1>1. /\ UNCHANGED <<step, keepInst, nydus, instance_id, source_uri, objects, references, dirty, buildExit>>
      /\ build_commands' = build_commands /\ Tags' = Tags
  BY DEF RemoteStep, build_commands, Tags
<1>2. Len(build_commands) \in Nat
  BY ScriptChecks DEF BuildInv, Executed
<1>3. Removed'
  BY <1>1 DEF BuildInv, Removed, RemovesInstance, RemoteStep, ScriptLine, ScriptEnds, Invoked,
              InstanceMoves, ScriptRuns
<1>4. ASSUME registry \subseteq registry', invocation = "Success" => invocation' = "Success"
      PROVE  Referenced'
  BY <1>1, <1>4 DEF BuildInv, Referenced
<1>5. CASE ScriptLine
  <2>1. Executed'
    <3>1. CASE registry' = registry \cup {build_commands[line]} /\ UNCHANGED invocation
      BY <1>1, <1>2, <1>5, <3>1 DEF BuildInv, Executed, ScriptLine, ScriptRuns
    <3>2. CASE invocation' = StopsAt /\ UNCHANGED registry
      BY <1>1, <1>2, <1>5, <3>2 DEF BuildInv, Executed, ScriptLine, ScriptRuns, StopsAt
    <3> QED BY <1>5, <3>1, <3>2 DEF ScriptLine
  <2> QED BY <1>3, <1>4, <1>5, <2>1 DEF BuildInv, ScriptLine, ScriptRuns
<1>6. CASE ScriptEnds
  <2>1. Executed'
    BY <1>1, <1>2, <1>6 DEF BuildInv, Executed, ScriptEnds, ScriptRuns
  <2> QED BY <1>3, <1>4, <1>6, <2>1 DEF BuildInv, ScriptEnds
<1>7. CASE Invoked
  <2>1. Executed'
    BY <1>1, <1>2, <1>7 DEF BuildInv, Executed, Invoked
  <2> QED BY <1>3, <1>4, <1>7, <2>1 DEF BuildInv, Invoked
<1>8. CASE InstanceMoves
  <2>1. Executed'
    BY <1>1, <1>8 DEF BuildInv, Executed, InstanceMoves
  <2> QED BY <1>3, <1>4, <1>8, <2>1 DEF BuildInv, InstanceMoves
<1> QED BY <1>5, <1>6, <1>7, <1>8 DEF RemoteStep

LEMMA BuildStepHolds == BuildInv /\ [Next]_vars => BuildInv'
<1> SUFFICES ASSUME BuildInv, [Next]_vars PROVE BuildInv'
  OBVIOUS
<1>1. CASE BuildRest
  <2>1. build_commands' = build_commands /\ Tags' = Tags
    BY <1>1 DEF BuildRest, buildVars, build_commands, Tags
  <2> QED BY <1>1, <2>1 DEF BuildRest, buildVars, BuildInv, Removed, RemovesInstance, Executed, Referenced
<1>2. ASSUME NEW n \in Converted, step' = "upload", nydus' = n, source_uri' = FALSE,
             objects' = {}, invocation' = "none", line' = 1, registry' = {},
             references' = {}, buildExit' = "none"
      PROVE  BuildInv'
  BY <1>2, ImagesAssumption DEF BuildInv, Removed, Executed, Referenced, CleanupSteps
<1>3. CASE Begin
  BY <1>1, <1>2, <1>3 DEF Begin, BuildBegin
<1>4. CASE UNCHANGED vars
  BY <1>1, <1>4 DEF vars, BuildRest
<1> QED BY <1>1, <1>3, <1>4, BuildMovesHold, RemoteHolds, StepCases

LEMMA BuildInvariant == Spec => []BuildInv
<1>1. Init => BuildInv
  BY DEF Init, BuildInit, BuildInv, Removed, Executed, Referenced, CleanupSteps
<1> QED BY <1>1, BuildStepHolds, PTL DEF Spec

(* Whichever step of a build failed or was interrupted, a builder that was *)
(* not stopped by an exception of its own cleanup leaves no instance it    *)
(* knows of and nothing in the bucket (xolis_image_builder.py 368-428).    *)
THEOREM BuilderLeavesNothing == Spec => []BuildLeavesNothing
<1>1. BuildInv => BuildLeavesNothing
  BY DEF BuildInv, Removed, RemovesInstance, BuildLeavesNothing
<1> QED BY <1>1, BuildInvariant, PTL

(* References are returned only for images this build pushed and, when     *)
(* converted, checked, for every set of images                             *)
(* (xolis_image_builder.py 96-145, 308-366).                               *)
THEOREM BuilderReferencesBuilt == Spec => []ReferencesAreBuilt
<1>1. ASSUME BuildInv, buildExit = "ok"
      PROVE  /\ Tags \subseteq registry /\ references = Tags /\ ~ScriptRuns
             /\ \A i \in nydus : <<"checked", i>> \in registry
  <2>1. invocation = "Success" /\ Tags \subseteq registry /\ references = Tags
    BY <1>1 DEF BuildInv, Referenced, CleanupSteps
  <2>2. \A k \in 1..Len(build_commands) : build_commands[k] \in registry
    <3>1. Len(build_commands) \in Nat
      BY <1>1, ScriptChecks DEF BuildInv, Executed
    <3> QED BY <1>1, <2>1, <3>1 DEF BuildInv, Executed
  <2>3. \A i \in nydus : <<"checked", i>> \in registry
    BY <1>1, <2>2, ScriptChecks DEF BuildInv, Executed
  <2> QED BY <2>1, <2>3 DEF ScriptRuns
<1>2. BuildInv => ReferencesAreBuilt
  BY <1>1 DEF ReferencesAreBuilt
<1> QED BY <1>2, BuildInvariant, PTL

-----------------------------------------------------------------------------
(* The lab: the workflows as data. *)

OpNames == {"update_kubeconfig", "scale_up", "scale_down", "wait_up", "wait_down", "command",
            "deploy", "smoke", "set_pool_0", "set_pool_1", "wait_pool_0", "wait_pool_1",
            "cleanup_test_resources"}
PhaseNames == {"none", "node_start", "runtime_bootstrap", "agent_sandbox_install",
               "service_deploy", "service_acceptance", "resource_snapshot", "cold_pool_ready",
               "cold", "warm_pool_ready", "warm", "warm_pool_cleanup", "node_stop"}

(* Within a stage, nodes are waited for only after the group was scaled    *)
(* down in the same stage.                                                 *)
OpsOK(ops) ==
    /\ Len(ops) \in Nat \ {0} /\ ops[1] # "wait_down"
    /\ \A k \in 2..Len(ops) : ops[k] = "wait_down" => ops[k - 1] = "scale_down"

Part == {p \in [phase : PhaseNames, ops : Seq(OpNames)] : OpsOK(p.ops)}

Stopping == {"stop", "cycle", "service", "benchmark"}
Reporting == {"service", "benchmark"}

(* An exception leads forward; the workflows that stop the nodes do it     *)
(* last, and those with a report reach their end only through that stage.  *)
WorkflowOK(w) ==
    LET last == Len(Workflow(w))
    IN  /\ last \in Nat \ {0}
        /\ \A n \in 1..last :
              /\ Workflow(w)[n].phase \in PhaseNames /\ OpsOK(Workflow(w)[n].ops)
              /\ Workflow(w)[n].onFail \in (n + 1)..(last + 1)
              /\ w \in Reporting /\ n < last => Workflow(w)[n].onFail <= last
        /\ w \in Stopping => LET ops == Workflow(w)[last].ops IN ops[Len(ops)] = "wait_down"
        /\ w \in Reporting => Workflow(w)[last].phase = "node_stop"

LEMMA OneOp ==
    ASSUME NEW a \in OpNames, a # "wait_down"
    PROVE  <<a>> \in Seq(OpNames) /\ OpsOK(<<a>>)
<1> DEFINE ops == <<a>>
<1>1. ops \in Seq(OpNames) /\ Len(ops) = 1 /\ ops[1] = a
  OBVIOUS
<1> HIDE DEF ops
<1> QED BY <1>1 DEF OpsOK, ops

LEMMA TwoOps ==
    ASSUME NEW a \in OpNames, NEW b \in OpNames, a # "wait_down", b # "wait_down"
    PROVE  <<a, b>> \in Seq(OpNames) /\ OpsOK(<<a, b>>)
<1> DEFINE ops == <<a, b>>
<1>1. ops \in Seq(OpNames) /\ Len(ops) = 2 /\ ops[1] = a /\ ops[2] = b
  OBVIOUS
<1> HIDE DEF ops
<1>2. \A k \in 2..Len(ops) : k = 2
  BY <1>1
<1>3. OpsOK(ops)
  BY <1>1, <1>2 DEF OpsOK
<1> QED BY <1>1, <1>3 DEF ops

LEMMA OpsShape ==
    /\ start_node \in Seq(OpNames) /\ OpsOK(start_node)
    /\ stop_node \in Seq(OpNames) /\ OpsOK(stop_node)
    /\ Len(stop_node) = 3 /\ stop_node[3] = "wait_down"
    /\ bootstrap \in Seq(OpNames) /\ OpsOK(bootstrap)
<1>1. /\ start_node \in Seq(OpNames) /\ Len(start_node) = 3
      /\ start_node[1] # "wait_down" /\ start_node[2] # "wait_down" /\ start_node[3] # "wait_down"
  BY DEF start_node, OpNames
<1>2. /\ stop_node \in Seq(OpNames) /\ Len(stop_node) = 3
      /\ stop_node[1] = "update_kubeconfig" /\ stop_node[2] = "scale_down"
      /\ stop_node[3] = "wait_down"
  BY DEF stop_node, OpNames
<1>3. \A k \in 2..3 : k = 2 \/ k = 3
  OBVIOUS
<1>4. OpsOK(start_node)
  BY <1>1, <1>3 DEF OpsOK
<1>5. OpsOK(stop_node)
  BY <1>2, <1>3 DEF OpsOK
<1>6. bootstrap \in Seq(OpNames) /\ OpsOK(bootstrap)
  BY TwoOps DEF bootstrap, OpNames
<1> QED BY <1>1, <1>2, <1>4, <1>5, <1>6

LEMMA PartShape ==
    ASSUME NEW name \in PhaseNames, NEW ops \in Seq(OpNames), OpsOK(ops)
    PROVE  Phase(name, ops) \in Part /\ Unnamed(ops) \in Part
<1>1. Phase(name, ops) \in [phase : PhaseNames, ops : Seq(OpNames)] /\ Phase(name, ops).ops = ops
  BY DEF Phase
<1>2. Unnamed(ops) \in [phase : PhaseNames, ops : Seq(OpNames)] /\ Unnamed(ops).ops = ops
  BY DEF Unnamed, PhaseNames
<1> QED BY <1>1, <1>2 DEF Part

LEMMA GuardedShape ==
    ASSUME NEW body \in Seq(Part), NEW cleanups \in Seq(Part), Len(cleanups) > 0
    PROVE  LET g == Guarded(body, cleanups)
               last == Len(body) + Len(cleanups)
           IN  /\ Len(g) = last /\ last \in Nat \ {0}
               /\ \A n \in 1..last :
                     /\ g[n].phase \in PhaseNames /\ OpsOK(g[n].ops)
                     /\ g[n].onFail \in (n + 1)..(last + 1)
                     /\ n < last => g[n].onFail <= last
               /\ g[last].phase = cleanups[Len(cleanups)].phase
               /\ g[last].ops = cleanups[Len(cleanups)].ops
<1> DEFINE g == Guarded(body, cleanups)
           last == Len(body) + Len(cleanups)
<1>1. Len(body) \in Nat /\ Len(cleanups) \in Nat /\ last \in Nat \ {0}
  OBVIOUS
<1>2. g = [n \in 1..last |-> IF n <= Len(body) THEN OnFailure(body[n], Len(body) + 1)
                             ELSE OnFailure(cleanups[n - Len(body)], n + 1)]
  BY DEF Guarded
<1>3. Len(g) = last
  BY <1>1, <1>2
<1> HIDE DEF g
<1>4. ASSUME NEW n \in 1..last
      PROVE  /\ g[n].phase \in PhaseNames /\ OpsOK(g[n].ops)
             /\ g[n].onFail \in (n + 1)..(last + 1)
             /\ n < last => g[n].onFail <= last
  <2>1. CASE n <= Len(body)
    <3>1. n \in 1..Len(body) /\ g[n] = OnFailure(body[n], Len(body) + 1)
      BY <1>1, <1>2, <2>1
    <3>2. body[n] \in Part
      BY <3>1
    <3> QED BY <1>1, <3>1, <3>2 DEF OnFailure, Part
  <2>2. CASE ~(n <= Len(body))
    <3>1. n - Len(body) \in 1..Len(cleanups) /\ g[n] = OnFailure(cleanups[n - Len(body)], n + 1)
      BY <1>1, <1>2, <2>2
    <3>2. cleanups[n - Len(body)] \in Part
      BY <3>1
    <3> QED BY <1>1, <3>1, <3>2 DEF OnFailure, Part
  <2> QED BY <2>1, <2>2
<1>5. g[last] = OnFailure(cleanups[Len(cleanups)], last + 1)
  BY <1>1, <1>2
<1> QED BY <1>1, <1>3, <1>4, <1>5 DEF OnFailure, g

LEMMA DeployedShape == Deployed \in Seq(Part)
<1>1. <<"command">> \in Seq(OpNames) /\ OpsOK(<<"command">>)
      /\ <<"deploy">> \in Seq(OpNames) /\ OpsOK(<<"deploy">>)
  BY OneOp DEF OpNames
<1>2. /\ Phase("node_start", start_node) \in Part /\ Phase("runtime_bootstrap", bootstrap) \in Part
      /\ Phase("agent_sandbox_install", <<"command">>) \in Part
      /\ Phase("service_deploy", <<"deploy">>) \in Part
  BY <1>1, OpsShape, PartShape DEF PhaseNames
<1> QED BY <1>2 DEF Deployed

LEMMA GuardedWorkflow ==
    ASSUME NEW w \in Reporting, NEW body \in Seq(Part), NEW cleanups \in Seq(Part),
           Workflow(w) = Guarded(body, cleanups), Len(cleanups) > 0,
           cleanups[Len(cleanups)] = Phase("node_stop", stop_node)
    PROVE  WorkflowOK(w)
<1>1. Phase("node_stop", stop_node).phase = "node_stop"
      /\ Phase("node_stop", stop_node).ops = stop_node
  BY DEF Phase
<1> DEFINE g == Workflow(w)
           last == Len(body) + Len(cleanups)
<1>2. /\ Len(g) = last /\ last \in Nat \ {0}
      /\ \A n \in 1..last :
            /\ g[n].phase \in PhaseNames /\ OpsOK(g[n].ops)
            /\ g[n].onFail \in (n + 1)..(last + 1)
            /\ n < last => g[n].onFail <= last
      /\ g[last].phase = cleanups[Len(cleanups)].phase
      /\ g[last].ops = cleanups[Len(cleanups)].ops
  BY GuardedShape
<1> HIDE DEF g, last
<1>3. g[Len(g)].phase = "node_stop" /\ g[Len(g)].ops = stop_node
  BY <1>1, <1>2
<1> QED BY <1>2, <1>3, OpsShape DEF WorkflowOK, g

LEMMA ServiceShape == WorkflowOK("service")
<1> DEFINE tests == << Phase("service_acceptance", <<"smoke">>),
                       Phase("resource_snapshot", <<"command">>) >>
           cleanups == << Phase("node_stop", stop_node) >>
<1>1. tests \in Seq(Part)
  <2>1. <<"smoke">> \in Seq(OpNames) /\ OpsOK(<<"smoke">>)
        /\ <<"command">> \in Seq(OpNames) /\ OpsOK(<<"command">>)
    BY OneOp DEF OpNames
  <2>2. Phase("service_acceptance", <<"smoke">>) \in Part
        /\ Phase("resource_snapshot", <<"command">>) \in Part
    BY <2>1, PartShape DEF PhaseNames
  <2> QED BY <2>2
<1>2. cleanups \in Seq(Part) /\ Len(cleanups) = 1
      /\ cleanups[1] = Phase("node_stop", stop_node)
  BY OpsShape, PartShape DEF PhaseNames
<1>3. Workflow("service") = Guarded(Deployed \o tests, cleanups)
  BY DEF Workflow, service
<1> HIDE DEF tests, cleanups
<1>4. Deployed \o tests \in Seq(Part)
  BY <1>1, DeployedShape
<1>5. "service" \in Reporting /\ Len(cleanups) > 0
      /\ cleanups[Len(cleanups)] = Phase("node_stop", stop_node)
  BY <1>2 DEF Reporting
<1> QED BY <1>2, <1>3, <1>4, <1>5, GuardedWorkflow

LEMMA BenchmarkShape == WorkflowOK("benchmark")
<1> DEFINE zero == <<"set_pool_0", "wait_pool_0">>
           one == <<"set_pool_1", "wait_pool_1">>
           cold == << Phase("cold_pool_ready", zero) >>
           warming == << Phase("warm_pool_ready", one) >>
           cleanups == << Phase("warm_pool_cleanup", zero), Phase("node_stop", stop_node) >>
           body == Deployed \o cold \o ColdSamples \o warming \o WarmSamples
<1>1. zero \in Seq(OpNames) /\ OpsOK(zero) /\ one \in Seq(OpNames) /\ OpsOK(one)
  BY TwoOps DEF OpNames
<1>2. /\ <<"smoke">> \in Seq(OpNames) /\ OpsOK(<<"smoke">>)
      /\ <<"wait_pool_1">> \in Seq(OpNames) /\ OpsOK(<<"wait_pool_1">>)
  BY OneOp DEF OpNames
<1>3. Workflow("benchmark") = Guarded(body, cleanups)
  BY DEF Workflow, benchmark
<1> HIDE DEF zero, one
<1>4. cold \in Seq(Part) /\ warming \in Seq(Part)
  <2>1. Phase("cold_pool_ready", zero) \in Part /\ Phase("warm_pool_ready", one) \in Part
    BY <1>1, PartShape DEF PhaseNames
  <2> QED BY <2>1
<1>5. cleanups \in Seq(Part) /\ Len(cleanups) = 2
      /\ cleanups[2] = Phase("node_stop", stop_node)
  <2>1. Phase("warm_pool_cleanup", zero) \in Part /\ Phase("node_stop", stop_node) \in Part
    BY <1>1, OpsShape, PartShape DEF PhaseNames
  <2> QED BY <2>1
<1>6. Iterations \in Nat /\ Iterations > 0
  BY IterationsAssumption
<1>7. ColdSamples \in Seq(Part)
  <2>1. Phase("cold", <<"smoke">>) \in Part
    BY <1>2, PartShape DEF PhaseNames
  <2> QED BY <1>6, <2>1 DEF ColdSamples
<1>8. WarmSamples \in Seq(Part)
  <2>1. Phase("warm", <<"smoke">>) \in Part /\ Unnamed(<<"wait_pool_1">>) \in Part
    BY <1>2, PartShape DEF PhaseNames
  <2>2. 2 * Iterations - 1 \in Nat
    BY <1>6
  <2> QED BY <2>1, <2>2 DEF WarmSamples
<1> HIDE DEF cold, warming, cleanups
<1>9. body \in Seq(Part)
  BY <1>4, <1>7, <1>8, DeployedShape
<1> HIDE DEF body
<1>10. "benchmark" \in Reporting /\ Len(cleanups) > 0
       /\ cleanups[Len(cleanups)] = Phase("node_stop", stop_node)
  BY <1>5 DEF Reporting
<1> QED BY <1>3, <1>5, <1>9, <1>10, GuardedWorkflow

IsJoin(r, s, t) ==
    /\ Len(r) = Len(s) + Len(t)
    /\ \A k \in 1..Len(s) : r[k] = s[k]
    /\ \A k \in 1..Len(t) : r[Len(s) + k] = t[k]

LEMMA Joined ==
    ASSUME NEW S, NEW s \in Seq(S), NEW t \in Seq(S), NEW r, r = s \o t
    PROVE  r \in Seq(S) /\ IsJoin(r, s, t)
<1>1. r \in Seq(S) /\ Len(r) = Len(s) + Len(t)
  OBVIOUS
<1>2. \A k \in 1..Len(s) : r[k] = s[k]
  OBVIOUS
<1>3. \A k \in 1..Len(t) : r[Len(s) + k] = t[k]
  OBVIOUS
<1> QED BY <1>1, <1>2, <1>3 DEF IsJoin

LEMMA CycleShape == WorkflowOK("cycle")
<1> DEFINE more == <<"command", "command", "command">>
           first == <<"cleanup_test_resources">>
           run == bootstrap \o more
           finish == first \o stop_node
<1>1. run \in Seq(OpNames) /\ OpsOK(run)
  <2>1. bootstrap \in Seq(OpNames) /\ Len(bootstrap) = 2
        /\ \A k \in 1..2 : bootstrap[k] # "wait_down"
    BY DEF bootstrap, OpNames
  <2>2. more \in Seq(OpNames) /\ Len(more) = 3 /\ \A k \in 1..3 : more[k] # "wait_down"
    BY DEF OpNames
  <2> HIDE DEF more
  <2>3. run \in Seq(OpNames) /\ Len(run) = 5
        /\ (\A k \in 1..2 : run[k] = bootstrap[k]) /\ (\A k \in 1..3 : run[2 + k] = more[k])
    <3>1. run = bootstrap \o more
      BY DEF run
    <3> HIDE DEF run
    <3>2. run \in Seq(OpNames) /\ IsJoin(run, bootstrap, more)
      BY <2>1, <2>2, <3>1, Joined, Zenon
    <3> QED BY <2>1, <2>2, <3>2 DEF IsJoin
  <2> HIDE DEF run
  <2>4. ASSUME NEW k \in 1..5 PROVE run[k] # "wait_down"
    <3>1. CASE k \in 1..2
      BY <2>1, <2>3, <3>1
    <3>2. CASE k \notin 1..2
      <4>1. k - 2 \in 1..3 /\ 2 + (k - 2) = k
        BY <3>2
      <4> QED BY <2>2, <2>3, <4>1
    <3> QED BY <3>1, <3>2
  <2> QED BY <2>3, <2>4 DEF OpsOK
<1>2. finish \in Seq(OpNames) /\ OpsOK(finish) /\ finish[Len(finish)] = "wait_down"
  <2>1. first \in Seq(OpNames) /\ Len(first) = 1 /\ first[1] # "wait_down"
    BY DEF OpNames
  <2> HIDE DEF first
  <2>2. finish \in Seq(OpNames) /\ Len(finish) = 4 /\ finish[1] = first[1]
        /\ \A k \in 2..4 : finish[k] = stop_node[k - 1]
    <3>1. finish \in Seq(OpNames) /\ Len(finish) = 4
          /\ finish[1] = first[1] /\ \A k \in 1..3 : finish[1 + k] = stop_node[k]
      <4>1. finish = first \o stop_node
        BY DEF finish
      <4> HIDE DEF finish
      <4>2. finish \in Seq(OpNames) /\ IsJoin(finish, first, stop_node)
        BY <2>1, <4>1, OpsShape, Joined, Zenon
      <4> QED BY <2>1, <4>2, OpsShape DEF IsJoin
    <3> HIDE DEF finish
    <3>2. \A k \in 2..4 : k - 1 \in 1..3 /\ 1 + (k - 1) = k
      OBVIOUS
    <3> QED BY <3>1, <3>2
  <2> HIDE DEF finish
  <2>3. stop_node[1] # "wait_down" /\ \A k \in 2..3 : stop_node[k] = "wait_down" => stop_node[k - 1] = "scale_down"
    BY OpsShape DEF OpsOK
  <2>4. ASSUME NEW k \in 2..4, finish[k] = "wait_down" PROVE finish[k - 1] = "scale_down"
    <3>1. k # 2
      BY <2>2, <2>3, <2>4
    <3>2. k - 1 \in 2..3 /\ k - 1 \in 2..4
      BY <3>1
    <3> QED BY <2>2, <2>3, <2>4, <3>2
  <2> QED BY <2>1, <2>2, <2>4, OpsShape DEF OpsOK
<1> DEFINE wf == Workflow("cycle")
<1>3. wf = << OnFailure(Unnamed(start_node), 4), OnFailure(Unnamed(run), 3),
              OnFailure(Unnamed(finish), 4) >>
  BY DEF Workflow, cycle
<1> HIDE DEF run, finish, more, first
<1>4. /\ Len(wf) = 3
      /\ wf[1].phase = "none" /\ wf[1].ops = start_node /\ wf[1].onFail = 4
      /\ wf[2].phase = "none" /\ wf[2].ops = run /\ wf[2].onFail = 3
      /\ wf[3].phase = "none" /\ wf[3].ops = finish /\ wf[3].onFail = 4
  BY <1>3 DEF OnFailure, Unnamed
<1> HIDE DEF wf
<1>5. \A n \in 1..Len(wf) : n = 1 \/ n = 2 \/ n = 3
  BY <1>4
<1>6. \A n \in 1..Len(wf) : /\ wf[n].phase \in PhaseNames /\ OpsOK(wf[n].ops)
                            /\ wf[n].onFail \in (n + 1)..(Len(wf) + 1)
  BY <1>1, <1>2, <1>4, <1>5, OpsShape DEF PhaseNames
<1> QED BY <1>2, <1>4, <1>6 DEF WorkflowOK, Reporting, wf

LEMMA SingleShape ==
    ASSUME NEW w \in Workflows \ Reporting, NEW ops \in Seq(OpNames), OpsOK(ops),
           Workflow(w) = << OnFailure(Unnamed(ops), 2) >>,
           w \in Stopping => ops[Len(ops)] = "wait_down"
    PROVE  WorkflowOK(w)
<1> DEFINE wf == Workflow(w)
<1>1. Len(wf) = 1 /\ wf[1].phase = "none" /\ wf[1].ops = ops /\ wf[1].onFail = 2
  BY DEF OnFailure, Unnamed
<1>2. \A n \in 1..Len(wf) : n = 1
  BY <1>1
<1> HIDE DEF wf
<1>3. \A n \in 1..Len(wf) : /\ wf[n].phase \in PhaseNames /\ OpsOK(wf[n].ops)
                            /\ wf[n].onFail \in (n + 1)..(Len(wf) + 1)
  BY <1>1, <1>2 DEF PhaseNames
<1> QED BY <1>1, <1>3 DEF WorkflowOK, wf

LEMMA WorkflowShape == \A w \in Workflows : WorkflowOK(w)
<1>1. WorkflowOK("start") /\ WorkflowOK("stop") /\ WorkflowOK("bootstrap")
  BY SingleShape, OpsShape DEF Workflow, Workflows, Reporting, Stopping
<1> QED BY <1>1, CycleShape, ServiceShape, BenchmarkShape DEF Workflows

-----------------------------------------------------------------------------
(* The lab: what a workflow knows of the cluster. *)

PhaseResults == [name : PhaseNames, status : {"passed", "failed"}]

ClusterOK ==
    /\ inst \in [Instances -> {"New", "Pending", "InService", "Terminating", "Gone"}]
    /\ node \in [Instances -> {"none", "NotReady", "Ready"}]

Finished == lab # "idle" /\ stage = Len(Workflow(lab)) + 1

(* Where a workflow is, and when it has a result. *)
Located ==
    /\ lab \in Workflows \cup {"idle"} /\ phases \in Seq(PhaseResults)
    /\ lab # "idle" => /\ stage \in 1..(Len(Workflow(lab)) + 1)
                       /\ stage <= Len(Workflow(lab)) => op \in 1..Len(Stage.ops)
    /\ labExit # "none" => Finished /\ (labExit = "ok" => status = "passed")
    /\ report # "none" => Finished /\ lab \in Reporting

(* What is counted, or about to be, was in service during this run. *)
Counting ==
    /\ counted \subseteq served
    /\ lab # "idle" => InService \subseteq served
    /\ InStage /\ Op = "wait_up" /\ ids # Unread => ids \subseteq served

(* While nodes are waited for, the group stays at zero, so an empty first  *)
(* reading of it is still true at the second.                              *)
Draining ==
    InStage /\ Op = "wait_down" => desired = 0 /\ (ids = {} => Listed = {})

Stopped ==
    Finished =>
        /\ lab \in Stopping /\ status = "passed" => CapacityIsZero
        /\ lab \in Reporting =>
              /\ Len(phases) > 0 /\ phases[Len(phases)].name = "node_stop"
              /\ phases[Len(phases)].status = "passed" => CapacityIsZero

LabInv == ClusterOK /\ Located /\ Counting /\ Draining /\ Stopped

(* Nothing is launched into a group of size zero; an instance enters       *)
(* service only visibly.                                                   *)
LEMMA NodeStepKeeps ==
    ASSUME ClusterOK, NEW i \in Instances, NodeStep(i)
    PROVE  /\ ClusterOK' /\ desired' = desired
           /\ served \subseteq served' /\ InService' \subseteq InService \cup served'
           /\ desired = 0 /\ Listed = {} => Listed' = {}
           /\ CapacityIsZero => CapacityIsZero'
<1>1. ClusterOK' /\ desired' = desired /\ served \subseteq served'
      /\ InService' \subseteq InService \cup served'
  BY DEF NodeStep, ClusterOK, Launch, EntersService, Terminates, Goes, Joins, BecomesReady,
         NodeRemoved, InService
<1>2. desired = 0 => ~Launch(i)
  <2>1. IsFiniteSet(Running)
    <3>1. IsFiniteSet(Instances)
      BY FS_Interval, ClusterAssumption DEF Instances
    <3> QED BY <3>1, FS_Subset DEF Running
  <2>2. Cardinality(Running) \in Nat
    BY <2>1, FS_CardinalityType
  <2> QED BY <2>2 DEF Launch
<1>3. ASSUME desired = 0, Listed = {} PROVE Listed' = {} /\ (Nodes = {} => Nodes' = {})
  <2>1. i \notin Running /\ inst[i] \notin {"Pending", "InService", "Terminating"}
    BY <1>3 DEF Listed, Running
  <2>2. NodeRemoved(i)
    BY <1>2, <1>3, <2>1 DEF NodeStep, EntersService, Terminates, Goes, Joins, BecomesReady, InService
  <2> QED BY <1>3, <2>2 DEF NodeRemoved, Listed, Nodes
<1> QED BY <1>1, <1>3 DEF CapacityIsZero

LEMMA EffectKeeps ==
    ASSUME LabEffect, LabCommand
    PROVE  UNCHANGED <<inst, node, served>> /\ (Op = "scale_down" => desired' = 0)
BY DEF LabEffect, LabCommand, update_kubeconfig, scale_autoscaling_group, set_warm_pool,
       Deploy, NoEffect, clusterVars, SetDesired, SetPool

(* The stage in progress, from the shape of the workflows. *)
LEMMA StageShape ==
    ASSUME Located, InStage
    PROVE  LET last == Len(Workflow(lab))
               ops == Stage.ops
           IN  /\ lab \in Workflows /\ last \in Nat \ {0} /\ stage \in 1..last
               /\ Stage.phase \in PhaseNames
               /\ Len(ops) \in Nat \ {0} /\ op \in 1..Len(ops)
               /\ \A k \in 2..Len(ops) : ops[k] = "wait_down" => ops[k - 1] = "scale_down"
               /\ Stage.onFail \in (stage + 1)..(last + 1)
               /\ lab \in Reporting /\ stage < last => Stage.onFail <= last
               /\ lab \in Stopping /\ stage = last => ops[Len(ops)] = "wait_down"
               /\ lab \in Reporting /\ stage = last => Stage.phase = "node_stop"
               /\ \A n \in 1..last : /\ Len(Workflow(lab)[n].ops) \in Nat \ {0}
                                     /\ Workflow(lab)[n].ops[1] # "wait_down"
<1>1. lab \in Workflows /\ stage \in 1..(Len(Workflow(lab)) + 1) /\ stage <= Len(Workflow(lab))
      /\ op \in 1..Len(Stage.ops)
  BY DEF Located, InStage, LabRunning
<1>2. WorkflowOK(lab)
  BY <1>1, WorkflowShape
<1>3. Len(Workflow(lab)) \in Nat \ {0}
  BY <1>2 DEF WorkflowOK
<1>4. stage \in 1..Len(Workflow(lab))
  BY <1>1, <1>3
<1> QED BY <1>1, <1>2, <1>3, <1>4 DEF WorkflowOK, OpsOK, Stage

LEMMA PhaseEnding ==
    ASSUME Located, InStage, NEW s \in {"passed", "failed"}
    PROVE  /\ PhaseEnds(s) \in Seq(PhaseResults)
           /\ Stage.phase = "node_stop" =>
                 /\ Len(PhaseEnds(s)) > 0 /\ PhaseEnds(s)[Len(PhaseEnds(s))].name = "node_stop"
                 /\ PhaseEnds(s)[Len(PhaseEnds(s))].status = s
<1>1. phases \in Seq(PhaseResults) /\ Stage.phase \in PhaseNames
  BY StageShape DEF Located
<1> DEFINE r == [name |-> Stage.phase, status |-> s]
<1>2. r \in PhaseResults /\ r.name = Stage.phase /\ r.status = s
  BY <1>1 DEF PhaseResults
<1> HIDE DEF r
<1>3. /\ Append(phases, r) \in Seq(PhaseResults) /\ Len(Append(phases, r)) > 0
      /\ Append(phases, r)[Len(Append(phases, r))] = r
  BY <1>1, <1>2
<1>4. PhaseEnds(s) = IF Stage.phase = "none" THEN phases ELSE Append(phases, r)
  BY DEF PhaseEnds, r
<1> QED BY <1>1, <1>2, <1>3, <1>4

(* An operation that succeeds: the last of the stage ends its phase. *)
LEMMA AdvanceHolds ==
    ASSUME LabInv, InStage, Advance, UNCHANGED <<inst, node, served>>,
           Op = "scale_down" => desired' = 0,
           Op = "wait_down" => CapacityIsZero',
           counted' \subseteq served
    PROVE  LabInv'
<1> DEFINE last == Len(Workflow(lab))
           ops == Stage.ops
<1>1. /\ lab \in Workflows /\ last \in Nat \ {0} /\ stage \in 1..last
      /\ Len(ops) \in Nat \ {0} /\ op \in 1..Len(ops)
      /\ \A k \in 2..Len(ops) : ops[k] = "wait_down" => ops[k - 1] = "scale_down"
      /\ lab \in Stopping /\ stage = last => ops[Len(ops)] = "wait_down"
      /\ lab \in Reporting /\ stage = last => Stage.phase = "node_stop"
      /\ \A n \in 1..last : /\ Len(Workflow(lab)[n].ops) \in Nat \ {0}
                            /\ Workflow(lab)[n].ops[1] # "wait_down"
  BY StageShape DEF LabInv
<1>2. /\ lab' = lab /\ report' = report /\ labExit' = labExit /\ ids' = Unread /\ status' = status
      /\ lab # "idle" /\ labExit = "none" /\ Unread # {}
  BY DEF Advance, Step, InStage, LabRunning, Unread
<1>3. report = "none"
  BY <1>1, <1>2 DEF LabInv, Located, Finished
<1>4. ClusterOK' /\ Counting'
  BY <1>2 DEF LabInv, ClusterOK, Counting, InService
<1>5. CASE op < Len(ops)
  <2>1. op' = op + 1 /\ stage' = stage /\ phases' = phases /\ Stage' = Stage
    BY <1>2, <1>5 DEF Advance, Stage
  <2>2. Located'
    BY <1>1, <1>2, <1>3, <1>5, <2>1 DEF LabInv, Located, Finished
  <2>3. ASSUME Op' = "wait_down" PROVE desired' = 0
    <3>1. op + 1 \in 2..Len(ops) /\ ops[op + 1] = "wait_down"
      BY <1>1, <1>5, <2>1, <2>3 DEF Op
    <3> QED BY <1>1, <3>1 DEF Op
  <2>4. Draining'
    BY <1>2, <2>3 DEF Draining
  <2>5. Stopped'
    BY <1>1, <1>2, <2>1 DEF Stopped, Finished
  <2> QED BY <1>4, <2>2, <2>4, <2>5 DEF LabInv
<1>6. CASE ~(op < Len(ops))
  <2>1. op' = 1 /\ stage' = stage + 1 /\ phases' = PhaseEnds("passed") /\ Op = ops[Len(ops)]
    BY <1>1, <1>6 DEF Advance, Op
  <2>2. stage' \in 1..last \/ stage' = last + 1
    BY <1>1, <2>1
  <2>3. phases' \in Seq(PhaseResults)
    BY <2>1, PhaseEnding DEF LabInv
  <2>4. stage' \in 1..last => Stage' = Workflow(lab)[stage'] /\ Len(Stage'.ops) \in Nat \ {0}
                              /\ Op' # "wait_down"
    BY <1>1, <1>2, <2>1 DEF Stage, Op
  <2>5. stage' \in 1..(last + 1) /\ (stage' <= last => stage' \in 1..last)
    BY <1>1, <2>1
  <2>6. Located'
    BY <1>1, <1>2, <1>3, <2>1, <2>3, <2>4, <2>5 DEF LabInv, Located
  <2>7. Draining'
    BY <1>2, <2>4, <2>5 DEF Draining, InStage
  <2>8. Stopped'
    <3>1. SUFFICES ASSUME Finished' PROVE /\ lab \in Stopping => CapacityIsZero'
                                          /\ lab \in Reporting => /\ Len(phases') > 0
                                                                  /\ phases'[Len(phases')].name = "node_stop"
      BY <1>2 DEF Stopped, Stopping, Reporting
    <3>2. stage = last
      BY <1>1, <1>2, <2>1, <3>1 DEF Finished
    <3> QED BY <1>1, <2>1, <3>2, PhaseEnding DEF LabInv
  <2> QED BY <1>4, <2>6, <2>7, <2>8 DEF LabInv
<1> QED BY <1>5, <1>6

(* An exception: it leads forward, and the report remembers it. *)
LEMMA RaiseHolds ==
    ASSUME LabInv, InStage, Raise, UNCHANGED <<inst, node, served, counted>>
    PROVE  LabInv'
<1> DEFINE last == Len(Workflow(lab))
<1>1. /\ lab \in Workflows /\ last \in Nat \ {0} /\ stage \in 1..last
      /\ Stage.onFail \in (stage + 1)..(last + 1)
      /\ lab \in Reporting /\ stage < last => Stage.onFail <= last
      /\ lab \in Reporting /\ stage = last => Stage.phase = "node_stop"
      /\ \A n \in 1..last : /\ Len(Workflow(lab)[n].ops) \in Nat \ {0}
                            /\ Workflow(lab)[n].ops[1] # "wait_down"
  BY StageShape DEF LabInv
<1>2. /\ lab' = lab /\ report' = report /\ labExit' = labExit /\ ids' = Unread
      /\ status' = "failed" /\ op' = 1 /\ stage' = Stage.onFail /\ phases' = PhaseEnds("failed")
      /\ lab # "idle" /\ labExit = "none"
  BY DEF Raise, Step, InStage, LabRunning
<1>3. report = "none"
  BY <1>1, <1>2 DEF LabInv, Located, Finished
<1>4. ClusterOK' /\ Counting'
  BY <1>2 DEF LabInv, ClusterOK, Counting, InService
<1>5. stage' \in 1..(last + 1) /\ (stage' <= last => stage' \in 1..last)
  BY <1>1, <1>2
<1>6. stage' \in 1..last => Stage' = Workflow(lab)[stage'] /\ Len(Stage'.ops) \in Nat \ {0}
                            /\ Op' # "wait_down"
  BY <1>1, <1>2 DEF Stage, Op
<1>7. Located'
  <2>1. phases' \in Seq(PhaseResults)
    BY <1>2, PhaseEnding DEF LabInv
  <2> QED BY <1>1, <1>2, <1>3, <1>5, <1>6, <2>1 DEF LabInv, Located
<1>8. Draining'
  BY <1>2, <1>5, <1>6 DEF Draining, InStage
<1>9. Stopped'
  <2>1. ASSUME lab \in Reporting, Finished' PROVE stage = last
    BY <1>1, <1>2, <2>1 DEF Finished
  <2>2. ASSUME lab \in Reporting, Finished'
        PROVE  /\ Len(phases') > 0 /\ phases'[Len(phases')].name = "node_stop"
               /\ phases'[Len(phases')].status = "failed"
    BY <1>1, <1>2, <2>1, <2>2, PhaseEnding DEF LabInv
  <2> QED BY <1>2, <2>2 DEF Stopped
<1> QED BY <1>4, <1>7, <1>8, <1>9 DEF LabInv

(* The two readings of wait_for_nodes. *)
LEMMA ReadingHolds ==
    ASSUME LabInv, InStage, NoEffect, ReadInstances \/ ReadNodes
    PROVE  LabInv'
<1>1. UNCHANGED <<desired, inst, node, served>>
  BY DEF NoEffect, clusterVars
<1>2. ASSUME UNCHANGED <<lab, stage, op, status, phases, report, labExit, counted>>,
             ids' = Unread \/ (Op = "wait_up" /\ ids' = InService) \/ (Op = "wait_down" /\ ids' = Listed)
      PROVE  LabInv'
  <2>1. Stage' = Stage /\ Op' = Op /\ InStage' = InStage /\ Listed' = Listed /\ InService' = InService
        /\ Unread # {}
    BY <1>1, <1>2 DEF Stage, Op, InStage, LabRunning, Listed, InService, Unread
  <2>2. Located' /\ ClusterOK' /\ Stopped'
    BY <1>1, <1>2, <2>1 DEF LabInv, Located, ClusterOK, Finished, Stopped, CapacityIsZero, Nodes, Listed
  <2>3. Counting'
    BY <1>1, <1>2, <2>1 DEF LabInv, Counting, InStage, LabRunning
  <2>4. Draining'
    BY <1>1, <1>2, <2>1 DEF LabInv, Draining
  <2> QED BY <2>2, <2>3, <2>4 DEF LabInv
<1>3. CASE ReadInstances
  BY <1>2, <1>3 DEF ReadInstances, sandbox_instance_ids
<1>4. CASE ReadNodes /\ UNCHANGED <<lab, stage, op, status, phases, report, labExit, counted>>
                     /\ ids' = Unread
  BY <1>2, <1>4
<1>5. CASE ReadNodes /\ Raise /\ UNCHANGED counted
  BY <1>1, <1>5, RaiseHolds
<1>6. CASE ReadNodes /\ NodesSettled(Op = "wait_up", ids) /\ Advance
           /\ counted' = IF Op = "wait_up" THEN Ready(ids) ELSE counted
  <2>1. ids # Unread /\ Op \in {"wait_up", "wait_down"}
    BY <1>6 DEF ReadNodes
  <2>2. counted' \subseteq served
    BY <1>6, <2>1 DEF Ready, LabInv, Counting
  <2>3. Op = "wait_down" => CapacityIsZero'
    <3>1. Op = "wait_down" => desired = 0 /\ Listed = {} /\ Nodes = {}
      BY <1>6 DEF NodesSettled, LabInv, Draining
    <3> QED BY <1>1, <3>1 DEF CapacityIsZero, Listed, Nodes
  <2> QED BY <1>1, <1>6, <2>1, <2>2, <2>3, AdvanceHolds
<1> QED BY <1>3, <1>4, <1>5, <1>6 DEF ReadNodes

LEMMA LabMovesHold ==
    ASSUME LabInv, LabMoves PROVE LabInv'
<1>1. counted \subseteq served
  BY DEF LabInv, Counting
<1>2. CASE InStage /\ (LabEffect \/ NoEffect) /\ LabCommand /\ counted' = counted
           /\ ((Advance /\ LabEffect) \/ Raise)
  <2>1. UNCHANGED <<inst, node, served>> /\ (LabEffect /\ Op = "scale_down" => desired' = 0)
        /\ Op # "wait_down"
    BY <1>2, EffectKeeps DEF NoEffect, clusterVars, LabCommand
  <2> QED BY <1>1, <1>2, <2>1, AdvanceHolds, RaiseHolds
<1>3. CASE InStage /\ Op \in {"cleanup_test_resources", "smoke"} /\ (Advance \/ Raise)
           /\ counted' = counted /\ UNCHANGED <<desired, inst, node, apiEnv, served>>
  BY <1>1, <1>3, AdvanceHolds, RaiseHolds
<1>4. CASE InStage /\ NoEffect /\ (ReadInstances \/ ReadNodes)
  BY <1>4, ReadingHolds
<1>5. CASE InStage /\ NoEffect /\ Op \in {"wait_pool_0", "wait_pool_1"} /\ Advance
           /\ counted' = counted
  BY <1>1, <1>5, AdvanceHolds DEF NoEffect, clusterVars
<1>6. CASE InStage /\ NoEffect /\ Waiting /\ Raise /\ counted' = counted
  BY <1>6, RaiseHolds DEF NoEffect, clusterVars
<1>7. CASE NoEffect /\ UNCHANGED labVars
  BY <1>7 DEF NoEffect, clusterVars, labVars, LabInv, ClusterOK, Located, Counting, Draining,
              Stopped, Finished, InStage, LabRunning, Stage, Op, InService, Listed, Nodes,
              CapacityIsZero
<1>8. CASE NoEffect /\ LabEnd
  <2>1. UNCHANGED <<desired, inst, node, served, lab, stage, op, ids, status, phases, counted>>
        /\ Finished /\ lab # "idle"
    BY <1>8 DEF NoEffect, clusterVars, LabEnd, LabRunning, Finished
  <2>2. labExit' # "none" /\ (labExit' = "ok" => status = "passed")
        /\ (report' # "none" => lab \in Reporting)
    BY <1>8 DEF LabEnd, Reporting
  <2>3. Finished' /\ Stage' = Stage /\ ~InStage'
    BY <2>1, <2>2 DEF Finished, Stage, InStage, LabRunning
  <2>4. ClusterOK' /\ Counting' /\ Draining'
    BY <2>1, <2>3 DEF LabInv, ClusterOK, Counting, Draining, InService
  <2>5. Located' /\ Stopped'
    BY <2>1, <2>2, <2>3 DEF LabInv, Located, Stopped, CapacityIsZero, Listed, Nodes
  <2> QED BY <2>4, <2>5 DEF LabInv
<1> QED BY <1>2, <1>3, <1>4, <1>5, <1>6, <1>7, <1>8, LabCases

LEMMA LabStepHolds == OneTool /\ LabInv /\ [Next]_vars => LabInv'
<1> SUFFICES ASSUME OneTool, LabInv, [Next]_vars PROVE LabInv'
  OBVIOUS
<1>1. ASSUME UNCHANGED <<desired, inst, node, served>>, UNCHANGED labVars PROVE LabInv'
  BY <1>1 DEF labVars, LabInv, ClusterOK, Located, Counting, Draining, Stopped, Finished,
              InStage, LabRunning, Stage, Op, InService, Listed, Nodes, CapacityIsZero
<1>2. CASE LabMoves
  BY <1>2, LabMovesHold
<1>3. CASE DemoMoves /\ LabRest
  BY <1>1, <1>3, DemoCases DEF LabRest
<1>4. CASE BuildMoves /\ LabRest
  BY <1>1, <1>4, BuildCases DEF LabRest, clusterVars
<1>5. ASSUME NEW i \in Instances, NodeStep(i), LabRest PROVE LabInv'
  <2>1. UNCHANGED labVars /\ Stage' = Stage /\ Op' = Op /\ InStage' = InStage /\ Finished' = Finished
    BY <1>5 DEF LabRest, labVars, Stage, Op, InStage, LabRunning, Finished
  <2>2. Located'
    BY <2>1 DEF labVars, LabInv, Located, Finished
  <2> QED BY <1>5, <2>1, <2>2, NodeStepKeeps DEF labVars, LabInv, Counting, Draining, Stopped
<1>6. ASSUME NEW p \in Pools, PoolStep(p), LabRest PROVE LabInv'
  BY <1>1, <1>6 DEF PoolStep, LabRest
<1>7. CASE (ClaimExpires \/ RemoteStep) /\ LabRest
  BY <1>1, <1>7 DEF ClaimExpires, RemoteStep, LabRest, clusterVars
<1>8. CASE UNCHANGED vars
  BY <1>1, <1>8 DEF vars, clusterVars
<1>9. CASE Begin
  <2>1. UNCHANGED <<desired, inst, node>>
    BY <1>9 DEF Begin, LabBegin, DemoBegin, BuildBegin, clusterVars
  <2>2. ASSUME NEW w \in Workflows, LabReset(w), served' = InService PROVE LabInv'
    <3>1. /\ lab' = w /\ stage' = 1 /\ op' = 1 /\ ids' = Unread /\ phases' = <<>>
          /\ labExit' = "none" /\ report' = "none" /\ counted' = {} /\ w # "idle"
      BY <2>2 DEF LabReset, Workflows
    <3>2. WorkflowOK(w)
      BY WorkflowShape
    <3>3. Len(Workflow(w)) \in Nat \ {0} /\ Len(Workflow(w)[1].ops) \in Nat \ {0}
          /\ Workflow(w)[1].ops[1] # "wait_down"
      BY <3>2 DEF WorkflowOK, OpsOK
    <3>4. Stage' = Workflow(w)[1] /\ Op' = Workflow(w)[1].ops[1]
      BY <3>1 DEF Stage, Op
    <3>5. phases' \in Seq(PhaseResults)
      BY <3>1
    <3>6. Located'
      BY <3>1, <3>3, <3>4, <3>5 DEF Located
    <3>7. ClusterOK' /\ Counting' /\ Draining' /\ Stopped'
      BY <2>1, <2>2, <3>1, <3>3, <3>4
         DEF LabInv, ClusterOK, Counting, Draining, Stopped, Finished, InService
    <3> QED BY <3>6, <3>7 DEF LabInv
  <2>3. ASSUME LabAside PROVE LabInv'
    <3>1. /\ lab' = "idle" /\ phases' = <<>> /\ labExit' = "none" /\ report' = "none"
          /\ counted' = {}
      BY <2>3 DEF LabAside, LabReset
    <3>2. phases' \in Seq(PhaseResults)
      BY <3>1
    <3> QED BY <2>1, <3>1, <3>2 DEF LabInv, ClusterOK, Located, Counting, Draining, Stopped,
               Finished, InStage, LabRunning
  <2>4. CASE Head(plan) \in Workflows /\ LabBegin(Head(plan))
    BY <2>2, <2>4 DEF LabBegin
  <2> QED BY <1>9, <2>3, <2>4 DEF Begin
<1> QED BY <1>2, <1>3, <1>4, <1>5, <1>6, <1>7, <1>8, <1>9, StepCases

LEMMA LabInvariant == Spec => []LabInv
<1>1. Init => OneTool /\ LabInv
  <2> SUFFICES ASSUME Init PROVE OneTool /\ LabInv
    OBVIOUS
  <2>1. OneTool
    BY DEF Init, DemoInit, LabInit, BuildInit, OneTool, BuildRunning
  <2>2. /\ lab = "idle" /\ phases = <<>> /\ labExit = "none" /\ report = "none" /\ counted = {}
    BY DEF Init, LabInit
  <2>3. phases \in Seq(PhaseResults)
    BY <2>2
  <2>4. ClusterOK
    BY DEF Init, ClusterInit, ClusterOK
  <2> QED BY <2>1, <2>2, <2>3, <2>4 DEF LabInv, Located, Counting, Draining, Stopped, Finished,
             InStage, LabRunning
<1> QED BY <1>1, OneToolStep, LabStepHolds, PTL DEF Spec

(* However instances and node objects come and go, also between the two    *)
(* readings of wait_for_nodes, a stop, cycle, service or benchmark that    *)
(* exits with 0 leaves the group and the node list empty                   *)
(* (xolis_aws_lab.py 494-520).                                             *)
THEOREM ZeroCapacityAfterSuccess == Spec => []ZeroAfterSuccess
<1>1. LabInv => ZeroAfterSuccess
  BY DEF LabInv, Located, Stopped, Stopping, ZeroAfterSuccess
<1> QED BY <1>1, LabInvariant, PTL

(* A node counted as started belongs to an instance that was in service    *)
(* during the run (xolis_aws_lab.py 507-511).                              *)
THEOREM StartsOnLiveNode == Spec => []StartedOnLiveNode
<1>1. LabInv => StartedOnLiveNode
  BY DEF LabInv, Counting, StartedOnLiveNode
<1> QED BY <1>1, LabInvariant, PTL

(* A service or benchmark run ends only after the stop of the nodes was    *)
(* tried, for every number of benchmark iterations, even when the summary  *)
(* cannot be written; a stop that passed left nothing (xolis_aws_lab.py    *)
(* 241-254, 293-314).                                                      *)
THEOREM CleanupAlwaysTried == Spec => []CleanupIsTried
<1>1. LabInv => CleanupIsTried
  BY DEF LabInv, Located, Stopped, CleanupIsTried, Reporting, Last
<1> QED BY <1>1, LabInvariant, PTL

-----------------------------------------------------------------------------
(* The lab: what the report says of the phases. *)

Agreeing ==
    /\ status \in {"passed", "failed"}
    /\ status = "passed" => \A n \in 1..Len(phases) : phases[n].status = "passed"
    /\ report # "none" => report = status /\ ((report = "passed") <=> (labExit = "ok"))

LEMMA AgreeingMoves ==
    ASSUME LabInv, Agreeing, LabMoves PROVE Agreeing'
<1>1. CASE UNCHANGED <<status, phases, report, labExit>>
  BY <1>1 DEF Agreeing
<1>2. CASE InStage /\ (Advance \/ Raise)
  <2>1. labExit = "none" /\ report' = report /\ phases \in Seq(PhaseResults)
    BY <1>2 DEF InStage, LabRunning, Advance, Raise, Step, LabInv, Located
  <2>2. report = "none"
    <3>1. ~Finished
      BY <1>2, StageShape DEF LabInv, Finished
    <3> QED BY <3>1 DEF LabInv, Located
  <2>3. CASE Raise
    BY <2>1, <2>2, <2>3 DEF Raise, Agreeing
  <2>4. CASE Advance
    <3>1. status' = status /\ (phases' = phases \/ phases' = PhaseEnds("passed"))
      BY <2>4 DEF Advance
    <3> DEFINE r == [name |-> Stage.phase, status |-> "passed"]
    <3>2. r.status = "passed" /\ r \in PhaseResults
      BY <1>2, StageShape DEF PhaseResults, LabInv
    <3>3. phases' = phases \/ phases' = Append(phases, r)
      BY <3>1 DEF PhaseEnds
    <3> HIDE DEF r
    <3>4. ASSUME phases' = Append(phases, r), NEW n \in 1..Len(phases')
          PROVE  phases'[n] = r \/ (n \in 1..Len(phases) /\ phases'[n] = phases[n])
      BY <2>1, <3>2, <3>4
    <3> QED BY <2>1, <2>2, <3>1, <3>2, <3>3, <3>4 DEF Agreeing
  <2> QED BY <1>2, <2>3, <2>4
<1>3. CASE LabEnd
  BY <1>3 DEF LabEnd, Agreeing
<1>4. CASE InStage /\ (ReadInstances \/ ReadNodes)
  BY <1>1, <1>2, <1>4 DEF ReadInstances, ReadNodes
<1> QED BY <1>1, <1>2, <1>3, <1>4, LabCases DEF labVars

LEMMA AgreeingStep == LabInv /\ Agreeing /\ [Next]_vars => Agreeing'
<1> SUFFICES ASSUME LabInv, Agreeing, [Next]_vars PROVE Agreeing'
  OBVIOUS
<1>1. ASSUME LabRest PROVE Agreeing'
  BY <1>1 DEF LabRest, labVars, Agreeing
<1>2. ASSUME NEW w, LabReset(w) PROVE Agreeing'
  <2>1. phases' = <<>> /\ status' = "passed" /\ report' = "none"
    BY <1>2 DEF LabReset
  <2>2. Len(phases') = 0
    BY <2>1
  <2> QED BY <2>1, <2>2 DEF Agreeing
<1>3. CASE Begin
  BY <1>2, <1>3 DEF Begin, LabBegin, LabAside
<1>4. CASE UNCHANGED vars
  BY <1>1, <1>4 DEF vars, LabRest
<1> QED BY <1>1, <1>3, <1>4, AgreeingMoves, StepCases

(* A report that says "passed" was written by a run that exits with 0 and  *)
(* whose every phase passed, for every workflow and number of iterations   *)
(* (xolis_aws_lab.py 241-254, 301-314, 421-437).                           *)
THEOREM ReportsAgree == Spec => []ReportMatchesPhases
<1>1. Init => Agreeing
  <2>1. Init => phases = <<>> /\ status = "passed" /\ report = "none"
    BY DEF Init, LabInit
  <2>2. phases = <<>> => Len(phases) = 0
    OBVIOUS
  <2> QED BY <2>1, <2>2 DEF Agreeing
<1>2. LabInv /\ Agreeing => ReportMatchesPhases
  <2>1. LabInv => DOMAIN phases = 1..Len(phases)
    BY DEF LabInv, Located
  <2> QED BY <2>1 DEF Agreeing, ReportMatchesPhases
<1> QED BY <1>1, <1>2, LabInvariant, AgreeingStep, PTL DEF Spec
-----------------------------------------------------------------------------
(* The lab: what the report says of the samples. *)

Files == {"passed", "failed", "absent", "cut"}
FailedPhase == \E n \in 1..Len(phases) : phases[n].status = "failed"
Taken(m) == Len(samples[m])

(* The last stage of a benchmark before its cleanups. *)
LastWarm == 3 * Iterations + 5

(* How many samples a benchmark has taken when it has reached a stage and  *)
(* nothing has failed: warm samples and waits take turns.                  *)
Course(n, c, w) ==
    /\ n <= 6 => c = 0
    /\ n \in 6..(Iterations + 6) => c = n - 6
    /\ n > Iterations + 6 => c = Iterations
    /\ n <= Iterations + 7 => w = 0
    /\ n \in (Iterations + 6)..(LastWarm + 1) =>
          2 * w \in {n - Iterations - 6, n - Iterations - 7}
    /\ n > LastWarm => w = Iterations

OnCourse == Course(stage, Taken("cold"), Taken("warm"))

Sampling ==
    /\ samples \in [Modes -> Seq(Files)]
    /\ lab # "benchmark" => \A m \in Modes : samples[m] = <<>>
    /\ lab = "benchmark" =>
          /\ stage <= LastWarm => status = "passed"
          /\ status = "passed" => OnCourse /\ \A m \in Modes : passed_samples(m) = Taken(m)
          /\ \A m \in Modes : Taken(m) <= Iterations

(* A failure is in a phase or fell between two warm samples; a phase that  *)
(* passed has its sample.                                                  *)
Accounted ==
    /\ lab \in Reporting /\ status = "failed" =>
          FailedPhase \/ (lab = "benchmark" /\ Taken("warm") \in 1..(Iterations - 1))
    /\ \A m \in Modes : Tally(phases, {[name |-> m, status |-> "passed"]}) <= passed_samples(m)

(* Counting in a sequence: one more entry, all entries. *)
LEMMA Tallied ==
    ASSUME NEW S, NEW s \in Seq(S), NEW T
    PROVE  /\ Tally(s, T) \in Nat /\ Tally(s, T) <= Len(s)
           /\ (\A n \in 1..Len(s) : s[n] \in T) <=> Tally(s, T) = Len(s)
<1> DEFINE H == {n \in 1..Len(s) : s[n] \in T}
<1>1. DOMAIN s = 1..Len(s) /\ Len(s) \in Nat /\ 0 \in Int /\ 1 \in Int /\ Len(s) \in Int
  OBVIOUS
<1>2. IsFiniteSet(1..Len(s)) /\ Cardinality(1..Len(s)) = Len(s)
  BY <1>1, FS_Interval
<1>3. H \subseteq 1..Len(s)
  OBVIOUS
<1>4. IsFiniteSet(H) /\ Cardinality(H) <= Len(s)
      /\ (Cardinality(H) = Len(s) => H = 1..Len(s))
  BY <1>2, <1>3, FS_Subset
<1>5. Cardinality(H) \in Nat
  BY <1>4, FS_CardinalityType
<1>6. Tally(s, T) = Cardinality(H)
  BY <1>1 DEF Tally
<1>7. (\A n \in 1..Len(s) : s[n] \in T) <=> H = 1..Len(s)
  OBVIOUS
<1> QED BY <1>2, <1>4, <1>5, <1>6, <1>7

LEMMA TallyAppend ==
    ASSUME NEW S, NEW s \in Seq(S), NEW e \in S, NEW T
    PROVE  Tally(Append(s, e), T) = IF e \in T THEN Tally(s, T) + 1 ELSE Tally(s, T)
<1> DEFINE t == Append(s, e)
           H == {n \in 1..Len(s) : s[n] \in T}
           K == {n \in 1..Len(t) : t[n] \in T}
<1>1. /\ t \in Seq(S) /\ Len(t) = Len(s) + 1 /\ Len(s) \in Nat /\ t[Len(s) + 1] = e
      /\ \A n \in 1..Len(s) : t[n] = s[n]
  OBVIOUS
<1>2. DOMAIN s = 1..Len(s) /\ DOMAIN t = 1..Len(t)
  BY <1>1
<1>3. Tally(s, T) = Cardinality(H) /\ Tally(t, T) = Cardinality(K)
  BY <1>2 DEF Tally
<1> HIDE DEF t
<1>4. 1..Len(t) = 1..Len(s) \cup {Len(s) + 1} /\ Len(s) + 1 \notin 1..Len(s)
  BY <1>1
<1>5. K = IF e \in T THEN H \cup {Len(s) + 1} ELSE H
  <2>1. ASSUME NEW n PROVE n \in K <=> n \in H \/ (n = Len(s) + 1 /\ e \in T)
    BY <1>1, <1>4
  <2> HIDE DEF K, H
  <2> QED BY <2>1
<1>6. IsFiniteSet(H)
  <2>1. IsFiniteSet(1..Len(s))
    BY <1>1, FS_Interval
  <2> QED BY <2>1, FS_Subset
<1>7. Cardinality(H \cup {Len(s) + 1}) = Cardinality(H) + 1
  BY <1>4, <1>6, FS_AddElement
<1> QED BY <1>3, <1>5, <1>7 DEF t

-----------------------------------------------------------------------------
(* The stages of the workflows that matter for the samples. *)

Splits(r, s, t) ==
    /\ Len(r) = Len(s) + Len(t)
    /\ \A k \in 1..Len(s) : r[k] = s[k]
    /\ \A k \in (Len(s) + 1)..(Len(s) + Len(t)) : r[k] = t[k - Len(s)]

LEMMA JoinedAt ==
    ASSUME NEW S, NEW s \in Seq(S), NEW t \in Seq(S), NEW r, r = s \o t
    PROVE  r \in Seq(S) /\ Splits(r, s, t)
<1>1. r \in Seq(S) /\ Len(r) = Len(s) + Len(t) /\ Len(s) \in Nat /\ Len(t) \in Nat
  OBVIOUS
<1>2. \A k \in 1..Len(s) : r[k] = s[k]
  OBVIOUS
<1>3. \A k \in (Len(s) + 1)..(Len(s) + Len(t)) : r[k] = t[k - Len(s)]
  OBVIOUS
<1> QED BY <1>1, <1>2, <1>3 DEF Splits

(* Where a benchmark takes its samples, and where it only waits. *)
IsCold(n) == n \in 6..(Iterations + 5)
IsWarm(n) == n \in (Iterations + 7)..LastWarm /\ (n - Iterations - 6) % 2 = 1
IsWait(n) == n \in (Iterations + 7)..LastWarm /\ (n - Iterations - 6) % 2 = 0

StageIs(n, part) ==
    /\ part.phase = "cold" <=> IsCold(n)
    /\ part.phase = "warm" <=> IsWarm(n)
    /\ part.phase = "none" <=> IsWait(n)
    /\ part.phase \in Modes => part.ops = <<"smoke">>

LEMMA Parity ==
    ASSUME NEW i \in Nat, NEW k \in Nat, 2 * k \in {i, i - 1}
    PROVE  (i % 2 = 1 \/ i % 2 = 0) /\ (i % 2 = 1 => 2 * k = i - 1) /\ (i % 2 = 0 => 2 * k = i)
OBVIOUS

BenchmarkBody(zero, one) ==
    Deployed \o << Phase("cold_pool_ready", zero) >> \o ColdSamples
      \o << Phase("warm_pool_ready", one) >> \o WarmSamples

LEMMA BodyStages ==
    ASSUME NEW zero \in Seq(OpNames), OpsOK(zero), NEW one \in Seq(OpNames), OpsOK(one)
    PROVE  LET body == BenchmarkBody(zero, one)
           IN  /\ body \in Seq(Part) /\ Len(body) = LastWarm
               /\ \A n \in 1..LastWarm : StageIs(n, body[n])
<1> DEFINE body == BenchmarkBody(zero, one)
           N == Iterations
           cold == << Phase("cold_pool_ready", zero) >>
           warming == << Phase("warm_pool_ready", one) >>
           a == Deployed \o cold
           b == a \o ColdSamples
           c == b \o warming
<1>1. N \in Nat /\ N > 0 /\ 2 * N - 1 \in Nat
  BY IterationsAssumption
<1>2. /\ <<"smoke">> \in Seq(OpNames) /\ OpsOK(<<"smoke">>)
      /\ <<"wait_pool_1">> \in Seq(OpNames) /\ OpsOK(<<"wait_pool_1">>)
  BY OneOp DEF OpNames
<1>3. /\ Deployed \in Seq(Part) /\ Len(Deployed) = 4
      /\ \A k \in 1..4 : Deployed[k].phase \notin {"cold", "warm", "none"}
  <2>1. /\ Len(Deployed) = 4 /\ Deployed[1].phase = "node_start"
        /\ Deployed[2].phase = "runtime_bootstrap" /\ Deployed[3].phase = "agent_sandbox_install"
        /\ Deployed[4].phase = "service_deploy"
    BY DEF Deployed, Phase
  <2>2. \A k \in 1..4 : k = 1 \/ k = 2 \/ k = 3 \/ k = 4
    OBVIOUS
  <2> QED BY <2>1, <2>2, DeployedShape
<1>4. cold \in Seq(Part) /\ Len(cold) = 1 /\ cold[1].phase = "cold_pool_ready"
  <2>1. Phase("cold_pool_ready", zero) \in Part /\ Phase("cold_pool_ready", zero).phase = "cold_pool_ready"
    BY PartShape DEF PhaseNames, Phase
  <2> QED BY <2>1
<1>5. warming \in Seq(Part) /\ Len(warming) = 1 /\ warming[1].phase = "warm_pool_ready"
  <2>1. Phase("warm_pool_ready", one) \in Part /\ Phase("warm_pool_ready", one).phase = "warm_pool_ready"
    BY PartShape DEF PhaseNames, Phase
  <2> QED BY <2>1
<1>6. /\ ColdSamples \in Seq(Part) /\ Len(ColdSamples) = N
      /\ \A k \in 1..N : ColdSamples[k].phase = "cold" /\ ColdSamples[k].ops = <<"smoke">>
  <2>1. Phase("cold", <<"smoke">>) \in Part /\ Phase("cold", <<"smoke">>).phase = "cold"
        /\ Phase("cold", <<"smoke">>).ops = <<"smoke">>
    BY <1>2, PartShape DEF PhaseNames, Phase
  <2> QED BY <1>1, <2>1 DEF ColdSamples
<1>7. /\ WarmSamples \in Seq(Part) /\ Len(WarmSamples) = 2 * N - 1
      /\ \A k \in 1..(2 * N - 1) :
            IF k % 2 = 1 THEN WarmSamples[k].phase = "warm" /\ WarmSamples[k].ops = <<"smoke">>
                         ELSE WarmSamples[k].phase = "none"
  <2>1. /\ Phase("warm", <<"smoke">>) \in Part /\ Phase("warm", <<"smoke">>).phase = "warm"
        /\ Phase("warm", <<"smoke">>).ops = <<"smoke">>
        /\ Unnamed(<<"wait_pool_1">>) \in Part /\ Unnamed(<<"wait_pool_1">>).phase = "none"
    BY <1>2, PartShape DEF PhaseNames, Phase, Unnamed
  <2> QED BY <1>1, <2>1 DEF WarmSamples
<1>8. body = c \o WarmSamples
  BY DEF BenchmarkBody
<1> HIDE DEF cold, warming, body
<1>9. /\ a \in Seq(Part) /\ Len(a) = 5 /\ (\A k \in 1..4 : a[k] = Deployed[k])
      /\ a[5] = cold[1]
  <2>1. PICK r : r = Deployed \o cold
    OBVIOUS
  <2>2. r \in Seq(Part) /\ Splits(r, Deployed, cold)
    BY <1>3, <1>4, <2>1, JoinedAt, Zenon
  <2>3. r \in Seq(Part) /\ Len(r) = 5 /\ (\A k \in 1..4 : r[k] = Deployed[k]) /\ r[5] = cold[1]
    BY <1>3, <1>4, <2>2 DEF Splits
  <2> QED BY <2>1, <2>3
<1> HIDE DEF a
<1>10. /\ b \in Seq(Part) /\ Len(b) = N + 5 /\ (\A k \in 1..5 : b[k] = a[k])
       /\ \A k \in 6..(N + 5) : b[k] = ColdSamples[k - 5]
  <2>1. PICK r : r = a \o ColdSamples
    OBVIOUS
  <2>2. r \in Seq(Part) /\ Splits(r, a, ColdSamples)
    BY <1>6, <1>9, <2>1, JoinedAt, Zenon
  <2>3. /\ r \in Seq(Part) /\ Len(r) = N + 5 /\ (\A k \in 1..5 : r[k] = a[k])
        /\ \A k \in 6..(N + 5) : r[k] = ColdSamples[k - 5]
    BY <1>1, <1>6, <1>9, <2>2 DEF Splits
  <2> QED BY <2>1, <2>3
<1> HIDE DEF b
<1>11. /\ c \in Seq(Part) /\ Len(c) = N + 6 /\ (\A k \in 1..(N + 5) : c[k] = b[k])
       /\ c[N + 6] = warming[1]
  <2>1. PICK r : r = b \o warming
    OBVIOUS
  <2>2. r \in Seq(Part) /\ Splits(r, b, warming)
    BY <1>5, <1>10, <2>1, JoinedAt, Zenon
  <2>3. /\ r \in Seq(Part) /\ Len(r) = N + 6 /\ (\A k \in 1..(N + 5) : r[k] = b[k])
        /\ r[N + 6] = warming[1]
    BY <1>1, <1>5, <1>10, <2>2 DEF Splits
  <2> QED BY <2>1, <2>3
<1> HIDE DEF c
<1>12. /\ body \in Seq(Part) /\ Len(body) = 3 * N + 5 /\ (\A k \in 1..(N + 6) : body[k] = c[k])
       /\ \A k \in (N + 7)..(3 * N + 5) : body[k] = WarmSamples[k - N - 6]
  <2>1. PICK r : r = c \o WarmSamples
    OBVIOUS
  <2>2. r \in Seq(Part) /\ Splits(r, c, WarmSamples)
    BY <1>7, <1>11, <2>1, JoinedAt, Zenon
  <2>3. /\ r \in Seq(Part) /\ Len(r) = 3 * N + 5 /\ (\A k \in 1..(N + 6) : r[k] = c[k])
        /\ \A k \in (N + 7)..(3 * N + 5) : r[k] = WarmSamples[k - N - 6]
    <3>1. (N + 6) + (2 * N - 1) = 3 * N + 5 /\ \A k \in Int : k - (N + 6) = k - N - 6
      BY <1>1
    <3> QED BY <1>1, <1>7, <1>11, <2>2, <3>1 DEF Splits
  <2> QED BY <1>8, <2>1, <2>3
<1>13. ASSUME NEW n \in 1..LastWarm PROVE StageIs(n, body[n])
  <2>1. LastWarm = 3 * N + 5 /\ n \in Nat
    BY <1>1 DEF LastWarm
  <2>2. CASE n \in 1..4
    <3>1. body[n] = Deployed[n]
      BY <1>1, <1>9, <1>10, <1>11, <1>12, <2>2
    <3> QED BY <1>1, <1>3, <2>2, <3>1 DEF StageIs, IsCold, IsWarm, IsWait, Modes
  <2>3. CASE n = 5
    <3>1. body[n] = cold[1]
      BY <1>1, <1>9, <1>10, <1>11, <1>12, <2>3
    <3> QED BY <1>1, <1>4, <2>3, <3>1 DEF StageIs, IsCold, IsWarm, IsWait, Modes
  <2>4. CASE n \in 6..(N + 5)
    <3>1. n \in 1..(N + 5) /\ n \in 1..(N + 6) /\ n - 5 \in 1..N
      BY <1>1, <2>4
    <3>2. body[n] = ColdSamples[n - 5]
      BY <1>10, <1>11, <1>12, <2>4, <3>1
    <3> QED BY <1>1, <1>6, <2>4, <3>1, <3>2 DEF StageIs, IsCold, IsWarm, IsWait, Modes
  <2>5. CASE n = N + 6
    <3>1. body[n] = warming[1]
      BY <1>1, <1>11, <1>12, <2>5
    <3> QED BY <1>1, <1>5, <2>5, <3>1 DEF StageIs, IsCold, IsWarm, IsWait, Modes
  <2>6. CASE n \in (N + 7)..(3 * N + 5)
    <3>1. body[n] = WarmSamples[n - N - 6] /\ n - N - 6 \in 1..(2 * N - 1)
          /\ ((n - N - 6) % 2 = 1 \/ (n - N - 6) % 2 = 0) /\ ~IsCold(n) /\ n \in (N + 7)..LastWarm
      BY <1>1, <1>12, <2>1, <2>6 DEF IsCold
    <3> QED BY <1>7, <3>1 DEF StageIs, IsWarm, IsWait, Modes
  <2> QED BY <1>1, <2>1, <2>2, <2>3, <2>4, <2>5, <2>6
<1> QED BY <1>1, <1>12, <1>13 DEF LastWarm, body

(* Where the workflows with a report keep their samples and their phases. *)
LEMMA BenchmarkStages ==
    LET wf == Workflow("benchmark")
    IN  /\ Len(wf) = LastWarm + 2
        /\ \A n \in 1..Len(wf) : StageIs(n, wf[n]) /\ (n <= LastWarm => wf[n].onFail = LastWarm + 1)
<1> DEFINE zero == <<"set_pool_0", "wait_pool_0">>
           one == <<"set_pool_1", "wait_pool_1">>
           cleanups == << Phase("warm_pool_cleanup", zero), Phase("node_stop", stop_node) >>
           body == BenchmarkBody(zero, one)
           wf == Workflow("benchmark")
<1>1. zero \in Seq(OpNames) /\ OpsOK(zero) /\ one \in Seq(OpNames) /\ OpsOK(one)
  BY TwoOps DEF OpNames
<1>2. wf = Guarded(body, cleanups)
  BY DEF Workflow, benchmark, BenchmarkBody
<1>3. Len(cleanups) = 2 /\ cleanups[1].phase = "warm_pool_cleanup" /\ cleanups[2].phase = "node_stop"
  BY DEF Phase
<1> HIDE DEF zero, one, cleanups
<1>4. body \in Seq(Part) /\ Len(body) = LastWarm /\ \A n \in 1..LastWarm : StageIs(n, body[n])
  BY <1>1, BodyStages
<1>5. LastWarm \in Nat /\ LastWarm = 3 * Iterations + 5 /\ Iterations \in Nat
  BY IterationsAssumption DEF LastWarm
<1> HIDE DEF body
<1>6. wf = [n \in 1..(LastWarm + 2) |->
              IF n <= LastWarm THEN OnFailure(body[n], LastWarm + 1)
                               ELSE OnFailure(cleanups[n - LastWarm], n + 1)]
  BY <1>2, <1>3, <1>4 DEF Guarded
<1> HIDE DEF wf
<1>7. Len(wf) = LastWarm + 2
  BY <1>5, <1>6
<1>8. ASSUME NEW n \in 1..(LastWarm + 2), n <= LastWarm
      PROVE  StageIs(n, wf[n]) /\ wf[n].onFail = LastWarm + 1
  <2>1. n \in 1..LastWarm /\ wf[n] = OnFailure(body[n], LastWarm + 1)
    BY <1>5, <1>6, <1>8
  <2>2. wf[n].phase = body[n].phase /\ wf[n].ops = body[n].ops /\ wf[n].onFail = LastWarm + 1
    BY <2>1 DEF OnFailure
  <2> QED BY <1>4, <2>1, <2>2 DEF StageIs
<1>9. ASSUME NEW n \in 1..(LastWarm + 2), ~(n <= LastWarm)
      PROVE  StageIs(n, wf[n])
  <2>1. n - LastWarm \in {1, 2} /\ wf[n] = OnFailure(cleanups[n - LastWarm], n + 1)
    BY <1>5, <1>6, <1>9
  <2>2. wf[n].phase \in {"warm_pool_cleanup", "node_stop"}
    BY <1>3, <2>1 DEF OnFailure
  <2>3. ~IsCold(n) /\ ~IsWarm(n) /\ ~IsWait(n)
    BY <1>5, <1>9 DEF IsCold, IsWarm, IsWait
  <2> QED BY <2>2, <2>3 DEF StageIs, Modes
<1> QED BY <1>7, <1>8, <1>9 DEF wf

LEMMA ServiceStages ==
    \A n \in 1..Len(Workflow("service")) : Workflow("service")[n].phase \notin Modes \cup {"none"}
<1> DEFINE tests == << Phase("service_acceptance", <<"smoke">>),
                       Phase("resource_snapshot", <<"command">>) >>
           cleanups == << Phase("node_stop", stop_node) >>
           wf == Workflow("service")
<1>1. tests \in Seq(Part) /\ Len(tests) = 2
      /\ tests[1].phase = "service_acceptance" /\ tests[2].phase = "resource_snapshot"
  <2>1. <<"smoke">> \in Seq(OpNames) /\ OpsOK(<<"smoke">>)
        /\ <<"command">> \in Seq(OpNames) /\ OpsOK(<<"command">>)
    BY OneOp DEF OpNames
  <2>2. Phase("service_acceptance", <<"smoke">>) \in Part
        /\ Phase("resource_snapshot", <<"command">>) \in Part
    BY <2>1, PartShape DEF PhaseNames
  <2>3. tests[1].phase = "service_acceptance" /\ tests[2].phase = "resource_snapshot"
    BY DEF Phase
  <2> QED BY <2>2, <2>3
<1>2. Len(cleanups) = 1 /\ cleanups[1].phase = "node_stop"
  BY DEF Phase
<1>3. wf = Guarded(Deployed \o tests, cleanups)
  BY DEF Workflow, service
<1> HIDE DEF tests, cleanups
<1>4. Deployed \in Seq(Part) /\ Len(Deployed) = 4
      /\ \A k \in 1..4 : Deployed[k].phase \notin Modes \cup {"none"}
  <2>1. /\ Len(Deployed) = 4 /\ Deployed[1].phase = "node_start"
        /\ Deployed[2].phase = "runtime_bootstrap" /\ Deployed[3].phase = "agent_sandbox_install"
        /\ Deployed[4].phase = "service_deploy"
    BY DEF Deployed, Phase
  <2>2. \A k \in 1..4 : k = 1 \/ k = 2 \/ k = 3 \/ k = 4
    OBVIOUS
  <2> QED BY <2>1, <2>2, DeployedShape DEF Modes
<1>5. PICK r : r = Deployed \o tests
  OBVIOUS
<1>6. r \in Seq(Part) /\ Splits(r, Deployed, tests)
  BY <1>1, <1>4, <1>5, JoinedAt, Zenon
<1>7. Len(r) = 6 /\ \A n \in 1..6 : r[n].phase \notin Modes \cup {"none"}
  <2>1. Len(r) = 6 /\ (\A n \in 1..4 : r[n] = Deployed[n]) /\ r[5] = tests[1] /\ r[6] = tests[2]
    BY <1>1, <1>4, <1>6 DEF Splits
  <2>2. \A n \in 1..6 : n \in 1..4 \/ n = 5 \/ n = 6
    OBVIOUS
  <2> QED BY <1>1, <1>4, <2>1, <2>2 DEF Modes
<1>8. wf = [n \in 1..7 |-> IF n <= 6 THEN OnFailure(r[n], 7) ELSE OnFailure(cleanups[n - 6], n + 1)]
  BY <1>2, <1>3, <1>5, <1>7 DEF Guarded
<1> HIDE DEF wf
<1>9. Len(wf) = 7
  BY <1>8
<1>10. ASSUME NEW n \in 1..7 PROVE wf[n].phase \notin Modes \cup {"none"}
  <2>1. CASE n <= 6
    BY <1>7, <1>8, <2>1 DEF OnFailure
  <2>2. CASE ~(n <= 6)
    BY <1>2, <1>8, <2>2 DEF OnFailure, Modes
  <2> QED BY <2>1, <2>2
<1> QED BY <1>9, <1>10 DEF wf

(* The workflows without a report have no phases. *)
LEMMA OtherStages ==
    \A w \in Workflows \ Reporting : \A n \in 1..Len(Workflow(w)) : Workflow(w)[n].phase = "none"
<1>1. ASSUME NEW w, NEW ops, Workflow(w) = << OnFailure(Unnamed(ops), 2) >>
      PROVE  \A n \in 1..Len(Workflow(w)) : Workflow(w)[n].phase = "none"
  BY <1>1 DEF OnFailure, Unnamed
<1>2. \A n \in 1..Len(Workflow("cycle")) : Workflow("cycle")[n].phase = "none"
  <2> DEFINE run == bootstrap \o <<"command", "command", "command">>
             finish == <<"cleanup_test_resources">> \o stop_node
  <2>1. Workflow("cycle") = << OnFailure(Unnamed(start_node), 4), OnFailure(Unnamed(run), 3),
                               OnFailure(Unnamed(finish), 4) >>
    BY DEF Workflow, cycle
  <2> HIDE DEF run, finish
  <2> QED BY <2>1 DEF OnFailure, Unnamed
<1>3. /\ Workflow("start") = << OnFailure(Unnamed(start_node), 2) >>
      /\ Workflow("stop") = << OnFailure(Unnamed(stop_node), 2) >>
      /\ Workflow("bootstrap") = << OnFailure(Unnamed(bootstrap), 2) >>
  BY DEF Workflow
<1> QED BY <1>1, <1>2, <1>3 DEF Workflows, Reporting

-----------------------------------------------------------------------------
(* The next stage of a benchmark that is on course. *)
LEMMA CourseStep ==
    ASSUME NEW n \in 1..(LastWarm + 2), NEW c \in Nat, NEW w \in Nat, Course(n, c, w)
    PROVE  /\ IsCold(n) => Course(n + 1, c + 1, w) /\ c + 1 <= Iterations
           /\ IsWarm(n) => Course(n + 1, c, w + 1) /\ w + 1 <= Iterations
           /\ ~IsCold(n) /\ ~IsWarm(n) => Course(n + 1, c, w)
           /\ IsWait(n) => w \in 1..(Iterations - 1)
<1> DEFINE N == Iterations
<1>1. N \in Nat /\ N > 0 /\ LastWarm = 3 * N + 5 /\ n \in Nat
  BY IterationsAssumption DEF LastWarm
<1>2. IsCold(n) => Course(n + 1, c + 1, w) /\ c + 1 <= N
  BY <1>1 DEF IsCold, Course
<1>3. ASSUME n \in (N + 7)..LastWarm
      PROVE  LET i == n - N - 6
             IN  /\ i \in 1..(2 * N - 1) /\ i \in Nat /\ (i % 2 = 1 \/ i % 2 = 0)
                 /\ i % 2 = 1 => 2 * w = i - 1
                 /\ i % 2 = 0 => 2 * w = i
  <2> DEFINE i == n - N - 6
  <2>1. i \in 1..(2 * N - 1) /\ i \in Nat /\ 2 * w \in {i, i - 1}
    BY <1>1, <1>3 DEF Course
  <2> HIDE DEF i
  <2>2. (i % 2 = 1 \/ i % 2 = 0) /\ (i % 2 = 1 => 2 * w = i - 1) /\ (i % 2 = 0 => 2 * w = i)
    BY <2>1, Parity
  <2> QED BY <2>1, <2>2 DEF i
<1>4. ASSUME IsWarm(n) PROVE Course(n + 1, c, w + 1) /\ w + 1 <= N
  <2>1. n \in (N + 7)..LastWarm /\ 2 * w = n - N - 7
    BY <1>1, <1>3, <1>4 DEF IsWarm
  <2> QED BY <1>1, <2>1 DEF Course
<1>5. ASSUME IsWait(n) PROVE Course(n + 1, c, w) /\ w \in 1..(N - 1)
  <2>1. n \in (N + 7)..LastWarm /\ 2 * w = n - N - 6 /\ n # LastWarm
    <3>1. n \in (N + 7)..LastWarm /\ 2 * w = n - N - 6
      BY <1>1, <1>3, <1>5 DEF IsWait
    <3> QED BY <1>1, <3>1
  <2> QED BY <1>1, <2>1 DEF Course
<1>6. ASSUME ~IsCold(n), ~IsWarm(n), ~IsWait(n) PROVE Course(n + 1, c, w)
  <2>1. n \notin (N + 7)..LastWarm
    BY <1>3, <1>6 DEF IsWarm, IsWait
  <2>2. n \notin 6..(N + 5)
    BY <1>6 DEF IsCold
  <2> QED BY <1>1, <2>1, <2>2 DEF Course
<1> QED BY <1>2, <1>4, <1>5, <1>6

(* What a step of the lab does to the samples. *)
LEMMA SampleCases ==
    ASSUME LabMoves
    PROVE  \/ InStage /\ Op # "smoke" /\ samples' = samples /\ (Advance \/ Raise)
           \/ InStage /\ Op = "smoke" /\ Advance /\ Sampled("passed")
           \/ InStage /\ Op = "smoke" /\ Raise /\ \E f \in Files : Sampled(f)
           \/ UNCHANGED <<lab, stage, op, status, phases, samples>>
<1>1. CASE LabDeadline
  BY <1>1 DEF LabDeadline, labVars
<1>2. CASE WaitFails
  BY <1>2 DEF WaitFails, Waiting, Error
<1>3. CASE LabEnd
  BY <1>3 DEF LabEnd
<1>4. CASE InStage /\ (LabCommand \/ cleanup_test_resources)
  BY <1>4 DEF LabCommand, cleanup_test_resources, Command, Outcome, Plain, Error
<1>5. CASE InStage /\ run_service_smoke
  BY <1>5 DEF run_service_smoke, Command, Outcome, Files
<1>6. CASE InStage /\ (ReadInstances \/ ReadNodes)
  BY <1>6 DEF ReadInstances, ReadNodes
<1>7. ASSUME InStage, NEW n \in 0..1, PollPool(n)
      PROVE  InStage /\ Op # "smoke" /\ samples' = samples /\ (Advance \/ Raise)
  BY <1>7 DEF PollPool, Plain, Error
<1> QED BY <1>1, <1>2, <1>3, <1>4, <1>5, <1>6, <1>7 DEF LabMoves, LabStep

(* Which stages take samples. *)
LEMMA SampleStage ==
    ASSUME Located, InStage
    PROVE  /\ Stage.phase \in Modes =>
                 lab = "benchmark" /\ Len(Stage.ops) = 1 /\ op = 1 /\ Op = "smoke"
           /\ lab \in Reporting /\ Stage.phase = "none" => lab = "benchmark"
           /\ lab = "benchmark" =>
                 /\ stage \in 1..(LastWarm + 2) /\ StageIs(stage, Stage)
                 /\ stage <= LastWarm => Stage.onFail = LastWarm + 1
<1>1. lab \in Workflows /\ stage \in 1..Len(Workflow(lab)) /\ op \in 1..Len(Stage.ops)
  BY StageShape
<1>2. CASE lab = "benchmark"
  <2>1. /\ stage \in 1..(LastWarm + 2) /\ StageIs(stage, Stage)
        /\ stage <= LastWarm => Stage.onFail = LastWarm + 1
    BY <1>1, <1>2, BenchmarkStages DEF Stage
  <2>2. ASSUME Stage.phase \in Modes PROVE Len(Stage.ops) = 1 /\ op = 1 /\ Op = "smoke"
    <3>1. Stage.ops = <<"smoke">>
      BY <2>1, <2>2 DEF StageIs
    <3>2. Len(<<"smoke">>) = 1 /\ <<"smoke">>[1] = "smoke"
      OBVIOUS
    <3>3. Len(Stage.ops) = 1 /\ Stage.ops[1] = "smoke"
      BY <3>1, <3>2
    <3> QED BY <1>1, <3>3 DEF Op
  <2> QED BY <1>2, <2>1, <2>2
<1>3. CASE lab = "service"
  <2>1. Stage.phase \notin Modes \cup {"none"}
    BY <1>1, <1>3, ServiceStages DEF Stage
  <2> QED BY <1>3, <2>1
<1>4. CASE lab \notin Reporting
  <2>1. Stage.phase = "none" /\ "none" \notin Modes
    BY <1>1, <1>4, OtherStages DEF Stage, Modes
  <2> QED BY <1>4, <2>1 DEF Reporting
<1> QED BY <1>2, <1>3, <1>4 DEF Reporting

(* A phase that ends: only one that passed adds to the passed ones of its  *)
(* mode.                                                                   *)
LEMMA PhaseTallied ==
    ASSUME Located, InStage, NEW s \in {"passed", "failed"}, NEW m \in Modes
    PROVE  /\ Tally(phases, {[name |-> m, status |-> "passed"]}) \in Nat
           /\ Tally(PhaseEnds(s), {[name |-> m, status |-> "passed"]}) =
                 IF Stage.phase = m /\ s = "passed"
                   THEN Tally(phases, {[name |-> m, status |-> "passed"]}) + 1
                   ELSE Tally(phases, {[name |-> m, status |-> "passed"]})
<1> DEFINE r == [name |-> Stage.phase, status |-> s]
           q == [name |-> m, status |-> "passed"]
<1>1. phases \in Seq(PhaseResults) /\ Stage.phase \in PhaseNames
  BY StageShape DEF Located
<1>2. r \in PhaseResults /\ (r = q <=> Stage.phase = m /\ s = "passed") /\ m # "none"
  BY <1>1 DEF PhaseResults, Modes
<1>3. PhaseEnds(s) = IF Stage.phase = "none" THEN phases ELSE Append(phases, r)
  BY DEF PhaseEnds
<1> HIDE DEF r, q
<1>4. /\ Tally(phases, {q}) \in Nat
      /\ Tally(Append(phases, r), {q}) =
            IF r \in {q} THEN Tally(phases, {q}) + 1 ELSE Tally(phases, {q})
  BY <1>1, <1>2, Tallied, TallyAppend
<1>5. /\ Tally(phases, {q}) \in Nat
      /\ Tally(PhaseEnds(s), {q}) =
            IF Stage.phase = m /\ s = "passed" THEN Tally(phases, {q}) + 1 ELSE Tally(phases, {q})
  BY <1>2, <1>3, <1>4
<1> QED BY <1>5 DEF q

LEMMA FailureRecorded ==
    ASSUME Located, InStage, phases' = PhaseEnds("failed"), Stage.phase # "none"
    PROVE  FailedPhase'
<1> DEFINE r == [name |-> Stage.phase, status |-> "failed"]
<1>1. phases \in Seq(PhaseResults) /\ r \in PhaseResults /\ r.status = "failed"
  BY StageShape DEF Located, PhaseResults
<1>2. phases' = Append(phases, r)
  BY DEF PhaseEnds
<1> HIDE DEF r
<1>3. Len(phases') \in 1..Len(phases') /\ phases'[Len(phases')] = r
  BY <1>1, <1>2
<1> QED BY <1>1, <1>3 DEF FailedPhase

LEMMA FailureKept ==
    ASSUME Located, InStage, NEW s \in {"passed", "failed"}, phases' = PhaseEnds(s), FailedPhase
    PROVE  FailedPhase'
<1> DEFINE r == [name |-> Stage.phase, status |-> s]
<1>1. phases \in Seq(PhaseResults) /\ r \in PhaseResults
  BY StageShape DEF Located, PhaseResults
<1>2. phases' = phases \/ phases' = Append(phases, r)
  BY DEF PhaseEnds
<1> HIDE DEF r
<1>3. PICK n \in 1..Len(phases) : phases[n].status = "failed"
  BY DEF FailedPhase
<1>4. n \in 1..Len(phases') /\ phases'[n] = phases[n]
  BY <1>1, <1>2, <1>3
<1> QED BY <1>3, <1>4 DEF FailedPhase

(* A stage without samples. *)
LEMMA PlainStage ==
    ASSUME LabInv, Sampling, Accounted, InStage, Stage.phase \notin Modes,
           samples' = samples, Advance \/ Raise
    PROVE  Sampling' /\ Accounted'
<1>1. Located /\ lab' = lab
  BY DEF LabInv, Advance, Raise, Step
<1>2. \A m \in Modes : Taken(m)' = Taken(m) /\ passed_samples(m)' = passed_samples(m)
  BY DEF Taken, passed_samples
<1>3. \A m \in Modes : Taken(m) \in Nat
  BY DEF Sampling, Taken
<1>4. /\ lab = "benchmark" =>
            /\ stage \in 1..(LastWarm + 2) /\ ~IsCold(stage) /\ ~IsWarm(stage)
            /\ Stage.phase = "none" => IsWait(stage)
            /\ stage <= LastWarm => Stage.onFail = LastWarm + 1
      /\ lab \in Reporting /\ Stage.phase = "none" => lab = "benchmark"
      /\ Stage.onFail \in (stage + 1)..(Len(Workflow(lab)) + 1)
  BY <1>1, SampleStage, StageShape DEF StageIs, Modes
<1>5. LastWarm \in Nat
  BY IterationsAssumption DEF LastWarm
<1>6. CASE Advance /\ op < Len(Stage.ops)
  <2>1. UNCHANGED <<lab, stage, status, phases>>
    BY <1>1, <1>6 DEF Advance
  <2> QED BY <1>2, <2>1 DEF Sampling, Accounted, OnCourse, FailedPhase, Modes
<1>7. CASE Advance /\ ~(op < Len(Stage.ops))
  <2>1. stage' = stage + 1 /\ status' = status /\ phases' = PhaseEnds("passed")
    BY <1>7 DEF Advance
  <2>2. lab = "benchmark" /\ OnCourse => OnCourse'
    BY <1>2, <1>3, <1>4, <2>1, CourseStep DEF OnCourse, Modes
  <2>3. Sampling'
    BY <1>1, <1>2, <1>4, <1>5, <2>1, <2>2 DEF Sampling
  <2>4. \A m \in Modes : Tally(phases', {[name |-> m, status |-> "passed"]})
                           = Tally(phases, {[name |-> m, status |-> "passed"]})
    BY <1>1, <2>1, PhaseTallied
  <2>5. FailedPhase => FailedPhase'
    BY <1>1, <2>1, FailureKept
  <2> QED BY <1>1, <1>2, <2>1, <2>3, <2>4, <2>5 DEF Accounted, Modes
<1>8. CASE Raise
  <2>1. stage' = Stage.onFail /\ status' = "failed" /\ phases' = PhaseEnds("failed")
    BY <1>8 DEF Raise
  <2>2. lab = "benchmark" => ~(stage' <= LastWarm)
    BY <1>4, <1>5, <2>1
  <2>3. Sampling'
    BY <1>1, <1>2, <1>5, <2>1, <2>2 DEF Sampling
  <2>4. \A m \in Modes : Tally(phases', {[name |-> m, status |-> "passed"]})
                           = Tally(phases, {[name |-> m, status |-> "passed"]})
    BY <1>1, <2>1, PhaseTallied
  <2>5. ASSUME lab \in Reporting, Stage.phase = "none" PROVE Taken("warm") \in 1..(Iterations - 1)
    <3>1. lab = "benchmark" /\ IsWait(stage) /\ stage <= LastWarm
      BY <1>4, <1>5, <2>5 DEF IsWait
    <3>2. OnCourse
      BY <3>1 DEF Sampling
    <3> QED BY <1>3, <1>4, <3>1, <3>2, CourseStep DEF OnCourse, Modes
  <2>6. Stage.phase # "none" => FailedPhase'
    BY <1>1, <2>1, FailureRecorded
  <2> QED BY <1>1, <1>2, <1>4, <2>1, <2>3, <2>4, <2>5, <2>6 DEF Accounted, Modes
<1> QED BY <1>6, <1>7, <1>8

(* A stage that takes a sample: the smoke test passed and so does the      *)
(* phase, or the phase fails whatever the file of the sample says.         *)
LEMMA SamplingStage ==
    ASSUME LabInv, Sampling, Accounted, InStage, Stage.phase \in Modes, NEW f \in Files,
           Sampled(f), (Advance /\ f = "passed") \/ Raise
    PROVE  Sampling' /\ Accounted'
<1> DEFINE m == Stage.phase
<1>1. Located /\ lab' = lab /\ lab = "benchmark" /\ Len(Stage.ops) = 1 /\ op = 1
      /\ stage \in 1..(LastWarm + 2) /\ StageIs(stage, Stage)
      /\ (stage <= LastWarm => Stage.onFail = LastWarm + 1)
      /\ Stage.onFail \in (stage + 1)..(Len(Workflow(lab)) + 1)
  BY SampleStage, StageShape DEF LabInv, Advance, Raise, Step
<1>2. LastWarm \in Nat /\ LastWarm = 3 * Iterations + 5 /\ Iterations \in Nat /\ Iterations > 0
  BY IterationsAssumption DEF LastWarm
<1>3. (IsCold(stage) <=> m = "cold") /\ (IsWarm(stage) <=> m = "warm") /\ stage <= LastWarm
  <2>1. (IsCold(stage) <=> m = "cold") /\ (IsWarm(stage) <=> m = "warm")
    BY <1>1 DEF StageIs
  <2> QED BY <1>2, <2>1 DEF IsCold, IsWarm, Modes
<1>4. status = "passed" /\ OnCourse /\ \A k \in Modes : passed_samples(k) = Taken(k)
  BY <1>1, <1>3 DEF Sampling
<1>5. /\ samples' = [samples EXCEPT ![m] = Append(@, f)] /\ samples \in [Modes -> Seq(Files)]
      /\ samples[m] \in Seq(Files)
  BY DEF Sampled, Sampling
<1>6. /\ samples' \in [Modes -> Seq(Files)] /\ samples'[m] = Append(samples[m], f)
      /\ \A k \in Modes \ {m} : samples'[k] = samples[k]
  BY <1>5
<1>7. \A k \in Modes : /\ Taken(k) \in Nat
                       /\ Taken(k)' = IF k = m THEN Taken(k) + 1 ELSE Taken(k)
  BY <1>5, <1>6 DEF Taken
<1>8. \A k \in Modes : /\ passed_samples(k) \in Nat
                       /\ passed_samples(k)' = IF k = m /\ f = "passed" THEN passed_samples(k) + 1
                                                                        ELSE passed_samples(k)
  <2>1. Tally(Append(samples[m], f), {"passed"}) =
          IF f = "passed" THEN Tally(samples[m], {"passed"}) + 1 ELSE Tally(samples[m], {"passed"})
    BY <1>5, TallyAppend
  <2> QED BY <1>4, <1>6, <1>7, <2>1 DEF passed_samples
<1>9. \A k \in Modes : Taken(k)' <= Iterations
  BY <1>1, <1>3, <1>4, <1>7, CourseStep DEF OnCourse, Modes, Sampling
<1>10. CASE Advance /\ f = "passed"
  <2>1. stage' = stage + 1 /\ status' = status /\ phases' = PhaseEnds("passed")
    BY <1>1, <1>10 DEF Advance
  <2>2. OnCourse'
    BY <1>1, <1>3, <1>4, <1>7, <2>1, CourseStep DEF OnCourse, Modes
  <2>3. \A k \in Modes : passed_samples(k)' = Taken(k)'
    BY <1>4, <1>7, <1>8, <1>10
  <2>4. Sampling'
    BY <1>1, <1>4, <1>6, <1>9, <2>1, <2>2, <2>3 DEF Sampling
  <2>5. \A k \in Modes : Tally(phases', {[name |-> k, status |-> "passed"]}) <= passed_samples(k)'
    <3> SUFFICES ASSUME NEW k \in Modes
                 PROVE  Tally(phases', {[name |-> k, status |-> "passed"]}) <= passed_samples(k)'
      OBVIOUS
    <3> DEFINE T == Tally(phases, {[name |-> k, status |-> "passed"]})
    <3>1. T \in Nat /\ Tally(phases', {[name |-> k, status |-> "passed"]}) = IF m = k THEN T + 1 ELSE T
      BY <1>1, <2>1, PhaseTallied
    <3>2. T <= passed_samples(k)
      BY DEF Accounted
    <3> HIDE DEF T
    <3> QED BY <1>8, <1>10, <3>1, <3>2
  <2> QED BY <1>4, <2>1, <2>4, <2>5 DEF Accounted
<1>11. CASE Raise
  <2>1. stage' = Stage.onFail /\ status' = "failed" /\ phases' = PhaseEnds("failed")
    BY <1>11 DEF Raise
  <2>2. ~(stage' <= LastWarm)
    BY <1>1, <1>2, <1>3, <2>1
  <2>3. Sampling'
    BY <1>1, <1>2, <1>6, <1>9, <2>1, <2>2 DEF Sampling
  <2>4. FailedPhase'
    BY <1>1, <2>1, FailureRecorded DEF Modes
  <2>5. \A k \in Modes : Tally(phases', {[name |-> k, status |-> "passed"]}) <= passed_samples(k)'
    <3> SUFFICES ASSUME NEW k \in Modes
                 PROVE  Tally(phases', {[name |-> k, status |-> "passed"]}) <= passed_samples(k)'
      OBVIOUS
    <3> DEFINE T == Tally(phases, {[name |-> k, status |-> "passed"]})
    <3>1. T \in Nat /\ Tally(phases', {[name |-> k, status |-> "passed"]}) = T
      BY <1>1, <2>1, PhaseTallied
    <3>2. T <= passed_samples(k)
      BY DEF Accounted
    <3> HIDE DEF T
    <3> QED BY <1>8, <3>1, <3>2
  <2> QED BY <2>3, <2>4, <2>5 DEF Accounted
<1> QED BY <1>10, <1>11

(* Before the first stage. *)
NoneYet == phases = <<>> /\ status = "passed" /\ stage = 1 /\ samples = [m \in Modes |-> <<>>]

LEMMA NothingYet == NoneYet => Sampling /\ Accounted
<1> SUFFICES ASSUME NoneYet PROVE Sampling /\ Accounted
  OBVIOUS
<1>1. phases = <<>> /\ status = "passed" /\ stage = 1 /\ \A m \in Modes : samples[m] = <<>>
  BY DEF NoneYet
<1>2. samples \in [Modes -> Seq(Files)]
  BY DEF NoneYet
<1>3. <<>> \in Seq(Files) /\ <<>> \in Seq(PhaseResults) /\ Len(<<>>) = 0
  OBVIOUS
<1>4. ASSUME NEW T PROVE Tally(<<>>, T) = 0
  <2>1. PICK e : e = <<>> /\ e \in Seq(Files) /\ Len(e) = 0
    BY <1>3
  <2>2. Tally(e, T) \in Nat /\ Tally(e, T) <= Len(e)
    BY <2>1, Tallied
  <2> QED BY <2>1, <2>2
<1>5. \A m \in Modes : Taken(m) = 0 /\ passed_samples(m) = 0
  BY <1>1, <1>3, <1>4 DEF Taken, passed_samples
<1>6. Course(1, 0, 0)
  BY IterationsAssumption DEF Course, LastWarm
<1>7. OnCourse
  BY <1>1, <1>5, <1>6 DEF OnCourse, Modes
<1>8. \A m \in Modes : Tally(phases, {[name |-> m, status |-> "passed"]}) <= passed_samples(m)
  BY <1>1, <1>4, <1>5
<1> QED BY <1>1, <1>2, <1>5, <1>7, <1>8, IterationsAssumption DEF Sampling, Accounted

LEMMA SamplesMove ==
    ASSUME LabInv, Sampling, Accounted, LabMoves PROVE Sampling' /\ Accounted'
<1>1. CASE UNCHANGED <<lab, stage, op, status, phases, samples>>
  BY <1>1 DEF Sampling, Accounted, OnCourse, FailedPhase, Taken, passed_samples
<1>2. CASE InStage /\ Op # "smoke" /\ samples' = samples /\ (Advance \/ Raise)
  BY <1>2, SampleStage, PlainStage DEF LabInv
<1>3. ASSUME InStage, Op = "smoke", NEW f \in Files, Sampled(f), (Advance /\ f = "passed") \/ Raise
      PROVE  Sampling' /\ Accounted'
  <2>1. CASE Stage.phase \in Modes
    BY <1>3, <2>1, SamplingStage
  <2>2. CASE Stage.phase \notin Modes
    BY <1>3, <2>2, PlainStage DEF Sampled
  <2> QED BY <2>1, <2>2
<1> QED BY <1>1, <1>2, <1>3, SampleCases DEF Files

LEMMA SamplesStep == LabInv /\ Sampling /\ Accounted /\ [Next]_vars => Sampling' /\ Accounted'
<1> SUFFICES ASSUME LabInv, Sampling, Accounted, [Next]_vars PROVE Sampling' /\ Accounted'
  OBVIOUS
<1>1. ASSUME LabRest PROVE Sampling' /\ Accounted'
  BY <1>1 DEF LabRest, labVars, Sampling, Accounted, OnCourse, FailedPhase, Taken, passed_samples
<1>2. ASSUME NEW w, LabReset(w) PROVE Sampling' /\ Accounted'
  <2>1. phases' = <<>> /\ status' = "passed" /\ stage' = 1 /\ samples' = [m \in Modes |-> <<>>]
    BY <1>2 DEF LabReset
  <2>2. NoneYet'
    BY <2>1 DEF NoneYet
  <2>3. NoneYet' => Sampling' /\ Accounted'
    BY NothingYet, PTL
  <2> QED BY <2>2, <2>3
<1>3. CASE Begin
  BY <1>2, <1>3 DEF Begin, LabBegin, LabAside
<1>4. CASE UNCHANGED vars
  BY <1>1, <1>4 DEF vars, LabRest
<1> QED BY <1>1, <1>3, <1>4, SamplesMove, StepCases

(* The written report is true, for every number of iterations: passed      *)
(* means that every phase and every sample passed and the tool exits with  *)
(* 0; a failure is carried by a phase or fell between two warm samples;    *)
(* and the summary counts every sample phase that passed                   *)
(* (xolis_aws_lab.py 286-288, 373-388, 421-437).                           *)
THEOREM ReportsTellTruth == Spec => []ReportTellsTruth
<1>1. Init => Agreeing /\ Sampling /\ Accounted
  <2>1. Init => /\ phases = <<>> /\ status = "passed" /\ report = "none"
                /\ stage = 1 /\ samples = [m \in Modes |-> <<>>]
    BY DEF Init, LabInit
  <2>2. phases = <<>> => Len(phases) = 0
    OBVIOUS
  <2> QED BY <2>1, <2>2, NothingYet DEF Agreeing, NoneYet
<1>2. LabInv /\ Agreeing /\ Sampling /\ Accounted => ReportTellsTruth
  <2> SUFFICES ASSUME LabInv, Agreeing, Sampling, Accounted, report # "none" PROVE ReportTellsTruth
    BY DEF ReportTellsTruth
  <2>1. /\ DOMAIN phases = 1..Len(phases) /\ Finished /\ lab \in Reporting
        /\ report = status
    BY DEF LabInv, Located, Agreeing
  <2>2. ReportMatchesPhases
    BY <2>1 DEF Agreeing, ReportMatchesPhases
  <2>3. ASSUME report = "passed", lab = "benchmark", NEW m \in Modes PROVE passed_samples(m) = Iterations
    <3>1. stage = LastWarm + 3
      BY <2>1, <2>3, BenchmarkStages, IterationsAssumption DEF Finished, LastWarm
    <3>2. OnCourse /\ passed_samples(m) = Taken(m)
      BY <2>1, <2>3 DEF Sampling
    <3>3. Taken("cold") = Iterations /\ Taken("warm") = Iterations
      BY <3>1, <3>2, IterationsAssumption DEF OnCourse, Course, LastWarm
    <3> QED BY <3>2, <3>3 DEF Modes
  <2>4. report = "failed" => \/ \E n \in DOMAIN phases : phases[n].status = "failed"
                             \/ lab = "benchmark" /\ Len(samples["warm"]) \in 1..(Iterations - 1)
    BY <2>1 DEF Accounted, FailedPhase, Taken
  <2>5. \A m \in Modes : completed_samples(m) <= Iterations
    <3> SUFFICES ASSUME NEW m \in Modes PROVE completed_samples(m) <= Iterations
      OBVIOUS
    <3>1. samples[m] \in Seq(Files)
      BY DEF Sampling
    <3>2. completed_samples(m) \in Nat /\ completed_samples(m) <= Len(samples[m])
      BY <3>1, Tallied DEF completed_samples
    <3>3. Len(samples[m]) \in Nat /\ Len(samples[m]) <= Iterations
      <4>1. CASE lab = "benchmark"
        BY <3>1, <4>1 DEF Sampling, Taken
      <4>2. CASE lab # "benchmark"
        <5>1. samples[m] = <<>>
          BY <4>2 DEF Sampling
        <5>2. Len(samples[m]) = 0
          BY <5>1
        <5> QED BY <5>2, IterationsAssumption
      <4> QED BY <4>1, <4>2
    <3> QED BY <3>2, <3>3, IterationsAssumption
  <2>6. \A m \in Modes : Tally(phases, {[name |-> m, status |-> "passed"]}) <= passed_samples(m)
    BY DEF Accounted
  <2> QED BY <2>2, <2>3, <2>4, <2>5, <2>6 DEF ReportTellsTruth
<1> QED BY <1>1, <1>2, LabInvariant, AgreeingStep, SamplesStep, PTL DEF Spec

-----------------------------------------------------------------------------
(* The types of the workbench. *)

Clocked == late \in BOOLEAN /\ interrupts \in 0..MaxInterrupts

LEMMA Interrupted ==
    ASSUME interrupts \in 0..MaxInterrupts, Interrupt \/ UNCHANGED interrupts
    PROVE  interrupts' \in 0..MaxInterrupts
BY ClusterAssumption DEF Interrupt

LEMMA LabClock ==
    ASSUME Clocked, LabMoves PROVE Clocked'
<1>1. late' \in BOOLEAN /\ (Interrupt \/ UNCHANGED interrupts)
  <2> USE DEF Clocked, Command, Outcome, Plain, Error, Advance, Raise, Step
  <2>1. CASE LabDeadline \/ WaitFails \/ LabEnd
    BY <2>1 DEF LabDeadline, WaitFails, LabEnd
  <2>2. CASE LabCommand \/ cleanup_test_resources \/ run_service_smoke
    BY <2>2 DEF LabCommand, cleanup_test_resources, run_service_smoke
  <2>3. CASE ReadInstances \/ ReadNodes
    BY <2>3 DEF ReadInstances, ReadNodes
  <2>4. ASSUME NEW n \in 0..1, PollPool(n) PROVE late' \in BOOLEAN /\ UNCHANGED interrupts
    BY <2>4 DEF PollPool
  <2> QED BY <2>1, <2>2, <2>3, <2>4 DEF LabMoves, LabStep
<1> QED BY <1>1, Interrupted DEF Clocked

LEMMA DemoClock ==
    ASSUME Clocked, DemoMoves PROVE Clocked'
<1>1. late' \in BOOLEAN /\ (Interrupt \/ UNCHANGED interrupts)
  <2> USE DEF Command, Outcome, Does, Goto, Passes, Raises, Cleans, Warns, CutShort
  <2>1. CASE DemoDeadline \/ PollFails
    BY <2>1 DEF DemoDeadline, PollFails
  <2>2. CASE prepare_runtime_class \/ ensure_prerequisites \/ verify_prepared_environment
             \/ apply_egress \/ deployment_environment
    BY <2>2 DEF prepare_runtime_class, ensure_prerequisites, verify_prepared_environment,
                apply_egress, deployment_environment
  <2>3. CASE prepare_profile \/ set_env \/ rollout_status \/ warm
    BY <2>3 DEF prepare_profile, set_env, rollout_status, warm
  <2>4. CASE wait_for_warm_pool \/ wait_running
    BY <2>4 DEF wait_for_warm_pool, wait_running, Polls
  <2>5. CASE PortForward \/ create \/ interactive_session
    BY <2>5 DEF PortForward, create, interactive_session
  <2>6. CASE delete_sandbox \/ PortForwardExit
    BY <2>6 DEF delete_sandbox, PortForwardExit
  <2>7. CASE scale_to_zero \/ restore_api
    BY <2>7 DEF scale_to_zero, restore_api
  <2> QED BY <2>1, <2>2, <2>3, <2>4, <2>5, <2>6, <2>7 DEF DemoMoves, DemoStep
<1> QED BY <1>1, Interrupted DEF Clocked

LEMMA BuildClock ==
    ASSUME Clocked, BuildMoves PROVE Clocked'
<1>1. late' \in BOOLEAN /\ (Interrupt \/ UNCHANGED interrupts)
  <2> USE DEF Next_, Then, Fail, Outcome, Leaves
  <2>1. CASE BuildDeadline \/ BuildPollFails
    BY <2>1 DEF BuildDeadline, BuildPollFails
  <2>2. CASE upload_source \/ lookup \/ launch_instance \/ send_build
    BY <2>2 DEF upload_source, lookup, launch_instance, send_build, Calls
  <2>3. CASE wait_for_instance \/ wait_for_command \/ image_references
    BY <2>3 DEF wait_for_instance, wait_for_command, image_references, Poll
  <2>4. CASE terminate_instances \/ remove_source
    BY <2>4 DEF terminate_instances, remove_source, Cleanup, Skips
  <2>5. CASE verify_terminated("wait_terminated", "verify") \/ verify_terminated("verify", "remove")
    BY <2>5 DEF verify_terminated
  <2>6. CASE delete_objects \/ BuildEnds
    BY <2>6 DEF delete_objects, BuildEnds
  <2> QED BY <2>1, <2>2, <2>3, <2>4, <2>5, <2>6 DEF BuildMoves, BuildStep
<1> QED BY <1>1, Interrupted DEF Clocked

(* The group is asked for one node or none. *)
Sized == desired \in 0..1 /\ served \subseteq Instances

LEMMA LabSized == ASSUME Sized, LabMoves PROVE Sized'
<1>1. CASE UNCHANGED <<desired, served>>
  BY <1>1 DEF Sized
<1>2. CASE NoEffect
  BY <1>1, <1>2 DEF NoEffect, clusterVars
<1>3. CASE LabEffect /\ LabCommand
  BY <1>3 DEF Sized, LabEffect, LabCommand, update_kubeconfig, scale_autoscaling_group,
              set_warm_pool, Deploy, NoEffect, clusterVars, SetDesired, SetPool
<1> QED BY <1>1, <1>2, <1>3, LabCases

LEMMA ClusterStep ==
    Clocked /\ Sized /\ [Next]_vars => Clocked' /\ Sized'
<1> SUFFICES ASSUME Clocked, Sized, [Next]_vars PROVE Clocked' /\ Sized'
  OBVIOUS
<1>1. CASE UNCHANGED <<late, interrupts, desired, served>>
  BY <1>1 DEF Clocked, Sized
<1>2. CASE LabMoves
  BY <1>2, LabClock, LabSized
<1>3. CASE DemoMoves
  BY <1>3, DemoClock, DemoCases DEF Sized
<1>4. CASE BuildMoves
  BY <1>4, BuildClock, BuildCases DEF Sized, clusterVars
<1>5. ASSUME NEW i \in Instances, NodeStep(i) PROVE Clocked' /\ Sized'
  BY <1>5 DEF NodeStep, Clocked, Sized, Launch, EntersService, Terminates, Goes, Joins,
              BecomesReady, NodeRemoved
<1>6. ASSUME NEW p \in Pools, PoolStep(p) PROVE Clocked' /\ Sized'
  BY <1>1, <1>6 DEF PoolStep
<1>7. CASE ClaimExpires \/ RemoteStep
  BY <1>1, <1>7 DEF ClaimExpires, RemoteStep, clusterVars
<1>8. CASE UNCHANGED vars
  BY <1>1, <1>8 DEF vars, clusterVars
<1>9. CASE Begin
  BY <1>9 DEF Begin, LabBegin, DemoBegin, BuildBegin, clusterVars, Clocked, Sized, InService
<1> QED BY <1>2, <1>3, <1>4, <1>5, <1>6, <1>7, <1>8, <1>9, StepCases

(* The rest of what the lab knows. *)
LabKnows ==
    /\ ids \in {Unread} \cup SUBSET Instances /\ report \in {"none", "passed", "failed"}
    /\ labExit \in {"none", "ok", "error"} /\ stopTried \in BOOLEAN

LEMMA LabKnowsStep == Agreeing /\ LabKnows /\ [Next]_vars => LabKnows'
<1> SUFFICES ASSUME Agreeing, LabKnows, [Next]_vars PROVE LabKnows'
  OBVIOUS
<1>1. CASE LabRest
  BY <1>1 DEF LabRest, labVars, LabKnows
<1>2. ASSUME NEW w, LabReset(w) PROVE LabKnows'
  BY <1>2 DEF LabReset, LabKnows
<1>3. CASE Begin
  BY <1>2, <1>3 DEF Begin, LabBegin, LabAside
<1>4. CASE UNCHANGED vars
  BY <1>1, <1>4 DEF vars, LabRest
<1>5. CASE LabMoves
  <2>1. CASE Advance \/ Raise
    BY <2>1 DEF Advance, Raise, Step, LabKnows
  <2>2. CASE LabEnd
    BY <2>2 DEF LabEnd, LabKnows, Agreeing
  <2>3. CASE ReadInstances
    BY <2>3 DEF ReadInstances, sandbox_instance_ids, InService, Listed, LabKnows
  <2>4. CASE ReadNodes
    BY <2>1, <2>4 DEF ReadNodes, LabKnows
  <2>5. CASE UNCHANGED labVars
    BY <1>1, <2>5 DEF LabRest
  <2> QED BY <1>5, <2>1, <2>2, <2>3, <2>4, <2>5, LabCases
<1> QED BY <1>1, <1>3, <1>4, <1>5, StepCases

LEMMA DemoTypeMoves == ASSUME DemoTypeOK, PoolsOK, DemoMoves PROVE DemoTypeOK'
<1> USE DEF DemoTypeOK, PoolsOK, Envs, Command, Outcome, Does, Goto, Passes, Raises, Locals, NoRead,
            Kept, Cleans, Warns, CutShort
<1>1. CASE DemoDeadline \/ PollFails
  BY <1>1 DEF DemoDeadline, PollFails, demoVars
<1>2. CASE prepare_runtime_class \/ ensure_prerequisites \/ verify_prepared_environment
           \/ apply_egress
  BY <1>2 DEF prepare_runtime_class, ensure_prerequisites, verify_prepared_environment, apply_egress
<1>3. CASE prepare_profile \/ set_env \/ warm
  BY <1>3 DEF prepare_profile, set_env, warm
<1>4. CASE deployment_environment \/ rollout_status
  BY <1>4 DEF deployment_environment, rollout_status
<1>5. CASE wait_for_warm_pool \/ wait_running
  BY <1>5 DEF wait_for_warm_pool, wait_running, Polls
<1>6. CASE PortForward \/ interactive_session
  BY <1>6 DEF PortForward, interactive_session
<1>7. CASE create
  BY <1>7 DEF create
<1>8. CASE delete_sandbox
  BY <1>8 DEF delete_sandbox
<1>9. CASE PortForwardExit
  BY <1>9 DEF PortForwardExit
<1>10. CASE scale_to_zero \/ restore_api
  BY <1>10 DEF scale_to_zero, restore_api
<1> QED BY <1>1, <1>2, <1>3, <1>4, <1>5, <1>6, <1>7, <1>8, <1>9, <1>10 DEF DemoMoves, DemoStep

LEMMA DemoTypeStep == DemoTypeOK /\ PoolsOK /\ [Next]_vars => DemoTypeOK'
<1> SUFFICES ASSUME DemoTypeOK, PoolsOK, [Next]_vars PROVE DemoTypeOK'
  OBVIOUS
<1>1. CASE DemoRest
  BY <1>1 DEF DemoRest, demoVars, DemoTypeOK
<1>2. ASSUME NEW first \in {"idle", "prerequisites", "runtime_class"}, NEW u \in BOOLEAN,
             NEW k \in BOOLEAN, DemoReset(first, u, k)
      PROVE  DemoTypeOK'
  BY <1>2 DEF DemoReset, DemoTypeOK
<1>3. CASE Begin
  <2>1. CASE DemoAside
    BY <1>2, <2>1 DEF DemoAside
  <2>2. CASE DemoBegin(Head(plan) = "demo_use", Head(plan) = "demo_keep")
    <3>1. PICK u \in BOOLEAN, k \in BOOLEAN : DemoBegin(u, k)
      BY <2>2
    <3> QED BY <1>2, <3>1 DEF DemoBegin
  <2> QED BY <1>3, <2>1, <2>2 DEF Begin
<1>4. CASE ClaimExpires
  BY <1>4 DEF ClaimExpires, DemoTypeOK
<1>5. CASE UNCHANGED vars
  BY <1>1, <1>5 DEF vars, DemoRest
<1> QED BY <1>1, <1>3, <1>4, <1>5, DemoTypeMoves, StepCases

(* What a move of the builder leaves alone, as in BuildMovesHold. *)
LEMMA BuildTypeMoves == ASSUME BuildTypeOK, BuildMoves PROVE BuildTypeOK'
<1> USE DEF Next_, Then, Fail, Outcome, Frame, NoCall, aws, Leaves
<1>1. UNCHANGED <<nydus, line>>
  <2>1. CASE BuildDeadline
    BY <2>1 DEF BuildDeadline, buildVars
  <2> QED BY <2>1 DEF BuildMoves, BuildStep, BuildPollFails, upload_source, lookup,
             launch_instance, wait_for_instance, send_build, wait_for_command, image_references,
             terminate_instances, verify_terminated, remove_source, delete_objects, BuildEnds,
             Calls, Poll, Cleanup, Skips
<1>2. build_commands' = build_commands /\ Tags' = Tags
  BY <1>1 DEF build_commands, Tags
<1>3. ASSUME ec2' \in {ec2, "pending", "shutting-down"},
             objects' \subseteq {"version", "marker"},
             invocation' \in {invocation, "Pending"}, references' \in {references, Tags},
             buildExit' \in {buildExit, "ok", "error"}
      PROVE  BuildTypeOK'
  BY <1>1, <1>2, <1>3 DEF BuildTypeOK
<1>o. objects \subseteq {"version", "marker"}
  BY DEF BuildTypeOK
<1>4. CASE BuildDeadline \/ BuildPollFails
  BY <1>3, <1>4, <1>o DEF BuildDeadline, BuildPollFails, buildVars
<1>5. CASE upload_source
  BY <1>3, <1>5, <1>o DEF upload_source
<1>6. CASE lookup \/ launch_instance \/ send_build
  BY <1>3, <1>6, <1>o DEF lookup, launch_instance, send_build, Calls
<1>7. CASE wait_for_instance \/ wait_for_command \/ image_references
  BY <1>3, <1>7, <1>o DEF wait_for_instance, wait_for_command, image_references, Poll
<1>8. CASE terminate_instances
  BY <1>3, <1>8, <1>o DEF terminate_instances, Cleanup, Skips
<1>9. CASE verify_terminated("wait_terminated", "verify") \/ verify_terminated("verify", "remove")
  BY <1>3, <1>9, <1>o DEF verify_terminated
<1>10. CASE remove_source
  BY <1>3, <1>10, <1>o DEF remove_source, Cleanup, Skips
<1>11. CASE delete_objects
  BY <1>3, <1>11, <1>o DEF delete_objects
<1>12. CASE BuildEnds
  BY <1>3, <1>12, <1>o DEF BuildEnds
<1> QED BY <1>4, <1>5, <1>6, <1>7, <1>8, <1>9, <1>10, <1>11, <1>12 DEF BuildMoves, BuildStep

(* The script has an end, whatever is converted. *)
ScriptSized == nydus \subseteq Images => Len(build_commands) \in Nat

LEMMA ScriptIsSized == ScriptSized
BY ScriptChecks DEF ScriptSized

LEMMA BuildTypeStep == BuildInv /\ BuildTypeOK /\ [Next]_vars => BuildTypeOK'
<1> SUFFICES ASSUME BuildInv, BuildTypeOK, [Next]_vars PROVE BuildTypeOK'
  OBVIOUS
<1>1. CASE BuildRest
  <2>1. build_commands' = build_commands /\ Tags' = Tags
    BY <1>1 DEF BuildRest, buildVars, build_commands, Tags
  <2> QED BY <1>1, <2>1 DEF BuildRest, buildVars, BuildTypeOK
<1>2. CASE RemoteStep
  <2>1. UNCHANGED <<nydus, objects, references, buildExit>> /\ build_commands' = build_commands
        /\ Tags' = Tags
    BY <1>2 DEF RemoteStep, build_commands, Tags
  <2>2. Len(build_commands) \in Nat
    BY ScriptChecks DEF BuildInv, Executed
  <2>3. line' \in 1..(Len(build_commands) + 1)
    BY <1>2, <2>2 DEF RemoteStep, ScriptLine, ScriptEnds, Invoked, InstanceMoves, BuildTypeOK
  <2> QED BY <1>2, <2>1, <2>3 DEF RemoteStep, ScriptLine, ScriptEnds, Invoked, InstanceMoves,
             StopsAt, BuildTypeOK
<1>3. ASSUME NEW n \in Converted, NEW k, BuildBegin(k, n) PROVE BuildTypeOK'
  <2>1. ScriptSized'
    BY ScriptIsSized, PTL
  <2>2. Len(build_commands') \in Nat
    BY <1>3, <2>1, ImagesAssumption DEF BuildBegin, ScriptSized
  <2> QED BY <1>3, <2>2 DEF BuildBegin, BuildTypeOK
<1>4. CASE Begin
  BY <1>1, <1>3, <1>4 DEF Begin
<1>5. CASE UNCHANGED vars
  BY <1>1, <1>5 DEF vars, BuildRest
<1> QED BY <1>1, <1>2, <1>4, <1>5, BuildTypeMoves, StepCases

(* Every variable of the cluster and of the three tools keeps its type,    *)
(* for every plan of the operator.                                         *)
THEOREM WorkbenchTypeCorrect == Spec => []TypeOK
<1> DEFINE Rest == Clocked /\ Sized /\ LabKnows /\ DemoTypeOK /\ BuildTypeOK
<1>1. Init => Rest /\ Agreeing
  <2> SUFFICES ASSUME Init PROVE Rest /\ Agreeing
    OBVIOUS
  <2>1. Clocked /\ Sized /\ LabKnows
    <3>1. desired = 0 /\ served = {} /\ interrupts = 0 /\ late = FALSE
      BY DEF Init, ClusterInit
    <3>2. LabKnows
      BY DEF Init, LabInit, LabKnows
    <3>3. late \in BOOLEAN /\ served \subseteq Instances
      BY <3>1
    <3>4. desired \in 0..1 /\ interrupts \in 0..MaxInterrupts
      BY <3>1, ClusterAssumption
    <3> QED BY <3>2, <3>3, <3>4 DEF Clocked, Sized
  <2>2. DemoTypeOK
    BY DEF Init, DemoInit, DemoTypeOK
  <2>3. Len(build_commands) \in Nat
    BY ScriptChecks DEF Init, BuildInit
  <2>4. BuildTypeOK
    BY <2>3 DEF Init, BuildInit, BuildTypeOK
  <2>5. Agreeing
    <3>1. phases = <<>> /\ status = "passed" /\ report = "none"
      BY DEF Init, LabInit
    <3>2. Len(phases) = 0
      BY <3>1
    <3> QED BY <3>1, <3>2 DEF Agreeing
  <2> QED BY <2>1, <2>2, <2>4, <2>5
<1>2. LabInv /\ Agreeing /\ PoolsOK /\ Rest => TypeOK
  <2> SUFFICES ASSUME LabInv, Agreeing, PoolsOK, Rest PROVE TypeOK
    OBVIOUS
  <2>1. ClusterTypeOK
    BY DEF ClusterTypeOK, LabInv, ClusterOK, PoolsOK, Envs, Clocked, Sized
  <2>2. counted \subseteq Instances
    BY DEF LabInv, Counting, Sized
  <2>3. LabTypeOK
    BY <2>2 DEF LabTypeOK, LabInv, Located, Agreeing, LabKnows, InStage, LabRunning
  <2> QED BY <2>1, <2>3 DEF TypeOK
<1>3. BuildInv /\ PoolsOK /\ Agreeing /\ Rest /\ [Next]_vars => Rest'
  BY ClusterStep, LabKnowsStep, DemoTypeStep, BuildTypeStep
<1> HIDE DEF Rest
<1> QED BY <1>1, <1>2, <1>3, LabInvariant, BuildInvariant, DemoInvariant, AgreeingStep, PTL DEF Spec

=============================================================================
