------------------------------- MODULE AwsLab -------------------------------
(***************************************************************************)
(* The lab workflows of tools/xolis_aws_lab.py (class AwsLab): node start  *)
(* and stop, bootstrap, cycle, service and benchmark.  A workflow is a     *)
(* sequence of stages; a stage is a try block (often one phase) made of    *)
(* operations, and names the stage that an exception leads to.             *)
(*                                                                         *)
(* Kept: the order of the operations, which exceptions are caught where,   *)
(* the two separate readings of wait_for_nodes, deadlines, the phases, the *)
(* report and the sample counts of the summary.  Abstracted: arguments and *)
(* output of the commands, timings, dry runs, missing manifest files (an   *)
(* operation that fails without effect), and one node as desired size.     *)
(***************************************************************************)
EXTENDS Cluster, Sequences, SequencesExt

CONSTANT Iterations   \* samples of each mode in a benchmark

ASSUME IterationsAssumption == Iterations \in Nat \ {0}

VARIABLES lab,        \* the workflow that runs or ran last, or "idle"
          stage, op,  \* the operation in progress
          ids,        \* instance_ids of wait_for_nodes, or Unread
          status,     \* status of service and benchmark; otherwise: did it raise
          phases,     \* phase_results
          samples,    \* benchmark: the report file of each sample, per mode
          report,     \* status in workflow-report.json, or "none"
          labExit,    \* "none" while running, then what main returns
          counted,    \* observer: the nodes wait_for_nodes counted as Ready
          stopTried   \* observer: a stage with stop_node was entered

labVars == <<lab, stage, op, ids, status, phases, samples, report, labExit, counted, stopTried>>

Unread == {0}
Workflows == {"start", "stop", "bootstrap", "cycle", "service", "benchmark"}
Modes == {"cold", "warm"}

-----------------------------------------------------------------------------
(* The workflows as data. *)

start_node == <<"update_kubeconfig", "scale_up", "wait_up">>
stop_node == <<"update_kubeconfig", "scale_down", "wait_down">>
bootstrap == <<"update_kubeconfig", "command">>

Phase(name, ops) == [phase |-> name, ops |-> ops]
Unnamed(ops) == [phase |-> "none", ops |-> ops]
OnFailure(part, next) == [phase |-> part.phase, ops |-> part.ops, onFail |-> next]

\* Slip: the body is not guarded, so its exception ends the workflow.
GuardedSlip(body, cleanups) ==
    LET last == Len(body) + Len(cleanups) + 1
    IN  [n \in 1..(last - 1) |->
            IF n <= Len(body) THEN OnFailure(body[n], last)
                              ELSE OnFailure(cleanups[n - Len(body)], n + 1)]

(* try: body except BaseException: ..., then each cleanup in a try of its own. *)
Guarded(body, cleanups) ==
    [n \in 1..(Len(body) + Len(cleanups)) |->
        IF n <= Len(body) THEN OnFailure(body[n], Len(body) + 1)
                          ELSE OnFailure(cleanups[n - Len(body)], n + 1)]

\* Slip: the cycle does not wait for the nodes it stops.
cycleSlip == << OnFailure(Unnamed(start_node), 4),
                OnFailure(Unnamed(bootstrap \o <<"command", "command", "command">>), 3),
                OnFailure(Unnamed(<<"cleanup_test_resources", "update_kubeconfig", "scale_down">>), 4) >>

(* The start is outside the try; cleanup and stop share its finally. *)
cycle == << OnFailure(Unnamed(start_node), 4),
            OnFailure(Unnamed(bootstrap \o <<"command", "command", "command">>), 3),
            OnFailure(Unnamed(<<"cleanup_test_resources">> \o stop_node), 4) >>

Deployed == << Phase("node_start", start_node), Phase("runtime_bootstrap", bootstrap),
               Phase("agent_sandbox_install", <<"command">>),
               Phase("service_deploy", <<"deploy">>) >>

service ==
    Guarded(Deployed \o << Phase("service_acceptance", <<"smoke">>),
                           Phase("resource_snapshot", <<"command">>) >>,
            << Phase("node_stop", stop_node) >>)

ColdSamples == [n \in 1..Iterations |-> Phase("cold", <<"smoke">>)]

(* From the second warm sample on, the replenished pool is waited for      *)
(* before the phase of the sample begins.                                  *)
WarmSamples ==
    [n \in 1..(2 * Iterations - 1) |->
        IF n % 2 = 1 THEN Phase("warm", <<"smoke">>) ELSE Unnamed(<<"wait_pool_1">>)]

benchmark ==
    Guarded(Deployed \o << Phase("cold_pool_ready", <<"set_pool_0", "wait_pool_0">>) >>
              \o ColdSamples
              \o << Phase("warm_pool_ready", <<"set_pool_1", "wait_pool_1">>) >>
              \o WarmSamples,
            << Phase("warm_pool_cleanup", <<"set_pool_0", "wait_pool_0">>),
               Phase("node_stop", stop_node) >>)

Workflow(w) ==
    CASE w = "start" -> << OnFailure(Unnamed(start_node), 2) >>
      [] w = "stop" -> << OnFailure(Unnamed(stop_node), 2) >>
      [] w = "bootstrap" -> << OnFailure(Unnamed(bootstrap), 2) >>
      [] w = "cycle" -> cycle
      [] w = "service" -> service
      [] w = "benchmark" -> benchmark

-----------------------------------------------------------------------------
LabInit ==
    /\ lab = "idle" /\ stage = 1 /\ op = 1 /\ ids = Unread
    /\ status = "passed" /\ phases = <<>> /\ samples = [m \in Modes |-> <<>>]
    /\ report = "none" /\ labExit = "none" /\ counted = {} /\ stopTried = FALSE

LabRunning == lab # "idle" /\ labExit = "none"
Stage == Workflow(lab)[stage]
InStage == LabRunning /\ stage <= Len(Workflow(lab))
Op == Stage.ops[op]

\* Slip: the phase is recorded in the finally alone, as passed.
PhaseEndsSlip(s) ==
    IF Stage.phase = "none" THEN phases ELSE Append(phases, [name |-> Stage.phase, status |-> "passed"])

(* The context manager phase. *)
PhaseEnds(s) ==
    IF Stage.phase = "none" THEN phases ELSE Append(phases, [name |-> Stage.phase, status |-> s])

Step == /\ late' = FALSE /\ ids' = Unread
        /\ stopTried' = (stopTried \/ Contains(Stage.ops, "scale_down"))
        /\ UNCHANGED <<lab, report, labExit>>

Advance ==
    /\ IF op < Len(Stage.ops)
         THEN op' = op + 1 /\ UNCHANGED <<stage, phases>>
         ELSE op' = 1 /\ stage' = stage + 1 /\ phases' = PhaseEnds("passed")
    /\ Step /\ UNCHANGED status

Raise ==
    /\ op' = 1 /\ stage' = Stage.onFail /\ phases' = PhaseEnds("failed")
    /\ status' = "failed"
    /\ Step

Plain == Advance /\ UNCHANGED <<samples, counted>>
Error == Raise /\ UNCHANGED <<samples, counted>>

(* kubectl apply -k deploy: the manifests carry the native API environment *)
(* and no warm replicas.                                                   *)
Deploy == /\ apiEnv' = "native" /\ pool' = [pool EXCEPT !["python"].replicas = 0]
          /\ UNCHANGED <<desired, inst, node, served>>

scale_autoscaling_group(n) == SetDesired(n)
set_warm_pool(n) == SetPool("python", n)
update_kubeconfig == NoEffect

LabEffect ==
    CASE Op = "update_kubeconfig" -> update_kubeconfig
      [] Op = "scale_up" -> scale_autoscaling_group(1)
      [] Op = "scale_down" -> scale_autoscaling_group(0)
      [] Op = "set_pool_0" -> set_warm_pool(0)
      [] Op = "set_pool_1" -> set_warm_pool(1)
      [] Op = "deploy" -> Deploy
      [] OTHER -> NoEffect

LabCommand ==
    /\ Op \in {"update_kubeconfig", "scale_up", "scale_down", "command", "deploy",
               "set_pool_0", "set_pool_1"}
    /\ Command(LabEffect, Plain, Error, Error)

(* Only CalledProcessError is swallowed: an interrupt leaves the finally. *)
cleanup_test_resources ==
    /\ Op = "cleanup_test_resources"
    /\ Command(NoEffect, Plain, Plain, Error)

(* A smoke test takes the warm sandbox, and writes its own report at the   *)
(* end; one that fails or is interrupted may leave no report, or a "cut"   *)
(* one that json.loads rejects.                                            *)
Sampled(file) ==
    /\ samples' = IF Stage.phase \in Modes
                    THEN [samples EXCEPT ![Stage.phase] = Append(@, file)] ELSE samples
    /\ UNCHANGED counted

run_service_smoke ==
    /\ Op = "smoke"
    /\ Command(/\ pool' = [pool EXCEPT !["python"].ready = 0]
               /\ UNCHANGED <<desired, inst, node, apiEnv, served>>,
               Advance /\ Sampled("passed"),
               Raise /\ \E f \in {"failed", "absent", "cut"} : Sampled(f),
               Raise /\ \E f \in {"passed", "failed", "absent", "cut"} : Sampled(f))

Waiting == Op \in {"wait_up", "wait_down", "wait_pool_0", "wait_pool_1"}

(* InService here is LifecycleState "InService" and HealthStatus "Healthy":  *)
(* an instance the group has marked unhealthy counts as not in service yet. *)
sandbox_instance_ids(require_ready) == IF require_ready THEN InService ELSE Listed

(* wait_for_nodes reads the group first and the nodes afterwards. *)
ReadInstances ==
    /\ Op \in {"wait_up", "wait_down"} /\ ids = Unread
    /\ ids' = sandbox_instance_ids(Op = "wait_up")
    /\ UNCHANGED <<clusterVars, interrupts, late>>
    /\ UNCHANGED <<lab, stage, op, status, phases, samples, report, labExit, counted, stopTried>>

\* Slip: a Ready node is counted whatever its instance.
ReadySlip(known) == ReadyNodes

Ready(known) == ReadyNodes \cap known

NodesSettled(up, known) ==
    IF up THEN Ready(known) # {} ELSE Nodes = {} /\ known = {}

\* Slip: the loop has no deadline.
TimesOutSlip == FALSE

TimesOut == late

ReadNodes ==
    /\ Op \in {"wait_up", "wait_down"} /\ ids # Unread
    /\ UNCHANGED <<clusterVars, interrupts, samples>>
    /\ LET done == NodesSettled(Op = "wait_up", ids)
       IN  \/ /\ done /\ Advance
              /\ counted' = IF Op = "wait_up" THEN Ready(ids) ELSE counted
           \/ ~done /\ TimesOut /\ Raise /\ UNCHANGED counted
           \/ /\ ~done /\ ~TimesOut /\ ids' = Unread
              /\ UNCHANGED <<lab, stage, op, status, phases, report, labExit, counted,
                             stopTried, late>>

(* Each reading waits only for what it looks at: a poll that neither       *)
(* succeeds nor times out changes nothing.                                 *)
PollPool(n) ==
    /\ Op = (IF n = 0 THEN "wait_pool_0" ELSE "wait_pool_1")
    /\ LET done == pool["python"] = [replicas |-> n, ready |-> n]
       IN  \/ done /\ Plain
           \/ ~done /\ TimesOut /\ Error
    /\ UNCHANGED <<clusterVars, interrupts>>

(* A reading fails, or the wait is interrupted. *)
WaitFails == InStage /\ Waiting /\ NoEffect /\ Error /\ (UNCHANGED interrupts \/ Interrupt)

LabDeadline ==
    /\ InStage /\ Waiting /\ ~late /\ late' = TRUE
    /\ UNCHANGED <<clusterVars, interrupts, labVars>>

(* write_benchmark_summary reads every sample that was written, and raises *)
(* on a cut one.                                                           *)
SummaryFails ==
    lab = "benchmark" /\ \E m \in Modes : \E i \in DOMAIN samples[m] : samples[m][i] = "cut"

(* The report is written whatever happened, and the first failure raised,  *)
(* unless the benchmark's summary, written before it, raises.              *)
LabEnd ==
    /\ LabRunning /\ stage = Len(Workflow(lab)) + 1
    /\ report' = IF lab \in {"service", "benchmark"} /\ ~SummaryFails THEN status ELSE "none"
    /\ labExit' = IF status = "passed" /\ ~SummaryFails THEN "ok" ELSE "error"
    /\ UNCHANGED <<clusterVars, interrupts, late>>
    /\ UNCHANGED <<lab, stage, op, ids, status, phases, samples, counted, stopTried>>

LabStep ==
    \/ /\ InStage
       /\ \/ LabCommand \/ cleanup_test_resources \/ run_service_smoke
          \/ ReadInstances \/ ReadNodes \/ (\E n \in 0..1 : PollPool(n))
    \/ LabEnd

(* A fresh process: AwsLab.__init__ and main. *)
LabReset(w) ==
    /\ lab' = w /\ stage' = 1 /\ op' = 1 /\ ids' = Unread
    /\ status' = "passed" /\ phases' = <<>> /\ samples' = [m \in Modes |-> <<>>]
    /\ report' = "none" /\ labExit' = "none" /\ counted' = {} /\ stopTried' = FALSE

LabBegin(w) == /\ LabReset(w) /\ late' = FALSE /\ served' = InService
               /\ UNCHANGED <<desired, inst, node, pool, apiEnv, interrupts>>

-----------------------------------------------------------------------------
LabTypeOK ==
    /\ lab \in Workflows \cup {"idle"}
    /\ LabRunning => stage \in 1..(Len(Workflow(lab)) + 1) /\ (InStage => op \in 1..Len(Stage.ops))
    /\ ids \in {Unread} \cup SUBSET Instances
    /\ status \in {"passed", "failed"} /\ report \in {"none", "passed", "failed"}
    /\ labExit \in {"none", "ok", "error"}
    /\ counted \subseteq Instances /\ stopTried \in BOOLEAN

(* How many entries of s are one of T. *)
Tally(s, T) == Cardinality({n \in DOMAIN s : s[n] \in T})

(* write_benchmark_summary of one mode. *)
completed_samples(m) == Tally(samples[m], {"passed", "failed"})
passed_samples(m) == Tally(samples[m], {"passed"})

(* A cycle, service, benchmark or stop that exits with 0 has left nothing  *)
(* behind: the group is empty and no node object remains, although         *)
(* instances and nodes come and go between the two readings of             *)
(* wait_for_nodes (lines 494-520).                                         *)
ZeroAfterSuccess ==
    labExit = "ok" /\ lab \in {"stop", "cycle", "service", "benchmark"} => CapacityIsZero

(* start_node never takes the Ready node object of an earlier, terminated  *)
(* instance for a started one: every node it counted belongs to an         *)
(* instance that was in service during this run (lines 507-511).           *)
StartedOnLiveNode == counted \subseteq served

(* Whatever failed or was interrupted, a service or benchmark run that has *)
(* ended, with a report or without one, has tried to stop the nodes last;  *)
(* and if that phase passed, the capacity really is zero (lines 241-254,   *)
(* 293-314).                                                               *)
CleanupIsTried ==
    lab \in {"service", "benchmark"} /\ labExit # "none" =>
        /\ Last(phases).name = "node_stop"
        /\ Last(phases).status = "passed" => CapacityIsZero

(* The report, the exit and the phases agree (lines 241-254, 421-437). *)
ReportMatchesPhases ==
    report # "none" =>
        /\ (report = "passed") <=> (labExit = "ok")
        /\ report = "passed" => \A n \in DOMAIN phases : phases[n].status = "passed"

(* The written report is true: "passed" means that every phase and every   *)
(* sample passed and the tool exits with 0; in a failed run some phase     *)
(* carries the failure, unless it happened between two warm samples (the   *)
(* wait for the replenished pool is outside the phases); and the summary   *)
(* counts every sample phase that passed (lines 286-288, 373-388,          *)
(* 421-437).                                                               *)
ReportTellsTruth ==
    report # "none" =>
        /\ ReportMatchesPhases
        /\ report = "passed" /\ lab = "benchmark" =>
              \A m \in Modes : passed_samples(m) = Iterations
        /\ report = "failed" =>
              \/ \E n \in DOMAIN phases : phases[n].status = "failed"
              \/ lab = "benchmark" /\ Len(samples["warm"]) \in 1..(Iterations - 1)
        /\ \A m \in Modes :
              /\ Tally(phases, {[name |-> m, status |-> "passed"]}) <= passed_samples(m)
              /\ completed_samples(m) <= Iterations

(* Docs/Project-Status-and-Roadmap.md: cleanup paths attempt to return     *)
(* disposable capacity to zero after both success and failure.             *)
CycleReturnsCapacity ==
    lab = "cycle" /\ labExit # "none" /\ desired # 0 => stopTried
=============================================================================
