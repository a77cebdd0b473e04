----------------------------- MODULE HermesDemo -----------------------------
(***************************************************************************)
(* The demo workflow of tools/hermes_demo.py: main prepares the profile,   *)
(* the API environment and one warm sandbox (or checks prepared ones),     *)
(* forwards a port, creates a sandbox, runs the interactive session and    *)
(* undoes in its finally block what it prepared.                           *)
(*                                                                         *)
(* Kept: the order of the steps, what each changes, which failures the     *)
(* finally block survives, the local variables it decides on.  Abstracted: *)
(* the content of manifests, the mode (one profile and pool), the rollout  *)
(* of the deployment (a command that may fail), the sandbox's life in the  *)
(* store (one claim that is live or not), and the session, one step here   *)
(* and a module of its own in SessionProxy.                                *)
(***************************************************************************)
EXTENDS Cluster

VARIABLES pc,          \* the step of main in progress; "idle", "done"
          use, keep,   \* --use-prepared, --keep-prepared
          current,     \* configure_api's reading of the environment
          original,    \* original_api of main, or "none"
          known,       \* sandbox_id is not None
          claim,       \* the demo's sandbox exists
          fwd,         \* the port-forward process: "none", "running", "exited"
          warned,      \* a cleanup step failed and was reported
          cut,         \* an exception left the finally block
          failedAt,    \* observer: the step that raised, or "none"
          before       \* observer: the API environment when the demo began

demoVars == <<pc, use, keep, current, original, known, claim, fwd, warned, cut, failedAt, before>>

DemoInit ==
    /\ pc = "idle" /\ use = FALSE /\ keep = FALSE
    /\ current = "none" /\ original = "none" /\ known = FALSE /\ claim = FALSE
    /\ fwd = "none" /\ warned = FALSE /\ cut = FALSE /\ failedAt = "none" /\ before = "native"

DemoRunning == pc \notin {"idle", "done"}

-----------------------------------------------------------------------------
(* The steps of the try block: an exception leads to the finally block. *)

Goto(next) == pc' = next /\ late' = FALSE
Raises == Goto("delete") /\ failedAt' = pc

Passes(next) == Goto(next) /\ UNCHANGED failedAt
Locals == UNCHANGED <<use, keep, known, claim, fwd, warned, cut, before>>
NoRead == UNCHANGED <<current, original>>

Does(at, effect, next) ==
    /\ pc = at /\ Command(effect, Passes(next), Raises, Raises)
    /\ Locals /\ NoRead

prepare_runtime_class == Does("runtime_class", NoEffect, "prerequisites")

(* Any Ready node object with the label will do. *)
ensure_prerequisites ==
    /\ pc = "prerequisites"
    /\ Command(NoEffect,
               ReadyNodes # {} /\ Passes(IF use THEN "verify" ELSE "profile"), Raises, Raises)
    /\ Locals /\ NoRead

verify_prepared_environment ==
    /\ pc = "verify"
    /\ Command(NoEffect, apiEnv = "hermes" /\ Passes("wait_pool"), Raises, Raises)
    /\ Locals /\ NoRead

(* The applied profile declares a warm pool of no replicas. *)
prepare_profile == Does("profile", SetPool("hermes", 0), "egress")

apply_egress == Does("egress", NoEffect, IF use THEN "forward" ELSE "read_env")

(* configure_api: main learns the original environment only when all three *)
(* commands have succeeded.                                                *)
deployment_environment ==
    /\ pc = "read_env" /\ Command(NoEffect, Passes("set_env"), Raises, Raises)
    /\ current' = apiEnv /\ UNCHANGED original
    /\ Locals

set_env == Does("set_env", SetApiEnv("hermes"), "rollout")

rollout_status ==
    /\ pc = "rollout"
    /\ Command(NoEffect, Passes("warm") /\ original' = current,
               Raises /\ UNCHANGED original, Raises /\ UNCHANGED original)
    /\ UNCHANGED current
    /\ Locals

warm == Does("warm", SetPool("hermes", 1), "wait_pool")

Polling == pc \in {"wait_pool", "running"}

DeadlinePassed == late

(* A loop until the deadline: each turn reads, and returns or goes on. *)
Polls(at, done, next) ==
    /\ pc = at /\ NoEffect /\ Locals /\ NoRead
    /\ \/ ~DeadlinePassed /\ done /\ Passes(next) /\ UNCHANGED interrupts
       \/ DeadlinePassed /\ Raises /\ UNCHANGED interrupts

(* A reading fails, or the wait is interrupted. *)
PollFails ==
    /\ Polling /\ NoEffect /\ Locals /\ NoRead
    /\ Raises /\ (UNCHANGED interrupts \/ Interrupt)

wait_for_warm_pool ==
    Polls("wait_pool", pool["hermes"] = [replicas |-> 1, ready |-> 1],
          IF use THEN "egress" ELSE "forward")

DemoDeadline ==
    /\ Polling /\ ~late /\ late' = TRUE
    /\ UNCHANGED <<clusterVars, interrupts, demoVars>>

(* PortForward.__enter__: the process answers in time, exits or does not   *)
(* answer.                                                                 *)
PortForward ==
    /\ pc = "forward" /\ fwd' \in {"running", "exited"}
    /\ Command(NoEffect, fwd' = "running" /\ Passes("create"), Raises, Raises)
    /\ UNCHANGED <<use, keep, known, claim, warned, cut, before>> /\ NoRead

(* POST: the API refuses a profile it is not configured for; the answer    *)
(* can be lost after the claim was stored.                                 *)
create ==
    /\ pc = "create"
    /\ \/ /\ apiEnv = "hermes" /\ claim' = TRUE
          /\ pool' = [pool EXCEPT !["hermes"].ready = 0]
          /\ UNCHANGED <<desired, inst, node, apiEnv, served>>
          /\ \/ Passes("running") /\ known' = TRUE /\ UNCHANGED interrupts
             \/ Raises /\ UNCHANGED known /\ (UNCHANGED interrupts \/ Interrupt)
       \/ /\ Raises /\ NoEffect /\ UNCHANGED <<claim, known>>
          /\ (UNCHANGED interrupts \/ Interrupt)
    /\ UNCHANGED <<use, keep, fwd, warned, cut, before>> /\ NoRead

wait_running == Polls("running", claim, "session")

(* The session returns its exit code, also when it is interrupted, or      *)
(* raises; it lasts at most its TTL.                                       *)
interactive_session ==
    /\ pc = "session" /\ Command(NoEffect, Passes("delete"), Raises, Passes("delete"))
    /\ Locals /\ NoRead

-----------------------------------------------------------------------------
(* The finally block: an Exception is a warning, a KeyboardInterrupt or    *)
(* what is not in a try leaves it.                                         *)

Warns(next) == Goto(next) /\ warned' = TRUE /\ UNCHANGED cut
Cleans(next) == Goto(next) /\ UNCHANGED <<warned, cut>>
CutShort == Goto("done") /\ cut' = TRUE /\ UNCHANGED warned
Kept == UNCHANGED <<use, keep, current, original, known, failedAt, before>>

delete_sandbox ==
    /\ pc = "delete"
    /\ \/ ~known /\ Cleans("unforward") /\ NoEffect /\ UNCHANGED <<claim, interrupts>>
       \/ /\ known /\ claim' \in {claim, FALSE}
          /\ Command(NoEffect, claim' = FALSE /\ Cleans("unforward"), Warns("unforward"), CutShort)
    /\ Kept /\ UNCHANGED fwd

(* forwarding.__exit__ is not in a try: a process that survives its kill   *)
(* for five seconds ends the cleanup.                                      *)
PortForwardExit ==
    /\ pc = "unforward"
    /\ \/ fwd = "none" /\ Cleans("scale") /\ NoEffect /\ UNCHANGED <<fwd, interrupts>>
       \/ /\ fwd # "none" /\ fwd' \in {fwd, "exited"}
          /\ Command(NoEffect, fwd' = "exited" /\ Cleans("scale"), CutShort, CutShort)
    /\ Kept /\ UNCHANGED claim

\* Slip: only --keep-prepared is looked at.
RestoresSlip == ~keep

\* Slip: the preparation is undone in every case.
RestoresSlipKeep == ~use

Restores == ~keep /\ ~use

scale_to_zero ==
    /\ pc = "scale"
    /\ \/ ~Restores /\ Cleans("done") /\ NoEffect /\ UNCHANGED interrupts
       \/ Restores /\ Command(SetPool("hermes", 0), Cleans("restore"), Warns("restore"), CutShort)
    /\ Kept /\ UNCHANGED <<claim, fwd>>

\* Slip: the environment is left as the demo set it.
restore_apiSlip ==
    /\ pc = "restore" /\ Cleans("done") /\ NoEffect /\ UNCHANGED interrupts
    /\ Kept /\ UNCHANGED <<claim, fwd>>

restore_api ==
    /\ pc = "restore"
    /\ \/ original = "none" /\ Cleans("done") /\ NoEffect /\ UNCHANGED interrupts
       \/ original # "none" /\ Command(SetApiEnv(original), Cleans("done"), Warns("done"), CutShort)
    /\ Kept /\ UNCHANGED <<claim, fwd>>

DemoStep ==
    \/ prepare_runtime_class \/ ensure_prerequisites \/ verify_prepared_environment
    \/ prepare_profile \/ apply_egress \/ deployment_environment \/ set_env \/ rollout_status
    \/ warm \/ wait_for_warm_pool \/ PortForward \/ create \/ wait_running
    \/ interactive_session
    \/ delete_sandbox \/ PortForwardExit \/ scale_to_zero \/ restore_api

(* The claim's TTL passes. *)
ClaimExpires ==
    /\ claim /\ claim' = FALSE
    /\ UNCHANGED <<clusterVars, interrupts, late, pc, use, keep, current, original,
                   known, fwd, warned, cut, failedAt, before>>

(* A fresh process: the locals of main. *)
DemoReset(first, u, k) ==
    /\ pc' = first /\ use' = u /\ keep' = k
    /\ current' = "none" /\ original' = "none" /\ known' = FALSE /\ claim' = FALSE
    /\ fwd' = "none" /\ warned' = FALSE /\ cut' = FALSE /\ failedAt' = "none" /\ before' = apiEnv

DemoBegin(u, k) == /\ DemoReset(IF u THEN "prerequisites" ELSE "runtime_class", u, k)
                   /\ late' = FALSE /\ UNCHANGED <<clusterVars, interrupts>>

-----------------------------------------------------------------------------
DemoTypeOK ==
    /\ pc \in {"idle", "runtime_class", "prerequisites", "verify", "profile", "egress",
               "read_env", "set_env", "rollout", "warm", "wait_pool", "forward", "create",
               "running", "session", "delete", "unforward", "scale", "restore", "done"}
    /\ {use, keep, known, claim, warned, cut} \subseteq BOOLEAN
    /\ {current, original} \subseteq {"none", "native", "hermes"}
    /\ fwd \in {"none", "running", "exited"}

(* Unless it was told to keep things, reported a failing cleanup or was    *)
(* interrupted in it, the demo leaves nothing: its sandbox is gone (if it  *)
(* ever learnt its id), no port-forward runs, the pool is at zero and,     *)
(* with the one exception of a failure inside configure_api, the API       *)
(* environment is what it was (hermes_demo.py 602-622).                    *)
DemoCleansUp ==
    pc = "done" /\ ~cut /\ ~warned =>
        /\ known => ~claim
        /\ fwd # "running"
        /\ ~use /\ ~keep =>
              /\ pool["hermes"].replicas = 0
              /\ failedAt \notin {"set_env", "rollout"} => apiEnv = before

(* tools/README.md, --use-prepared: no step of such a demo, its cleanup    *)
(* after any failure included, changes the API environment or the size of  *)
(* the pool.                                                               *)
UsePreparedStep ==
    DemoRunning /\ use =>
        apiEnv' = apiEnv /\ pool'["hermes"].replicas = pool["hermes"].replicas

UsePreparedIsReadOnly == [][UsePreparedStep]_<<clusterVars, demoVars>>

(* After a demo with --keep-prepared that got as far as its session, what  *)
(* a later --use-prepared demo checks is still there: the environment and  *)
(* one warm replica, however the session and the cleanup went.             *)
KeptStaysPrepared ==
    pc = "done" /\ keep /\ ~use /\ failedAt \in {"none", "session"} =>
        apiEnv = "hermes" /\ pool["hermes"].replicas = 1

(* tools/README.md: by default the tool restores the previous API          *)
(* environment when the session ends; the demo's architecture brief:       *)
(* success and failure share the same cleanup path.                        *)
EnvironmentRestored ==
    pc = "done" /\ ~use /\ ~keep /\ ~warned /\ ~cut => apiEnv = before
=============================================================================
