----------------------------- MODULE SandboxApi -----------------------------
(***************************************************************************)
(* The request handlers of xolis-api that reach into a sandbox             *)
(* (services/xolis-api/src/api.rs) and the runtime client behind them      *)
(* (runtime.rs): the store is asked once whether the sandbox is Running    *)
(* (running_sandbox), then a command or a file operation is sent to the    *)
(* runtime under the client's own timeout, or a session is proxied         *)
(* (SessionProxy).  The handlers of create, get, list and delete are the   *)
(* store calls of KubernetesStore.                                         *)
(*                                                                         *)
(* Bound: one such request at a time, from its call until all its parts    *)
(* have come to rest; the calls and the controller of the store go on      *)
(* meanwhile.                                                              *)
(*                                                                         *)
(* Time is counted while one request is out: validate_command bounds its   *)
(* limit by MaxTimeout, main.rs gives the client MaxTimeout + Slack.  The  *)
(* runtime is RuntimeCommand, which CommandExec implements: it kills the   *)
(* command at its limit and answers when its streams are closed; a process *)
(* that left the group can hold them open.  File operations are requests   *)
(* with no limit of their own, here limit 1.  A streamed command is looked *)
(* up in the same way; its relay to the client is not followed here.       *)
(***************************************************************************)
EXTENDS KubernetesStore, SessionProxy

CONSTANTS MaxTimeout,   \* maximum_command_timeout_seconds
          Slack         \* what main.rs adds for the runtime client's timeout

ASSUME TimeoutAssumption == MaxTimeout \in Nat \ {0} /\ Slack \in Nat \ {0}

VARIABLES handler,   \* of the request: "idle", a lookup, "sent" or "session"
          limit,     \* timeout_seconds of the request
          elapsed,   \* time since the request was sent
          command,   \* in the runtime: "none", "running", "exited", "killed"
          held,      \* a process outside the group holds the streams open
          target,    \* uid of the sandbox the request was sent to
          answer     \* what the request was answered

Runtime == INSTANCE RuntimeCommand WITH late <- elapsed >= limit

apiVars == <<handler, limit, elapsed, command, held, target, answer>>

ApiInit ==
    /\ Init /\ SessionInit
    /\ handler = "idle" /\ limit = 0 /\ elapsed = 0 /\ command = "none" /\ held = FALSE
    /\ target = 0 /\ answer = "none"

StoreRest == UNCHANGED vars
SessionRest == UNCHANGED sessionVars
PodAlive == \E n \in DOMAIN claims : claims[n].uid = target

(* The request is answered; it is forgotten by the next one (Forget). *)
Answers(a) ==
    /\ handler' = "done" /\ answer' = a
    /\ UNCHANGED <<limit, elapsed, held, target>>

Forget ==
    /\ handler = "done" /\ handler' = "idle" /\ answer' = "none" /\ limit' = 0 /\ elapsed' = 0
    /\ command' = "none" /\ held' = FALSE /\ target' = 0

-----------------------------------------------------------------------------
(* Handlers up to the lookup. *)

\* Slip: the upper bound is not checked.
validate_commandSlip(l) == l >= 1

validate_command(l) == l >= 1 /\ l <= MaxTimeout

execute_command(c, t, n, l) ==
    /\ handler = "idle"
    /\ \/ ~validate_command(l) /\ Answers("BadRequest") /\ StoreRest
       \/ /\ validate_command(l) /\ CallGet(c, t, n)
          /\ handler' = "lookup_command" /\ limit' = l
          /\ UNCHANGED <<elapsed, held, target, answer>>
    /\ SessionRest /\ UNCHANGED command

interactive_session(c, t, n) ==
    /\ handler = "idle" /\ CallGet(c, t, n) /\ handler' = "lookup_session"
    /\ SessionRest /\ UNCHANGED <<limit, elapsed, command, held, target, answer>>

(* running_sandbox: only a sandbox the store shows as Running will do, and *)
(* it is refused as well when its claim names no runtime yet (runtime_id,  *)
(* api.rs 242): the store's model leaves that name out, so either may be.  *)
Shown == last'.error = "none" /\ \E sb \in last'.sandboxes : sb.state = "Running"

running_sandbox(c) ==
    /\ handler \in {"lookup_command", "lookup_session"} /\ (Read(c) \/ Fails(c))
    /\ \/ /\ Answers(IF last'.error = "none" THEN "Conflict" ELSE last'.error)
          /\ SessionRest /\ UNCHANGED command
       \/ /\ Shown /\ handler = "lookup_session" /\ handler' = "session" /\ SessionBegin
          /\ UNCHANGED <<limit, elapsed, command, held, target, answer>>
       \/ /\ Shown /\ handler = "lookup_command" /\ handler' = "sent"
          /\ \E sb \in last'.sandboxes : target' = sb.uid
          /\ command' = "running" /\ held' \in BOOLEAN
          /\ SessionRest /\ UNCHANGED <<limit, elapsed, answer>>

-----------------------------------------------------------------------------
(* The request at the runtime, and its answer. *)

CommandEnds ==
    /\ handler = "sent" /\ Runtime!Ends
    /\ UNCHANGED <<handler, limit, elapsed, target>>

Releases ==
    /\ handler = "sent" /\ Runtime!Releases
    /\ UNCHANGED <<handler, limit, elapsed, target>>

RuntimeAnswers ==
    /\ handler = "sent" /\ PodAlive /\ Runtime!Answers
    /\ handler' = "done" /\ UNCHANGED <<limit, elapsed, target>>

(* The pod is gone, the connection breaks, or the runtime refuses. *)
RequestFails ==
    /\ handler = "sent"
    /\ \/ ~PodAlive /\ Answers("Unavailable") /\ command' = "killed"
       \/ Answers("Unavailable") /\ UNCHANGED command
       \/ Runtime!NotStarted /\ handler' = "done" /\ UNCHANGED <<limit, elapsed, target>>

\* Slip: the client is built without a timeout.
ClientTimesOutSlip == FALSE /\ UNCHANGED apiVars

ClientTimesOut ==
    /\ handler = "sent" /\ elapsed = MaxTimeout + Slack
    /\ Answers("Timeout") /\ UNCHANGED command

(* The runtime's timer and a drain that nothing holds up take no time. *)
Tick ==
    /\ handler = "sent" /\ elapsed < MaxTimeout + Slack
    /\ command = "running" => elapsed # limit
    /\ command \in {"exited", "killed"} /\ PodAlive => held
    /\ elapsed' = elapsed + 1
    /\ UNCHANGED <<handler, limit, command, held, target, answer>>

RequestStep ==
    /\ CommandEnds \/ Releases \/ RuntimeAnswers \/ RequestFails \/ ClientTimesOut \/ Tick
    /\ StoreRest /\ SessionRest

(* Client, proxy and runtime are all done with the session. *)
SessionOver ==
    /\ handler = "session" /\ client = "left" /\ proxy = "gone" /\ rt = "ended"
    /\ handler' = "done"
    /\ client' = "off" /\ result' = NotYet /\ proxy' = "off" /\ rt' = "off" /\ ended' = NotYet
    /\ asked' = FALSE /\ up' = <<>> /\ upRt' = <<>> /\ down' = <<>> /\ downCl' = <<>>
    /\ UNCHANGED <<limit, elapsed, command, held, target, answer>>

-----------------------------------------------------------------------------
ApiNext ==
    \/ \E c \in Calls :
          \/ /\ handler \in {"idle", "sent"} /\ (Call(c) \/ CallStep(c))
             /\ SessionRest /\ UNCHANGED apiVars
          \/ \E t \in Tenants, n \in Names :
                \/ \E l \in 0..(MaxTimeout + Slack + 1) : execute_command(c, t, n, l)
                \/ interactive_session(c, t, n)
          \/ running_sandbox(c)
    \/ (\E n \in Names : Controller(n)) /\ SessionRest /\ UNCHANGED apiVars
    \/ RequestStep
    \/ (SessionStep \/ ClientInterrupted \/ ClientKilled) /\ StoreRest /\ UNCHANGED apiVars
    \/ (SessionOver \/ (Forget /\ SessionRest)) /\ StoreRest

everything == <<vars, sessionVars, apiVars>>

(* Clock, controller, API and runtime keep going; neither a command, a     *)
(* holder of its streams nor a user owes anything.                         *)
ApiSpec ==
    /\ ApiInit /\ [][ApiNext]_everything
    /\ ControllerFair
    /\ \A c \in Calls : WF_everything(running_sandbox(c))
    /\ WF_everything(Tick /\ StoreRest /\ SessionRest)
    /\ WF_everything(CommandEnds /\ elapsed = limit /\ StoreRest /\ SessionRest)
    /\ WF_everything((RuntimeAnswers \/ ClientTimesOut) /\ StoreRest /\ SessionRest)
    /\ SessionFair

-----------------------------------------------------------------------------
(* The ranges of the variables that the handlers and the client add. *)
ApiTypeOK ==
    /\ TypeOK /\ SessionTypeOK
    /\ handler \in {"idle", "lookup_command", "lookup_session", "sent", "session", "done"}
    /\ elapsed \in 0..(MaxTimeout + Slack) /\ limit \in Nat
    /\ target \in 0..MaxUid
    /\ command \in {"none", "running", "exited", "killed"} /\ held \in BOOLEAN

(* When the API gives up on a request, the command is over: its limit has  *)
(* passed and the runtime has killed it, because every accepted limit is   *)
(* below the client's timeout.  What still runs is a process that left the *)
(* group and holds the streams (api.rs 179-181, main.rs 75).               *)
TimeoutMeansKilled == answer = "Timeout" => command # "running"

(* Every command request is answered, although the runtime's own call may  *)
(* never return: the client's timeout ends it (runtime.rs 80-83).          *)
RequestsAreAnswered == handler \in {"lookup_command", "sent"} ~> handler = "done"
=============================================================================
