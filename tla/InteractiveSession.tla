-------------------------- MODULE InteractiveSession --------------------------
(***************************************************************************)
(* run_interactive_session (xolis_runtime/interactive.py 30-153): one      *)
(* command on a pseudo terminal, driven over a WebSocket.  Three tasks run *)
(* next to the session's own coroutine: output_task copies the terminal to *)
(* the client, input_task serves the client's messages, wait_task waits    *)
(* for the leader.  The first of them to finish, or the session's TTL,     *)
(* decides how the session ends.                                           *)
(*                                                                         *)
(* Sending to the client is a step of its own: it completes when the       *)
(* client takes the message and fails once the client is gone.  No pipe is *)
(* handed to asyncio here, so Process.wait() needs nothing but the reaping *)
(* of the leader.  Streams holds the one terminal.                         *)
(***************************************************************************)
EXTENDS ProcessGroup, Sequences

CONSTANTS Tty,        \* the slave side of the terminal
          MaxOutput,  \* settings.maximum_output_bytes, in units
          MaxReplies  \* bound: error replies to unsupported messages

ASSUME SessionAssumption ==
    /\ Streams = {Tty}
    /\ MaxOutput \in Nat \ {0}
    /\ MaxReplies \in Nat
    /\ {124, 125, 130} \cap {NoCode} = {}

VARIABLES pc,         \* where the session's coroutine is
          out,        \* output_task
          inp,        \* input_task
          wt,         \* wait_task
          emitted,    \* units sent to the client
          expired,    \* ttl_seconds have passed since the tasks started
          verdict,    \* what ended the session, as the code after the wait sees it
          ws,         \* the client's end of the WebSocket
          msgs,       \* messages the client got, by type
          exitCode,   \* exit_code
          fds         \* open ends of the terminal in the runtime

taskVars == <<out, inp, wt, emitted>>
sessVars == <<pc, taskVars, expired, verdict, ws, msgs, exitCode, fds>>
vars == <<osVars, sessVars>>

OutEnded == {"eof", "limit", "broken", "cancelled"}
InEnded == {"cancel", "close", "bad", "gone", "cancelled"}
Sends == {"sendStart", "sendTimeout", "sendExit", "sendError"}

Init ==
    /\ OsInit
    /\ pc = "start"
    /\ out = "none" /\ inp = "none" /\ wt = "none"
    /\ emitted = 0
    /\ expired = FALSE
    /\ verdict = "none"
    /\ ws = "open"
    /\ msgs = << >>
    /\ exitCode = NoCode
    /\ fds = {}

(* The coroutine moves on; the rest is as it was. *)
Move(from, to) ==
    /\ pc = from /\ pc' = to
    /\ UNCHANGED <<osVars, taskVars, expired, verdict, ws, msgs, exitCode, fds>>

-----------------------------------------------------------------------------
(* Before the tasks exist. *)

(* The start message is missing, late or malformed: an error reply.  A     *)
(* client that is already gone ends the session without one.               *)
StartRefused == Move("start", IF ws = "gone" THEN "finally" ELSE "sendError")

(* The terminal is open, but there is no command: open says which ends.    *)
NoCommand(open) ==
    /\ pc = "start" /\ ws = "open"
    /\ fds' = open
    /\ pc' = "sendError"
    /\ UNCHANGED <<osVars, taskVars, expired, verdict, ws, msgs, exitCode>>

SpawnFails == NoCommand({"master"})

(* rows or columns out of range: _resize_terminal raises before the try    *)
(* whose finally closes the slave side.                                    *)
BadSize == NoCommand({"master", "slave"})

SpawnSucceeds ==
    /\ pc = "start" /\ ws = "open"
    /\ Spawn
    /\ fds' = {"master"}
    /\ pc' = "sendStart"
    /\ UNCHANGED <<taskVars, expired, verdict, ws, msgs, exitCode>>

-----------------------------------------------------------------------------
(* Messages of the coroutine itself. *)

MessageOf == [sendStart |-> "start", sendTimeout |-> "timeout",
              sendExit |-> "exit", sendError |-> "error"]
AfterSend == [sendStart |-> "main", sendTimeout |-> "sendExit",
              sendExit |-> "finally", sendError |-> "finally"]

(* The client takes the message; after start the three tasks are created. *)
Sent ==
    /\ pc \in Sends /\ ws = "open"
    /\ msgs' = Append(msgs, MessageOf[pc])
    /\ pc' = AfterSend[pc]
    /\ IF pc = "sendStart"
         THEN out' = "reading" /\ inp' = "waiting" /\ wt' = "waiting"
         ELSE UNCHANGED <<out, inp, wt>>
    /\ UNCHANGED <<osVars, emitted, expired, verdict, ws, exitCode, fds>>

(* Sending to a client that is gone raises; the finally block follows. *)
SendRaises == ws = "gone" /\ \E p \in Sends : Move(p, "finally")

-----------------------------------------------------------------------------
(* The end of the session. *)

SomeTaskDone == out \in OutEnded \/ inp \in InEnded \/ wt = "done"

Verdict ==
    CASE ~SomeTaskDone -> "timeout"
      [] SomeTaskDone /\ inp \in {"cancel", "close"} -> "cancel"
      [] SomeTaskDone /\ inp \notin {"cancel", "close"} /\ out = "limit" -> "limit"
      [] OTHER -> "exit"

WaitEnds == SomeTaskDone \/ expired

AfterKill == IF out \in OutEnded THEN "report" ELSE "draining"

(* asyncio.wait returns and a task has failed: its result() re-raises, the *)
(* input task's first; the exception decides between a reply and silence.  *)
WakeRaises ==
    \/ inp = "bad" /\ Move("main", "sendError")
    \/ inp = "gone" /\ Move("main", "finally")
    \/ inp \notin {"bad", "gone"} /\ out = "broken" /\ Move("main", "finally")

(* asyncio.wait returns, by the TTL or a task that ended well.  The group  *)
(* is killed unless the leader's wait was among the finished tasks.        *)
Wake ==
    /\ pc = "main"
    /\ WaitEnds
    /\ inp \notin {"bad", "gone"} /\ out # "broken"
    /\ verdict' = Verdict
    /\ IF wt = "done" THEN pc' = AfterKill /\ UNCHANGED osVars
                      ELSE pc' = "killwait" /\ KillGroup
    /\ UNCHANGED <<taskVars, expired, ws, msgs, exitCode, fds>>

KillWaited == WaitReturns(FALSE) /\ Move("killwait", AfterKill)

(* wait_for(output_task, timeout=1): the task ends by itself, fails, or    *)
(* the second passes and wait_for cancels it.                              *)
DrainEnds ==
    out \in OutEnded /\ Move("draining", IF out = "broken" THEN "finally" ELSE "report")

\* Slip: the output task is left running after the second has passed.
DrainTimesOutSlip == out \notin OutEnded /\ Move("draining", "report")

\* Slip: the output task is awaited without a timeout.
DrainTimesOutSlipForever == FALSE

DrainTimesOut ==
    /\ pc = "draining" /\ out \notin OutEnded
    /\ out' = "cancelled"
    /\ pc' = "report"
    /\ UNCHANGED <<osVars, inp, wt, emitted, expired, verdict, ws, msgs, exitCode, fds>>

\* Slip: the status of the killed leader is reported after a timeout.
ReportedCodeSlip ==
    CASE verdict = "cancel" -> 130
      [] verdict = "limit" -> 125
      [] verdict \in {"timeout", "exit"} -> returncode

ReportedCode ==
    CASE verdict = "timeout" -> 124
      [] verdict = "cancel" -> 130
      [] verdict = "limit" -> 125
      [] verdict = "exit" -> returncode

\* Slip: the exit code of a timeout is sent without the timeout message.
ReportSlip ==
    /\ pc = "report"
    /\ exitCode' = ReportedCode
    /\ pc' = "sendExit"
    /\ UNCHANGED <<osVars, taskVars, expired, verdict, ws, msgs, fds>>

Report ==
    /\ pc = "report"
    /\ exitCode' = ReportedCode
    /\ pc' = IF verdict = "timeout" THEN "sendTimeout" ELSE "sendExit"
    /\ UNCHANGED <<osVars, taskVars, expired, verdict, ws, msgs, fds>>

Spawned == alive # {} \/ status # NoCode

\* Slip: the finally block forgets to kill the command.
FinallySlip == Move("finally", "close")

Finally ==
    \/ ~Spawned /\ Move("finally", "close")
    \/ returncode # NoCode /\ Move("finally", "close")
    \/ /\ pc = "finally" /\ Spawned /\ returncode = NoCode
       /\ KillGroup
       /\ pc' = "finwait"
       /\ UNCHANGED <<taskVars, expired, verdict, ws, msgs, exitCode, fds>>

FinallyWaited == WaitReturns(FALSE) /\ Move("finwait", "close")

(* Tasks that still run are cancelled and gathered, the master is closed. *)
CloseAll ==
    /\ pc = "close"
    /\ out' = IF out \in OutEnded \cup {"none"} THEN out ELSE "cancelled"
    /\ inp' = IF inp \in InEnded \cup {"none"} THEN inp ELSE "cancelled"
    /\ wt' = IF wt = "waiting" THEN "cancelled" ELSE wt
    /\ fds' = fds \ {"master"}
    /\ pc' = "done"
    /\ UNCHANGED <<osVars, emitted, expired, verdict, ws, msgs, exitCode>>

-----------------------------------------------------------------------------
(* The three tasks.  They run while the coroutine awaits something. *)
Awaiting == pc \in Sends \cup {"main", "killwait", "draining", "finwait"}

Tasks(o, i, w) ==
    /\ Awaiting
    /\ out' = o /\ inp' = i /\ wt' = w
    /\ UNCHANGED <<pc, expired, verdict, ws, exitCode, fds>>

Quietly == UNCHANGED <<osVars, emitted, msgs>>

Says(m) == msgs' = Append(msgs, m) /\ UNCHANGED <<osVars, emitted>>

Cut(n) == Least(n, MaxOutput - emitted)

(* send_output read n units: send what the limit allows, or the error. *)
OutRead(n) ==
    /\ out = "reading"
    /\ n \in 1..pipe[Tty]
    /\ Tasks(IF emitted < MaxOutput THEN "sending" ELSE "erroring", inp, wt)
    /\ emitted' = IF emitted < MaxOutput THEN emitted + Cut(n) ELSE emitted
    /\ TakeFromPipe(Tty, n) /\ UNCHANGED msgs

OutEof == out = "reading" /\ AtEof(Tty) /\ Tasks("eof", inp, wt) /\ Quietly

OutSent ==
    /\ ws = "open"
    /\ \/ out = "sending" /\ Tasks("reading", inp, wt) /\ Says("output")
       \/ out = "erroring" /\ Tasks("limit", inp, wt) /\ Says("limit")

OutRaises ==
    ws = "gone" /\ out \in {"sending", "erroring"} /\ Tasks("broken", inp, wt) /\ Quietly

(* receive_input gets a message: input and resize leave the task waiting,  *)
(* cancel and close end it, a malformed one makes it fail, any other is    *)
(* answered with an error.                                                 *)
InReceives(m) ==
    /\ ws = "open" /\ inp = "waiting"
    /\ m = "replying" => Len(SelectSeq(msgs, LAMBDA x : x = "unsupported")) < MaxReplies
    /\ Tasks(out, m, wt) /\ Quietly

InReplied == ws = "open" /\ inp = "replying" /\ Tasks(out, "waiting", wt) /\ Says("unsupported")

InRaises ==
    ws = "gone" /\ inp \in {"waiting", "replying"} /\ Tasks(out, "gone", wt) /\ Quietly

WaitTaskDone == wt = "waiting" /\ WaitReturns(FALSE) /\ Tasks(out, inp, "done") /\ Quietly

-----------------------------------------------------------------------------
(* The client, the clock, the command, the child watcher. *)
Disconnect ==
    /\ ws = "open" /\ pc # "done"
    /\ ws' = "gone"
    /\ UNCHANGED <<osVars, pc, taskVars, expired, verdict, msgs, exitCode, fds>>

TtlPasses ==
    /\ pc = "main" /\ ~expired
    /\ expired' = TRUE
    /\ UNCHANGED <<osVars, pc, taskVars, verdict, ws, msgs, exitCode, fds>>

Command == CommandStep /\ UNCHANGED sessVars
ChildWatcher == (Awaiting \/ pc = "done") /\ Reap /\ UNCHANGED sessVars
Terminated == pc = "done" /\ alive = {} /\ UNCHANGED vars

Coroutine ==
    \/ StartRefused \/ SpawnFails \/ BadSize \/ SpawnSucceeds
    \/ SendRaises \/ WakeRaises \/ Wake \/ KillWaited \/ DrainEnds \/ DrainTimesOut
    \/ Report \/ Finally \/ FinallyWaited \/ CloseAll

OutputTask == OutEof \/ OutRaises \/ \E n \in 1..MaxWrite : OutRead(n)
InputTask == InRaises
ClientTakes == Sent \/ OutSent \/ InReplied

Next ==
    \/ Coroutine \/ OutputTask \/ InputTask \/ WaitTaskDone \/ ClientTakes
    \/ \E m \in {"cancel", "close", "bad", "replying"} : InReceives(m)
    \/ Disconnect \/ TtlPasses \/ Command \/ ChildWatcher \/ Terminated

Spec == Init /\ [][Next]_vars

(* The event loop and its threads, the clock and the kernel make progress, *)
(* and the client takes what it is sent, or disconnects.                   *)
FairSpec ==
    /\ Spec
    /\ WF_vars(Coroutine) /\ WF_vars(OutputTask) /\ WF_vars(InputTask)
    /\ WF_vars(WaitTaskDone) /\ WF_vars(TtlPasses) /\ WF_vars(ChildWatcher)
    /\ WF_vars(ClientTakes)

-----------------------------------------------------------------------------
(* The session and its tasks keep their types; the output sent never       *)
(* exceeds maximum_output_bytes (interactive.py 74-81).                    *)
TypeOK ==
    /\ OsTypeOK
    /\ pc \in Sends \cup {"start", "main", "killwait", "draining", "report",
                          "finally", "finwait", "close", "done"}
    /\ out \in OutEnded \cup {"none", "reading", "sending", "erroring"}
    /\ inp \in InEnded \cup {"none", "waiting", "replying"}
    /\ wt \in {"none", "waiting", "done", "cancelled"}
    /\ emitted \in 0..MaxOutput
    /\ expired \in BOOLEAN
    /\ verdict \in {"none", "timeout", "cancel", "limit", "exit"}
    /\ ws \in {"open", "gone"}
    /\ msgs \in Seq({"start", "timeout", "exit", "error", "output", "limit", "unsupported"})
    /\ exitCode \in Statuses \cup {NoCode, 124, 125, 130}
    /\ fds \subseteq {"master", "slave"}

Got(m) == \E i \in 1..Len(msgs) : msgs[i] = m

(* What the client sees is in order, although three tasks and the          *)
(* coroutine send: start comes first, nothing of the command's output      *)
(* follows timeout or exit, and timeout is answered by exit only.          *)
MessageOrder ==
    \A i, j \in 1..Len(msgs) : i < j =>
        /\ msgs[j] # "start"
        /\ msgs[i] \in {"timeout", "exit"} => msgs[j] \notin {"output", "limit", "error"}
        /\ msgs[i] = "exit" => msgs[j] # "timeout"

(* The exit message is true: 124 exactly when a timeout was announced, 130 *)
(* only for a session the client cancelled or closed, 125 only for one     *)
(* that was sent output up to the limit and told so, and otherwise the     *)
(* status the leader ended with; and the leader is dead when the client    *)
(* learns of it.                                                           *)
ExitTruth ==
    Got("exit") =>
        /\ Leader \notin alive
        /\ IF Got("timeout") THEN exitCode = 124
           ELSE \/ exitCode = 130 /\ inp \in {"cancel", "close"}
                \/ exitCode = 125 /\ Got("limit") /\ emitted = MaxOutput
                \/ exitCode = status

(* A session whose TTL passed leaves no process of its group alive. *)
TtlKillsGroup == Got("timeout") => group = {}

(* On every path the session ends with its leader dead and reaped, none of *)
(* its tasks running and the master side of the terminal closed.           *)
CleanSession ==
    pc = "done" =>
        /\ Leader \notin alive /\ returncode = status
        /\ out \in OutEnded \cup {"none"} /\ inp \in InEnded \cup {"none"} /\ wt # "waiting"
        /\ "master" \notin fds

(* The session as the other end of the WebSocket sees it. *)
Announced == \E m \in {"error", "timeout", "limit", "unsupported"} : Got(m)
EndSeen ==
    IF Got("exit") THEN <<"code", exitCode>>
    ELSE IF Announced THEN <<"failed">>
    ELSE IF pc = "done" THEN <<"dropped">> ELSE <<>>
Seen(m) ==
    CASE m = "exit" -> [type |-> "exit", code |-> exitCode]
      [] m \in {"start", "output"} -> [type |-> "output"]
      [] OTHER -> [type |-> "error"]
SentSeen == [i \in 1..Len(msgs) |-> Seen(msgs[i])]
DownSeen == IF pc = "done" THEN Append(SentSeen, [type |-> "frame_8"]) ELSE SentSeen

Wire == INSTANCE RuntimeSession WITH
    ExitCodes <- Statuses, rt <- (IF pc = "done" THEN "ended" ELSE "open"),
    ended <- EndSeen, asked <- inp \in {"cancel", "close"}, down <- DownSeen

(* The session keeps to what its other end relies on: at most one exit     *)
(* message, with 124 or 125 only after the reason was sent and 130 only    *)
(* when asked to stop, and nothing after it (interactive.py 63-140).       *)
ImplementsRuntimeSession == Wire!RtSpec

(* interactive.py 33: the session is TTL-bound.  With a client that takes  *)
(* its messages or leaves (the error reply to a malformed message is sent  *)
(* before the kill), every session ends, whatever the command does.        *)
SessionEnds == pc # "start" ~> pc = "done"
=============================================================================
