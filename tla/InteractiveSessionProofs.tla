----------------------- MODULE InteractiveSessionProofs -----------------------
(***************************************************************************)
(* Proofs about InteractiveSession, for every command, client and limit.   *)
(***************************************************************************)
EXTENDS InteractiveSession, ProcessGroupProofs

Pcs == Sends \cup {"start", "main", "killwait", "draining", "report",
                   "finally", "finwait", "close", "done"}
Messages == {"start", "timeout", "exit", "error", "output", "limit", "unsupported"}

(* The code after asyncio.wait knows what ended the session.  The types    *)
(* depend on it: without a verdict there is no exit code to report.        *)
Decided == pc \in {"killwait", "draining", "report"} => verdict # "none"

(* A step of the coroutine that changes nothing but its place. *)
LEMMA MoveType ==
  ASSUME TypeOK, NEW from, NEW to \in Pcs, Move(from, to) PROVE TypeOK'
BY QuietOs DEF TypeOK, Move, Pcs, taskVars

(* A step of the tasks keeps the types of everything they do not touch. *)
LEMMA TasksType ==
  ASSUME TypeOK, NEW o \in OutEnded \cup {"none", "reading", "sending", "erroring"},
         NEW i \in InEnded \cup {"none", "waiting", "replying"},
         NEW w \in {"none", "waiting", "done", "cancelled"}, Tasks(o, i, w),
         OsTypeOK', emitted' \in 0..MaxOutput, msgs' \in Seq(Messages)
  PROVE  TypeOK'
BY DEF Tasks, TypeOK, Messages

LEMMA SessionTyped == Spec => [](TypeOK /\ Decided)
<1>1. Init => TypeOK /\ Decided
  <2> SUFFICES ASSUME Init PROVE TypeOK /\ Decided
    OBVIOUS
  <2>1. OsTypeOK
    BY DEF Init, OsInit, OsTypeOK
  <2>2. emitted \in 0..MaxOutput
    BY SessionAssumption DEF Init
  <2>3. msgs \in Seq(Messages)
    BY DEF Init
  <2> QED BY <2>1, <2>2, <2>3 DEF Init, TypeOK, Decided, Messages
<1>2. TypeOK /\ Decided /\ [Next]_vars => TypeOK'
  <2> SUFFICES ASSUME TypeOK, Decided, [Next]_vars PROVE TypeOK'
    OBVIOUS
  <2>k. KillGroup => OsTypeOK'
    BY DieType DEF KillGroup, TypeOK, OsTypeOK, Statuses
  <2>1. CASE StartRefused \/ SendRaises \/ WakeRaises \/ KillWaited \/ DrainEnds \/ FinallyWaited
    BY <2>1, MoveType DEF StartRefused, SendRaises, WakeRaises, KillWaited, AfterKill,
                          DrainEnds, FinallyWaited, Pcs, Sends
  <2>2. CASE SpawnFails \/ BadSize
    BY <2>2, QuietOs DEF SpawnFails, BadSize, NoCommand, TypeOK, Sends, taskVars
  <2>3. CASE SpawnSucceeds
    <3>1. OsTypeOK'
      BY <2>3 DEF SpawnSucceeds, Spawn, TypeOK, OsTypeOK, Procs
    <3> QED BY <2>3, <3>1 DEF SpawnSucceeds, TypeOK, Sends, taskVars
  <2>4. CASE Sent
    <3>1. MessageOf[pc] \in Messages /\ AfterSend[pc] \in Pcs
      BY <2>4 DEF Sent, Sends, MessageOf, AfterSend, Messages, Pcs
    <3>2. msgs' \in Seq(Messages) /\ pc' \in Pcs
      BY <2>4, <3>1 DEF Sent, TypeOK, Messages
    <3> QED BY <2>4, <3>2, QuietOs DEF Sent, TypeOK, Messages, Pcs
  <2>5. CASE Wake
    <3>1. Verdict \in {"timeout", "cancel", "limit", "exit"}
      BY DEF Verdict
    <3>2. OsTypeOK' /\ pc' \in Pcs
      BY <2>5, <2>k, QuietOs DEF Wake, AfterKill, TypeOK, Pcs
    <3> QED BY <2>5, <3>1, <3>2 DEF Wake, TypeOK, Pcs, taskVars
  <2>6. CASE DrainTimesOut
    BY <2>6, QuietOs DEF DrainTimesOut, TypeOK, OutEnded
  <2>7. CASE Report
    <3>1. exitCode' \in Statuses \cup {NoCode, 124, 125, 130}
      <4>1. verdict # "none" => ReportedCode \in Statuses \cup {NoCode, 124, 125, 130}
        BY DEF TypeOK, OsTypeOK, ReportedCode
      <4> QED BY <2>7, <4>1 DEF Report, Decided
    <3> QED BY <2>7, <3>1, QuietOs DEF Report, TypeOK, Sends, taskVars
  <2>8. CASE Finally
    <3>1. CASE Move("finally", "close")
      BY <3>1, MoveType DEF Pcs
    <3>2. CASE KillGroup /\ pc' = "finwait"
               /\ UNCHANGED <<taskVars, expired, verdict, ws, msgs, exitCode, fds>>
      BY <3>2, <2>k DEF TypeOK, taskVars
    <3> QED BY <2>8, <3>1, <3>2 DEF Finally
  <2>9. CASE CloseAll
    BY <2>9, QuietOs DEF CloseAll, TypeOK, OutEnded, InEnded
  <2>10. ASSUME NEW n \in 1..MaxWrite, OutRead(n) PROVE TypeOK'
    <3>1. n \in 1..pipe[Tty] /\ Tty \in Streams
      BY <2>10, SessionAssumption DEF OutRead
    <3>2. OsTypeOK'
      BY <2>10, <3>1, DrainType DEF OutRead, TypeOK
    <3>3. emitted' \in 0..MaxOutput
      BY <2>10, <3>1, SessionAssumption DEF OutRead, Cut, Least, TypeOK, OsTypeOK
    <3> QED BY <2>10, <3>2, <3>3, TasksType DEF OutRead, TypeOK, Messages
  <2>q. OsTypeOK /\ emitted \in 0..MaxOutput /\ msgs \in Seq(Messages)
    BY DEF TypeOK, Messages
  <2>t. /\ out \in OutEnded \cup {"none", "reading", "sending", "erroring"}
        /\ inp \in InEnded \cup {"none", "waiting", "replying"}
        /\ wt \in {"none", "waiting", "done", "cancelled"}
    BY DEF TypeOK
  <2>11. CASE OutEof \/ OutRaises \/ InRaises \/ WaitTaskDone
    <3>1. OsTypeOK' /\ emitted' \in 0..MaxOutput /\ msgs' \in Seq(Messages)
      BY <2>11, <2>q, QuietOs DEF OutEof, OutRaises, InRaises, WaitTaskDone, Quietly
    <3> QED BY <2>11, <2>t, <3>1, TasksType
            DEF OutEof, OutRaises, InRaises, WaitTaskDone, OutEnded, InEnded
  <2>12. CASE OutSent \/ InReplied
    <3>1. OsTypeOK' /\ emitted' \in 0..MaxOutput
      BY <2>12, <2>q, QuietOs DEF OutSent, InReplied, Says
    <3>2. msgs' \in Seq(Messages)
      BY <2>12, <2>q DEF OutSent, InReplied, Says, Messages
    <3> QED BY <2>12, <2>t, <3>1, <3>2, TasksType DEF OutSent, InReplied, OutEnded
  <2>13. ASSUME NEW m \in {"cancel", "close", "bad", "replying"}, InReceives(m) PROVE TypeOK'
    <3>1. OsTypeOK' /\ emitted' \in 0..MaxOutput /\ msgs' \in Seq(Messages)
      BY <2>13, <2>q, QuietOs DEF InReceives, Quietly
    <3> QED BY <2>13, <2>t, <3>1, TasksType DEF InReceives, InEnded
  <2>14. CASE Disconnect
    BY <2>14, QuietOs DEF Disconnect, TypeOK, taskVars
  <2>18. CASE TtlPasses
    BY <2>18, QuietOs DEF TtlPasses, TypeOK, taskVars
  <2>15. CASE Command
    BY <2>15, CommandType DEF Command, TypeOK, sessVars, taskVars
  <2>16. CASE ChildWatcher
    BY <2>16 DEF ChildWatcher, Reap, TypeOK, OsTypeOK, sessVars, taskVars
  <2>17. CASE UNCHANGED vars
    BY <2>17, QuietOs DEF vars, TypeOK, sessVars, taskVars
  <2> QED BY <2>1, <2>2, <2>3, <2>4, <2>5, <2>6, <2>7, <2>8, <2>9, <2>10, <2>11, <2>12,
             <2>13, <2>14, <2>15, <2>16, <2>17, <2>18
          DEF Next, Coroutine, OutputTask, InputTask, ClientTakes, Terminated
<1>3. TypeOK /\ Decided /\ [Next]_vars => Decided'
  <2> SUFFICES ASSUME TypeOK, Decided, [Next]_vars PROVE Decided'
    OBVIOUS
  <2>1. CASE Coroutine \/ Sent
    <3>1. CASE Wake
      BY <3>1 DEF Wake, Verdict, Decided
    <3>2. CASE Sent
      <4>1. AfterSend[pc] \notin {"killwait", "draining", "report"}
        BY <3>2 DEF Sent, Sends, AfterSend
      <4> QED BY <3>2, <4>1 DEF Sent, Decided
    <3> QED BY <2>1, <3>1, <3>2
            DEF Coroutine, StartRefused, SpawnFails, BadSize, NoCommand, SpawnSucceeds, SendRaises,
                WakeRaises, KillWaited, DrainEnds, DrainTimesOut, Report, Finally, FinallyWaited,
                CloseAll, Move, Decided
  <2>2. CASE ~(Coroutine \/ Sent)
    <3>1. UNCHANGED <<pc, verdict>>
      BY <2>2 DEF Next, OutputTask, InputTask, ClientTakes, OutEof, OutRaises, OutRead, InRaises,
                  WaitTaskDone, OutSent, InReplied, InReceives, Tasks, Disconnect, TtlPasses,
                  Command, ChildWatcher, Terminated, vars, sessVars
    <3> QED BY <3>1 DEF Decided
  <2> QED BY <2>1, <2>2
<1> QED BY <1>1, <1>2, <1>3, PTL DEF Spec

(* Type correctness of run_interactive_session: in particular the client   *)
(* is never sent more than maximum_output_bytes.                           *)
THEOREM SessionTypeCorrect == Spec => []TypeOK
BY SessionTyped, PTL

-----------------------------------------------------------------------------
(***************************************************************************)
(* The inductive invariant.  Three tasks and the coroutine share the       *)
(* WebSocket; the order and the truth of what the client sees rest on what *)
(* each of them may still do at each point: the output task has ended      *)
(* before the outcome is told (OutputStopped), the outcome is told once    *)
(* (ToldLast), and what the verdict is based on does not change after it   *)
(* is given (VerdictHolds).                                                *)
(***************************************************************************)
NotSpawned == pc = "start" => alive = {} /\ status = NoCode /\ returncode = NoCode
NotStarted ==
    pc \in {"start", "sendStart"} =>
        msgs = << >> /\ out = "none" /\ inp = "none" /\ wt = "none" /\ verdict = "none"
OutputStopped ==
    pc \in {"report", "sendTimeout", "sendExit"} \/ Got("timeout") \/ Got("exit")
        => out \in OutEnded
ToldLast ==
    /\ Got("timeout") => pc \in {"sendExit", "finally", "finwait", "close", "done"}
    /\ Got("exit") => pc \in {"finally", "finwait", "close", "done"}
LeaderReaped ==
    \/ pc \in {"draining", "report", "sendTimeout", "sendExit"}
    \/ wt = "done" \/ Got("exit")
    => returncode # NoCode
CodeReported ==
    pc \in {"sendTimeout", "sendExit"} \/ Got("exit") =>
        exitCode = ReportedCode /\ verdict # "none"
TimeoutTold ==
    /\ pc = "sendTimeout" \/ Got("timeout") => verdict = "timeout"
    /\ pc = "sendExit" \/ Got("exit") => (verdict = "timeout" => Got("timeout"))
VerdictHolds ==
    /\ verdict = "timeout" => group = {}
    /\ verdict = "cancel" => inp \in {"cancel", "close"}
    /\ verdict = "limit" => out = "limit"
LimitReached ==
    /\ out = "erroring" => emitted = MaxOutput
    /\ out = "limit" => emitted = MaxOutput /\ Got("limit")
LeaderGone == pc \in {"close", "done"} => Leader \notin alive /\ returncode = status

SessionInv ==
    /\ OsInv
    /\ NotSpawned /\ NotStarted /\ OutputStopped /\ ToldLast
    /\ LeaderReaped /\ CodeReported /\ TimeoutTold /\ VerdictHolds
    /\ LimitReached /\ LeaderGone
    /\ MessageOrder /\ CleanSession

(* What the client has got, after a step that sends nothing. *)
LEMMA GotSame ==
  ASSUME UNCHANGED msgs
  PROVE  /\ Got("timeout")' <=> Got("timeout")
         /\ Got("exit")' <=> Got("exit")
         /\ Got("limit")' <=> Got("limit")
         /\ MessageOrder => MessageOrder'
BY DEF Got, MessageOrder

(* What the client has got, after a step that sends m, and when m does not *)
(* disturb the order.                                                      *)
LEMMA GotAppend ==
  ASSUME TypeOK, NEW m \in Messages, msgs' = Append(msgs, m)
  PROVE  /\ Got("timeout")' <=> Got("timeout") \/ m = "timeout"
         /\ Got("exit")' <=> Got("exit") \/ m = "exit"
         /\ Got("limit")' <=> Got("limit") \/ m = "limit"
<1>1. /\ msgs \in Seq(Messages) /\ Len(msgs') = Len(msgs) + 1 /\ Len(msgs) \in Nat
      /\ \A i \in 1..Len(msgs) : msgs'[i] = msgs[i]
      /\ msgs'[Len(msgs) + 1] = m
  BY DEF TypeOK, Messages
<1>2. ASSUME NEW x PROVE Got(x)' <=> Got(x) \/ m = x
  BY <1>1 DEF Got
<1> QED BY <1>2

LEMMA OrderAppend ==
  ASSUME TypeOK, NEW m \in Messages, msgs' = Append(msgs, m), MessageOrder,
         m = "start" => msgs = << >>,
         Got("timeout") \/ Got("exit") => m \notin {"output", "limit", "error"},
         Got("exit") => m # "timeout"
  PROVE  MessageOrder'
<1>1. /\ msgs \in Seq(Messages) /\ Len(msgs') = Len(msgs) + 1 /\ Len(msgs) \in Nat
      /\ \A i \in 1..Len(msgs) : msgs'[i] = msgs[i]
      /\ msgs'[Len(msgs) + 1] = m
  BY DEF TypeOK, Messages
<1> SUFFICES ASSUME NEW i \in 1..Len(msgs'), NEW j \in 1..Len(msgs'), i < j
             PROVE  /\ msgs'[j] # "start"
                    /\ msgs'[i] \in {"timeout", "exit"} =>
                          msgs'[j] \notin {"output", "limit", "error"}
                    /\ msgs'[i] = "exit" => msgs'[j] # "timeout"
  BY DEF MessageOrder
<1>2. i \in 1..Len(msgs) /\ msgs'[i] = msgs[i]
  BY <1>1
<1>3. CASE j \in 1..Len(msgs)
  BY <1>1, <1>2, <1>3 DEF MessageOrder
<1>4. CASE j = Len(msgs) + 1
  BY <1>1, <1>2, <1>4 DEF Got
<1> QED BY <1>1, <1>3, <1>4

LEMMA SessionStep == TypeOK /\ Decided /\ SessionInv /\ [Next]_vars => SessionInv'
<1> SUFFICES ASSUME TypeOK, Decided, SessionInv, [Next]_vars PROVE SessionInv'
  OBVIOUS
<1>o. OsTypeOK /\ OsInv
  BY DEF TypeOK, SessionInv
<1>g. MessageOrder
  BY DEF SessionInv
<1> USE DEF NotSpawned, NotStarted, OutputStopped, ToldLast, LeaderReaped, CodeReported,
            TimeoutTold, VerdictHolds, LimitReached, LeaderGone, CleanSession, Decided
<1>m. ASSUME NEW a, NEW b, Move(a, b) PROVE
         /\ pc = a /\ pc' = b
         /\ UNCHANGED <<alive, group, status, returncode, out, inp, wt, emitted, verdict,
                        msgs, exitCode, fds, ReportedCode>>
         /\ OsInv' /\ MessageOrder'
         /\ Got("timeout")' <=> Got("timeout")
         /\ Got("exit")' <=> Got("exit")
         /\ Got("limit")' <=> Got("limit")
  BY <1>m, <1>o, <1>g, GotSame DEF Move, osVars, taskVars, OsInv, ReportedCode
<1>1. CASE StartRefused \/ SendRaises \/ WakeRaises
  <2>1. ASSUME NEW a \in {"start", "main"}, NEW b \in {"sendError", "finally"}, Move(a, b)
        PROVE  SessionInv'
    BY <2>1, <1>m DEF SessionInv
  <2>2. ASSUME NEW a \in Sends, Move(a, "finally") PROVE SessionInv'
    BY <2>2, <1>m DEF SessionInv, Sends
  <2> QED BY <1>1, <2>1, <2>2 DEF StartRefused, SendRaises, WakeRaises
<1>2. CASE KillWaited
  <2>1. Move("killwait", AfterKill) /\ returncode # NoCode
    BY <1>2 DEF KillWaited, WaitReturns
  <2> QED BY <2>1, <1>m DEF SessionInv, AfterKill
<1>3. CASE DrainEnds
  <2>1. Move("draining", IF out = "broken" THEN "finally" ELSE "report") /\ out \in OutEnded
    BY <1>3 DEF DrainEnds
  <2> QED BY <2>1, <1>m DEF SessionInv
<1>4. CASE FinallyWaited
  <2>1. Move("finwait", "close") /\ returncode # NoCode
    BY <1>4 DEF FinallyWaited, WaitReturns
  <2> QED BY <2>1, <1>m DEF SessionInv, OsInv
<1>5. CASE SpawnFails \/ BadSize
  <2>1. /\ pc = "start" /\ pc' = "sendError"
        /\ UNCHANGED <<alive, group, status, returncode, out, inp, wt, emitted, verdict, msgs>>
    BY <1>5 DEF SpawnFails, BadSize, NoCommand, osVars, taskVars
  <2> QED BY <2>1, GotSame DEF SessionInv, OsInv
<1>6. CASE SpawnSucceeds
  <2>1. /\ pc = "start" /\ pc' = "sendStart" /\ group' = {Leader}
        /\ UNCHANGED <<status, returncode, out, inp, wt, emitted, verdict, msgs>>
    BY <1>6 DEF SpawnSucceeds, Spawn, taskVars
  <2> QED BY <2>1, GotSame DEF SessionInv, OsInv
<1>7. CASE Sent
  <2>1. /\ UNCHANGED <<alive, group, status, returncode, emitted, verdict, exitCode, ReportedCode>>
        /\ pc # "sendStart" => UNCHANGED <<out, inp, wt>>
        /\ pc \in Sends /\ OsInv'
    BY <1>7, <1>o DEF Sent, osVars, OsInv, ReportedCode
  <2>2. CASE pc = "sendStart"
    <3>1. /\ msgs' = Append(msgs, "start") /\ pc' = "main"
          /\ out' = "reading" /\ inp' = "waiting" /\ wt' = "waiting"
      BY <1>7, <2>2 DEF Sent, MessageOf, AfterSend
    <3>2. MessageOrder'
      BY <2>2, <3>1, OrderAppend DEF SessionInv, Messages
    <3>3. /\ Got("timeout")' <=> Got("timeout")
          /\ Got("exit")' <=> Got("exit")
      BY <3>1, GotAppend DEF Messages
    <3> QED BY <2>1, <2>2, <3>1, <3>2, <3>3 DEF SessionInv
  <2>3. CASE pc = "sendTimeout"
    <3>1. msgs' = Append(msgs, "timeout") /\ pc' = "sendExit"
      BY <1>7, <2>3 DEF Sent, MessageOf, AfterSend
    <3>2. MessageOrder'
      BY <2>3, <3>1, OrderAppend DEF SessionInv, Messages
    <3>3. /\ Got("timeout")'
          /\ Got("exit")' <=> Got("exit")
          /\ Got("limit")' <=> Got("limit")
      BY <3>1, GotAppend DEF Messages
    <3> QED BY <2>1, <2>3, <3>1, <3>2, <3>3 DEF SessionInv
  <2>4. CASE pc = "sendExit"
    <3>1. msgs' = Append(msgs, "exit") /\ pc' = "finally"
      BY <1>7, <2>4 DEF Sent, MessageOf, AfterSend
    <3>2. MessageOrder'
      BY <2>4, <3>1, OrderAppend DEF SessionInv, Messages
    <3>3. /\ Got("timeout")' <=> Got("timeout")
          /\ Got("exit")'
          /\ Got("limit")' <=> Got("limit")
      BY <3>1, GotAppend DEF Messages
    <3> QED BY <2>1, <2>4, <3>1, <3>2, <3>3 DEF SessionInv
  <2>5. CASE pc = "sendError"
    <3>1. msgs' = Append(msgs, "error") /\ pc' = "finally"
      BY <1>7, <2>5 DEF Sent, MessageOf, AfterSend
    <3>2. MessageOrder'
      BY <2>5, <3>1, OrderAppend DEF SessionInv, Messages
    <3>3. /\ Got("timeout")' <=> Got("timeout")
          /\ Got("exit")' <=> Got("exit")
          /\ Got("limit")' <=> Got("limit")
      BY <3>1, GotAppend DEF Messages
    <3> QED BY <2>1, <2>5, <3>1, <3>2, <3>3 DEF SessionInv
  <2> QED BY <2>1, <2>2, <2>3, <2>4, <2>5 DEF Sends
<1>8. CASE Wake
  <2>1. /\ pc = "main" /\ verdict' = Verdict
        /\ UNCHANGED <<out, inp, wt, emitted, msgs>>
    BY <1>8 DEF Wake, taskVars
  <2>2. ~Got("timeout")' /\ ~Got("exit")' /\ (Got("limit")' <=> Got("limit")) /\ MessageOrder'
    BY <2>1, GotSame DEF SessionInv
  <2>3. /\ Verdict = "timeout" => ~SomeTaskDone
        /\ Verdict = "cancel" => inp \in {"cancel", "close"}
        /\ Verdict = "limit" => out = "limit"
    BY DEF Verdict
  <2>4. CASE wt = "done" /\ pc' = AfterKill /\ UNCHANGED osVars
    <3>1. /\ UNCHANGED <<alive, group, status, returncode>> /\ OsInv'
          /\ pc' \in {"report", "draining"} /\ (pc' = "report" => out \in OutEnded)
      BY <2>4, <1>o DEF osVars, OsInv, AfterKill
    <3>2. verdict' # "timeout"
      BY <2>1, <2>3, <2>4 DEF SomeTaskDone
    <3> QED BY <2>1, <2>2, <2>3, <2>4, <3>1, <3>2 DEF SessionInv
  <2>5. CASE wt # "done" /\ pc' = "killwait" /\ KillGroup
    <3>1. OsInv' /\ group' = {} /\ Leader \notin alive' /\ returncode' = returncode
      BY <2>5, <1>o, KillEffect
    <3> QED BY <2>1, <2>2, <2>3, <2>5, <3>1 DEF SessionInv
  <2> QED BY <1>8, <2>4, <2>5 DEF Wake
<1>9. CASE DrainTimesOut
  <2>1. /\ pc = "draining" /\ pc' = "report" /\ out \notin OutEnded /\ out' = "cancelled"
        /\ UNCHANGED <<alive, group, status, returncode, inp, wt, emitted, verdict, msgs>>
    BY <1>9 DEF DrainTimesOut, osVars
  <2> QED BY <2>1, GotSame DEF SessionInv, OsInv, OutEnded
<1>10. CASE Report
  <2>1. /\ pc = "report" /\ pc' = IF verdict = "timeout" THEN "sendTimeout" ELSE "sendExit"
        /\ exitCode' = ReportedCode' /\ OsInv'
        /\ UNCHANGED <<alive, group, status, returncode, out, inp, wt, emitted, verdict, msgs>>
    BY <1>10, <1>o DEF Report, osVars, taskVars, ReportedCode, OsInv
  <2> QED BY <2>1, GotSame DEF SessionInv
<1>11. CASE Finally
  <2>1. CASE ~Spawned /\ Move("finally", "close")
    <3>1. Leader \notin alive /\ returncode = status
      BY <2>1, <1>o DEF Spawned, OsInv
    <3> QED BY <2>1, <3>1, <1>m DEF SessionInv
  <2>2. CASE returncode # NoCode /\ Move("finally", "close")
    <3>1. Leader \notin alive /\ returncode = status
      BY <2>2, <1>o DEF OsInv
    <3> QED BY <2>2, <3>1, <1>m DEF SessionInv
  <2>3. CASE pc = "finally" /\ returncode = NoCode /\ KillGroup /\ pc' = "finwait"
             /\ UNCHANGED <<taskVars, expired, verdict, ws, msgs, exitCode, fds>>
    <3>1. OsInv' /\ group' = {} /\ Leader \notin alive' /\ returncode' = returncode
      BY <2>3, <1>o, KillEffect
    <3>2. UNCHANGED <<out, inp, wt, emitted, verdict, msgs, exitCode>>
      BY <2>3 DEF taskVars
    <3> QED BY <2>3, <3>1, <3>2, GotSame DEF SessionInv
  <2> QED BY <1>11, <2>1, <2>2, <2>3 DEF Finally
<1>12. CASE CloseAll
  <2>1. /\ pc = "close" /\ pc' = "done" /\ OsInv' /\ "master" \notin fds'
        /\ out \in OutEnded \cup {"none"} => out' = out
        /\ out' \in OutEnded \cup {"none"}
        /\ out \notin OutEnded \cup {"none"} => out' = "cancelled"
        /\ inp' \in InEnded \cup {"none"}
        /\ inp \in {"cancel", "close"} => inp' = inp
        /\ wt' # "waiting" /\ (wt' = "done" => wt = "done")
        /\ UNCHANGED <<alive, group, status, returncode, emitted, verdict, msgs, exitCode, ReportedCode>>
    BY <1>12, <1>o DEF CloseAll, osVars, OsInv, OutEnded, InEnded, ReportedCode
  <2> QED BY <2>1, GotSame DEF SessionInv, OutEnded
<1>t. ASSUME NEW o, NEW i, NEW w, Tasks(o, i, w) PROVE
         /\ UNCHANGED <<pc, verdict, exitCode, fds>>
         /\ out' = o /\ inp' = i /\ wt' = w
         /\ pc \notin {"start", "report", "finally", "close", "done"}
  BY <1>t DEF Tasks, Awaiting, Sends
<1>13. ASSUME NEW n \in 1..MaxWrite, OutRead(n) PROVE SessionInv'
  <2>1. /\ UNCHANGED <<alive, group, status, returncode, msgs, ReportedCode>> /\ OsInv'
        /\ out = "reading" /\ out' = IF emitted < MaxOutput THEN "sending" ELSE "erroring"
        /\ UNCHANGED <<pc, verdict, exitCode, fds, inp, wt>>
        /\ pc \notin {"start", "report", "finally", "close", "done"}
        /\ emitted' = IF emitted < MaxOutput THEN emitted + Cut(n) ELSE emitted
    BY <1>13, <1>t, <1>o DEF OutRead, TakeFromPipe, OsInv, ReportedCode, Tasks
  <2>2. out' = "erroring" => emitted' = MaxOutput
    BY <2>1, SessionAssumption DEF TypeOK
  <2> QED BY <2>1, <2>2, GotSame DEF SessionInv, OutEnded
<1>q. ASSUME Quietly PROVE
         /\ UNCHANGED <<alive, group, status, returncode, emitted, msgs>> /\ OsInv'
         /\ Got("timeout")' <=> Got("timeout")
         /\ Got("exit")' <=> Got("exit")
         /\ Got("limit")' <=> Got("limit")
         /\ MessageOrder'
  BY <1>q, <1>o, <1>g, GotSame DEF Quietly, osVars, OsInv
<1>14. CASE OutEof
  <2>1. /\ out = "reading" /\ out' = "eof" /\ UNCHANGED <<pc, verdict, exitCode, fds, inp, wt>>
        /\ pc \notin {"start", "report", "finally", "close", "done"} /\ Quietly
    BY <1>14, <1>t DEF OutEof
  <2> QED BY <2>1, <1>q DEF SessionInv, OutEnded
<1>15. CASE OutRaises
  <2>1. /\ out \in {"sending", "erroring"} /\ out' = "broken"
        /\ UNCHANGED <<pc, verdict, exitCode, fds, inp, wt>>
        /\ pc \notin {"start", "report", "finally", "close", "done"} /\ Quietly
    BY <1>15, <1>t DEF OutRaises
  <2> QED BY <2>1, <1>q DEF SessionInv, OutEnded
<1>16. CASE OutSent
  <2>1. /\ UNCHANGED <<pc, verdict, exitCode, fds, inp, wt>>
        /\ pc \notin {"start", "report", "finally", "close", "done"}
    BY <1>16, <1>t DEF OutSent
  <2>2. PICK m \in {"output", "limit"} : /\ msgs' = Append(msgs, m) /\ UNCHANGED <<osVars, emitted>>
                                         /\ \/ m = "output" /\ out = "sending" /\ out' = "reading"
                                            \/ m = "limit" /\ out = "erroring" /\ out' = "limit"
    BY <1>16, <1>t DEF OutSent, Says
  <2>3. /\ ~Got("timeout") /\ ~Got("exit") /\ verdict # "limit"
        /\ pc \notin {"sendStart", "sendTimeout", "sendExit"}
    BY <2>1, <2>2 DEF SessionInv, OutEnded
  <2>4. MessageOrder'
    BY <2>2, <2>3, <1>g, OrderAppend DEF Messages
  <2>5. ~Got("timeout")' /\ ~Got("exit")' /\ (Got("limit")' <=> Got("limit") \/ m = "limit")
    BY <2>2, <2>3, GotAppend DEF Messages
  <2>6. UNCHANGED <<alive, group, status, returncode>> /\ OsInv'
    BY <2>2, <1>o DEF osVars, OsInv
  <2> QED BY <2>1, <2>2, <2>3, <2>4, <2>5, <2>6 DEF SessionInv
<1>17. ASSUME NEW m \in {"cancel", "close", "bad", "replying"}, InReceives(m) PROVE SessionInv'
  <2>1. /\ inp = "waiting" /\ inp' = m /\ UNCHANGED <<pc, verdict, exitCode, fds, out, wt>>
        /\ pc \notin {"start", "report", "finally", "close", "done"} /\ Quietly
        /\ UNCHANGED ReportedCode
    BY <1>17, <1>t, <1>q DEF InReceives, ReportedCode
  <2> QED BY <2>1, <1>q DEF SessionInv
<1>18. CASE InReplied
  <2>1. /\ inp = "replying" /\ inp' = "waiting" /\ UNCHANGED <<pc, verdict, exitCode, fds, out, wt>>
        /\ pc \notin {"start", "report", "finally", "close", "done"}
        /\ msgs' = Append(msgs, "unsupported") /\ UNCHANGED <<osVars, emitted>>
    BY <1>18, <1>t DEF InReplied, Says
  <2>2. MessageOrder'
    BY <2>1, <1>g, OrderAppend DEF Messages
  <2>3. /\ Got("timeout")' <=> Got("timeout")
        /\ Got("exit")' <=> Got("exit")
        /\ Got("limit")' <=> Got("limit")
    BY <2>1, GotAppend DEF Messages
  <2>4. UNCHANGED <<alive, group, status, returncode, ReportedCode>> /\ OsInv'
    BY <2>1, <1>o DEF osVars, OsInv, ReportedCode
  <2> QED BY <2>1, <2>2, <2>3, <2>4 DEF SessionInv
<1>19. CASE InRaises
  <2>1. /\ inp \in {"waiting", "replying"} /\ inp' = "gone"
        /\ UNCHANGED <<pc, verdict, exitCode, fds, out, wt>>
        /\ pc \notin {"start", "report", "finally", "close", "done"} /\ Quietly
        /\ UNCHANGED ReportedCode
    BY <1>19, <1>t, <1>q DEF InRaises, ReportedCode
  <2> QED BY <2>1, <1>q DEF SessionInv
<1>20. CASE WaitTaskDone
  <2>1. /\ wt = "waiting" /\ wt' = "done" /\ UNCHANGED <<pc, verdict, exitCode, fds, out, inp>>
        /\ pc \notin {"start", "report", "finally", "close", "done"} /\ Quietly
        /\ UNCHANGED ReportedCode /\ returncode # NoCode
    BY <1>20, <1>t, <1>q DEF WaitTaskDone, WaitReturns, ReportedCode
  <2> QED BY <2>1, <1>q DEF SessionInv
<1>21. CASE Disconnect \/ TtlPasses \/ UNCHANGED vars
  <2>1. /\ UNCHANGED <<alive, group, status, returncode, pc, out, inp, wt, emitted, verdict,
                       msgs, exitCode, fds, ReportedCode>>
        /\ OsInv'
    BY <1>21, <1>o DEF Disconnect, TtlPasses, vars, osVars, sessVars, taskVars, OsInv, ReportedCode
  <2> QED BY <2>1, GotSame DEF SessionInv
<1>22. CASE Command
  <2>1. /\ OsInv'
        /\ Leader \in alive' => Leader \in alive
        /\ Leader \notin alive => status' = status
        /\ group = {} => group' = {}
        /\ returncode' = returncode
        /\ alive # {}
    BY <1>22, <1>o, CommandEffect DEF Command
  <2>2. UNCHANGED <<pc, out, inp, wt, emitted, verdict, msgs, exitCode, fds, ReportedCode>>
    BY <1>22, <2>1 DEF Command, sessVars, taskVars, ReportedCode
  <2>3. pc # "start"
    BY <2>1 DEF SessionInv
  <2> QED BY <2>1, <2>2, <2>3, GotSame DEF SessionInv
<1>23. CASE ChildWatcher
  <2>1. /\ OsInv' /\ returncode' = status' /\ returncode' # NoCode
        /\ UNCHANGED <<alive, group, status>> /\ returncode = NoCode /\ status # NoCode
    BY <1>23, <1>o, ReapEffect DEF ChildWatcher, Reap
  <2>2. /\ UNCHANGED <<pc, out, inp, wt, emitted, verdict, msgs, exitCode, fds>>
    BY <1>23 DEF ChildWatcher, sessVars, taskVars
  <2>3. pc \notin {"start", "sendTimeout", "sendExit", "close", "done"} /\ ~Got("exit")
    BY <2>1 DEF SessionInv
  <2> QED BY <2>1, <2>2, <2>3, GotSame DEF SessionInv
<1> QED BY <1>1, <1>2, <1>3, <1>4, <1>5, <1>6, <1>7, <1>8, <1>9, <1>10, <1>11, <1>12, <1>13,
           <1>14, <1>15, <1>16, <1>17, <1>18, <1>19, <1>20, <1>21, <1>22, <1>23
        DEF Next, Coroutine, OutputTask, InputTask, ClientTakes, Terminated

LEMMA SessionInvariant == Spec => []SessionInv
<1>1. Init => SessionInv
  <2> SUFFICES ASSUME Init PROVE SessionInv
    OBVIOUS
  <2>1. \A m : ~Got(m)
    BY DEF Init, Got
  <2>2. MessageOrder
    BY DEF Init, MessageOrder
  <2> QED BY <2>1, <2>2 DEF Init, OsInit, SessionInv, OsInv, NotSpawned, NotStarted,
             OutputStopped, ToldLast, LeaderReaped, CodeReported, TimeoutTold, VerdictHolds,
             LimitReached, LeaderGone, CleanSession
<1> QED BY <1>1, SessionTyped, SessionStep, PTL DEF Spec

(* What three tasks and the coroutine send reaches the client in order     *)
(* (interactive.py 63-134): start first, no output after the outcome, and  *)
(* exit last.                                                              *)
THEOREM SessionMessagesOrdered == Spec => []MessageOrder
<1>1. SessionInv => MessageOrder
  BY DEF SessionInv
<1> QED BY <1>1, SessionInvariant, PTL

(* The exit message is true, whichever of the leader's death, the client,  *)
(* the output limit and the TTL came first (interactive.py 115-134).       *)
THEOREM SessionExitTrue == Spec => []ExitTruth
<1>1. TypeOK /\ SessionInv => ExitTruth
  <2> SUFFICES ASSUME TypeOK, SessionInv, Got("exit")
               PROVE  /\ Leader \notin alive
                      /\ IF Got("timeout") THEN exitCode = 124
                         ELSE \/ exitCode = 130 /\ inp \in {"cancel", "close"}
                              \/ exitCode = 125 /\ Got("limit") /\ emitted = MaxOutput
                              \/ exitCode = status
    BY DEF ExitTruth
  <2>1. /\ returncode = status /\ status # NoCode /\ Leader \notin alive
    BY DEF SessionInv, LeaderReaped, OsInv
  <2>2. exitCode = ReportedCode /\ verdict \in {"timeout", "cancel", "limit", "exit"}
    BY DEF SessionInv, CodeReported, TypeOK
  <2> QED BY <2>1, <2>2 DEF SessionInv, TimeoutTold, VerdictHolds, LimitReached, ReportedCode
<1> QED BY <1>1, SessionTypeCorrect, SessionInvariant, PTL

(* A session ended by its TTL has lost its whole process group by the time *)
(* the client is told (interactive.py 111-129).                            *)
THEOREM SessionTtlKills == Spec => []TtlKillsGroup
<1>1. SessionInv => TtlKillsGroup
  BY DEF SessionInv, TimeoutTold, VerdictHolds, TtlKillsGroup
<1> QED BY <1>1, SessionInvariant, PTL

(* Every path through the session's finally block leaves the leader dead   *)
(* and reaped, the tasks ended and the terminal closed                     *)
(* (interactive.py 141-153).                                               *)
THEOREM SessionEndsClean == Spec => []CleanSession
<1>1. SessionInv => CleanSession
  BY DEF SessionInv
<1> QED BY <1>1, SessionInvariant, PTL
-----------------------------------------------------------------------------
(***************************************************************************)
(* The session implements RuntimeSession, the session the API server and   *)
(* its client are verified against.                                        *)
(***************************************************************************)

(* A session that told its exit code has reaped its leader, so its finally *)
(* block has nothing to wait for, and no task runs after the message.      *)
ToldAll == pc = "finwait" => ~Got("exit")

LEMMA ToldAllInvariant == Spec => []ToldAll
<1>1. Init => ToldAll
  BY DEF Init, ToldAll
<1>2. TypeOK /\ SessionInv /\ ToldAll /\ [Next]_vars => ToldAll'
  <2> SUFFICES ASSUME TypeOK, SessionInv, ToldAll, [Next]_vars, pc' = "finwait"
               PROVE  ~Got("exit")'
    BY DEF ToldAll
  <2>1. CASE pc = "finwait" /\ UNCHANGED msgs
    BY <2>1, GotSame DEF ToldAll
  <2>2. CASE Finally
    <3>1. returncode = NoCode /\ UNCHANGED msgs
      BY <2>2 DEF Finally, Move
    <3> QED BY <3>1, GotSame DEF SessionInv, LeaderReaped
  <2>3. CASE OutSent \/ InReplied
    <3>1. PICK m \in Messages \ {"exit"} : msgs' = Append(msgs, m) /\ pc' = pc
      BY <2>3 DEF OutSent, InReplied, Says, Tasks, Messages
    <3> QED BY <3>1, GotAppend DEF ToldAll
  <2>4. ~Sent
    BY DEF Sent, Sends, AfterSend
  <2>5. CASE Coroutine /\ ~Finally
    <3>1. FALSE
      BY <2>5 DEF Coroutine, StartRefused, SpawnFails, BadSize, NoCommand, SpawnSucceeds,
                  SendRaises, WakeRaises, Wake, KillWaited, AfterKill, DrainEnds, DrainTimesOut,
                  Report, FinallyWaited, CloseAll, Move
    <3> QED BY <3>1
  <2>6. CASE ~Coroutine /\ ~ClientTakes
    <3>1. UNCHANGED <<pc, msgs>>
      BY <2>6 DEF Next, OutputTask, InputTask, OutEof, OutRaises, OutRead, InRaises, Quietly,
                  WaitTaskDone, InReceives, Tasks, Disconnect, TtlPasses,
                  Command, ChildWatcher, Terminated, vars, sessVars
    <3> QED BY <2>1, <3>1
  <2> QED BY <2>2, <2>3, <2>4, <2>5, <2>6 DEF ClientTakes
<1> QED BY <1>1, <1>2, SessionTypeCorrect, SessionInvariant, PTL DEF Spec

(* What the other end has seen, after a step that sends nothing and leaves *)
(* a code that was told alone.                                             *)
LEMMA SeenSame ==
  ASSUME TypeOK, UNCHANGED msgs, Got("exit") => UNCHANGED exitCode
  PROVE  /\ UNCHANGED SentSeen
         /\ Announced' <=> Announced
         /\ Got("exit")' <=> Got("exit")
<1>1. ASSUME NEW i \in 1..Len(msgs) PROVE Seen(msgs[i])' = Seen(msgs[i])
  BY DEF Seen, Got
<1>2. SentSeen' = SentSeen
  BY <1>1 DEF SentSeen
<1> QED BY <1>2 DEF Announced, Got

(* What the other end has seen, after a step that sends m. *)
LEMMA SeenAppend ==
  ASSUME TypeOK, NEW m \in Messages, msgs' = Append(msgs, m), UNCHANGED exitCode
  PROVE  /\ SentSeen' = Append(SentSeen, Seen(m))
         /\ Announced' <=> Announced \/ m \in {"error", "timeout", "limit", "unsupported"}
         /\ Got("exit")' <=> Got("exit") \/ m = "exit"
<1>1. /\ msgs \in Seq(Messages) /\ Len(msgs') = Len(msgs) + 1 /\ Len(msgs) \in Nat
      /\ \A i \in 1..Len(msgs) : msgs'[i] = msgs[i]
      /\ msgs'[Len(msgs) + 1] = m
  BY DEF TypeOK, Messages
<1>2. ASSUME NEW x PROVE Got(x)' <=> Got(x) \/ m = x
  BY <1>1 DEF Got
<1>3. ASSUME NEW x PROVE Seen(x)' = Seen(x)
  BY DEF Seen
<1> DEFINE Range == {Seen(x) : x \in Messages}
<1>4. SentSeen \in Seq(Range) /\ Len(SentSeen) = Len(msgs)
  BY <1>1 DEF SentSeen
<1>5. SentSeen' = [i \in 1..(Len(msgs) + 1) |-> Seen(msgs'[i])]
  BY <1>1, <1>3 DEF SentSeen
<1>6. Append(SentSeen, Seen(m)) = [i \in 1..(Len(msgs) + 1) |-> Seen(msgs'[i])]
  <2>1. ASSUME NEW i \in 1..(Len(msgs) + 1)
        PROVE  Append(SentSeen, Seen(m))[i] = Seen(msgs'[i])
    BY <1>1, <1>4 DEF SentSeen
  <2>2. Seen(m) \in Range
    OBVIOUS
  <2>3. /\ Append(SentSeen, Seen(m)) \in Seq(Range)
        /\ Len(Append(SentSeen, Seen(m))) = Len(msgs) + 1
    BY <1>4, <2>2
  <2>4. ASSUME NEW s \in Seq(Range) PROVE s = [i \in 1..Len(s) |-> s[i]]
    BY <2>4
  <2>5. Append(SentSeen, Seen(m)) =
          [i \in 1..(Len(msgs) + 1) |-> Append(SentSeen, Seen(m))[i]]
    BY <2>3, <2>4, Zenon
  <2> QED BY <2>1, <2>5
<1> QED BY <1>2, <1>5, <1>6 DEF Announced

(* A step that sends nothing and does not end the session is seen as a     *)
(* stop request at most.                                                   *)
LEMMA WireQuiet ==
  ASSUME TypeOK, UNCHANGED msgs, Got("exit") => UNCHANGED exitCode,
         (pc # "done" /\ pc' # "done") \/ UNCHANGED pc,
         inp \in {"cancel", "close"} => inp' \in {"cancel", "close"},
         pc = "done" => UNCHANGED inp
  PROVE  [Wire!RtNext]_(Wire!rtVars)
<1>1. /\ UNCHANGED SentSeen
      /\ Announced' <=> Announced
      /\ Got("exit")' <=> Got("exit")
  BY SeenSame
<1>2. UNCHANGED <<EndSeen, DownSeen, (pc = "done")>>
  BY <1>1 DEF EndSeen, DownSeen
<1>3. CASE (inp \in {"cancel", "close"})' = (inp \in {"cancel", "close"})
  BY <1>2, <1>3 DEF Wire!rtVars
<1>4. CASE inp \notin {"cancel", "close"} /\ inp' \in {"cancel", "close"}
  BY <1>2, <1>4 DEF Wire!RtNext, Wire!RtAsked
<1> QED BY <1>3, <1>4

(* Sending anything but the exit code before it was told. *)
LEMMA WireTells ==
  ASSUME TypeOK, NEW m \in Messages \ {"exit"}, msgs' = Append(msgs, m), UNCHANGED exitCode,
         pc # "done", pc' # "done", ~Got("exit"),
         (inp \in {"cancel", "close"})' = (inp \in {"cancel", "close"})
  PROVE  Wire!RtNext
<1>1. /\ SentSeen' = Append(SentSeen, Seen(m))
      /\ Announced' <=> Announced \/ m \in {"error", "timeout", "limit", "unsupported"}
      /\ ~Got("exit")'
  BY SeenAppend
<1>2. DownSeen = SentSeen /\ DownSeen' = Append(DownSeen, Seen(m))
  BY <1>1 DEF DownSeen
<1>3. EndSeen \in {<<>>, <<"failed">>}
  BY DEF EndSeen
<1>4. CASE m \in {"start", "output"}
  <2>1. UNCHANGED EndSeen /\ Seen(m) = [type |-> "output"]
    BY <1>1, <1>4 DEF EndSeen, Seen
  <2> QED BY <1>2, <1>3, <2>1 DEF Wire!RtNext, Wire!RtOutput, Wire!Speaking, Wire!Text,
                                  Wire!NotYet, Wire!Failed
<1>5. CASE m \in {"error", "timeout", "limit", "unsupported"}
  <2>1. EndSeen' = <<"failed">> /\ Seen(m) = [type |-> "error"]
    BY <1>1, <1>5 DEF EndSeen, Seen
  <2> QED BY <1>2, <1>3, <2>1 DEF Wire!RtNext, Wire!RtFails, Wire!Speaking, Wire!Text,
                                  Wire!NotYet, Wire!Failed
<1> QED BY <1>4, <1>5 DEF Messages

(* Every step of run_interactive_session is one the other end may see, or  *)
(* none.                                                                   *)
LEMMA WireNext ==
    TypeOK /\ SessionInv /\ ToldAll /\ [Next]_vars => [Wire!RtNext]_(Wire!rtVars)
<1> SUFFICES ASSUME TypeOK, SessionInv, ToldAll, [Next]_vars
             PROVE  [Wire!RtNext]_(Wire!rtVars)
  OBVIOUS
<1>1. CASE Coroutine /\ ~Report /\ ~CloseAll
  <2>1. UNCHANGED <<msgs, exitCode, inp>> /\ pc # "done" /\ pc' # "done"
    BY <1>1 DEF Coroutine, StartRefused, SpawnFails, BadSize, NoCommand, SpawnSucceeds,
                SendRaises, Sends, WakeRaises, Wake, KillWaited, AfterKill, DrainEnds,
                DrainTimesOut, Finally, FinallyWaited, Move, taskVars
  <2> QED BY <2>1, WireQuiet
<1>2. CASE Report
  <2>1. UNCHANGED <<msgs, inp>> /\ pc = "report" /\ pc' # "done"
    BY <1>2 DEF Report, taskVars
  <2>2. ~Got("exit")
    BY <2>1 DEF SessionInv, ToldLast
  <2> QED BY <2>1, <2>2, WireQuiet
<1>3. CASE CloseAll
  <2>1. pc = "close" /\ pc' = "done" /\ UNCHANGED <<msgs, exitCode>>
    BY <1>3 DEF CloseAll
  <2>2. (inp \in {"cancel", "close"})' = (inp \in {"cancel", "close"})
    BY <1>3 DEF CloseAll, InEnded
  <2>3. /\ UNCHANGED SentSeen
        /\ Announced' <=> Announced
        /\ Got("exit")' <=> Got("exit")
    BY <2>1, SeenSame
  <2>4. DownSeen' = Append(DownSeen, [type |-> "frame_8"])
    BY <2>1, <2>3 DEF DownSeen
  <2>5. EndSeen' = IF EndSeen = <<>> THEN <<"dropped">> ELSE EndSeen
    BY <2>1, <2>3 DEF EndSeen
  <2> QED BY <2>1, <2>2, <2>4, <2>5
          DEF Wire!RtNext, Wire!RtCloses, Wire!Text, Wire!NotYet, Wire!Dropped
<1>4. CASE Sent /\ pc # "sendExit"
  <2>1. PICK m \in Messages \ {"exit"} : msgs' = Append(msgs, m)
    BY <1>4 DEF Sent, Sends, MessageOf, Messages
  <2>2. pc \in Sends /\ pc' # "done" /\ UNCHANGED exitCode
    BY <1>4 DEF Sent, Sends, AfterSend
  <2>3. pc # "done" /\ ~Got("exit")
    BY <2>2 DEF Sends, SessionInv, ToldLast
  <2>4. (inp \in {"cancel", "close"})' = (inp \in {"cancel", "close"})
    BY <1>4 DEF Sent, SessionInv, NotStarted
  <2> QED BY <2>1, <2>2, <2>3, <2>4, WireTells
<1>5. CASE Sent /\ pc = "sendExit"
  <2>1. msgs' = Append(msgs, "exit") /\ pc' = "finally" /\ UNCHANGED <<exitCode, inp>>
    BY <1>5 DEF Sent, MessageOf, AfterSend
  <2>2. /\ SentSeen' = Append(SentSeen, Seen("exit"))
        /\ Got("exit")'
    BY <2>1, SeenAppend DEF Messages
  <2>3. DownSeen' = Append(DownSeen, [type |-> "exit", code |-> exitCode])
    BY <1>5, <2>1, <2>2 DEF DownSeen, Seen
  <2>4. EndSeen' = <<"code", exitCode>>
    BY <2>1, <2>2 DEF EndSeen
  <2>5. ~Got("exit")
    BY <1>5 DEF SessionInv, ToldLast
  <2>6. EndSeen = IF Announced THEN <<"failed">> ELSE <<>>
    BY <1>5, <2>5 DEF EndSeen
  <2>7. \/ exitCode \in Statuses
        \/ exitCode \in {124, 125} /\ Announced
        \/ exitCode = 130 /\ inp \in {"cancel", "close"}
    <3>1. exitCode = ReportedCode /\ verdict \in {"timeout", "cancel", "limit", "exit"}
      BY <1>5 DEF SessionInv, CodeReported, TypeOK
    <3>2. CASE verdict = "exit"
      BY <1>5, <3>1, <3>2 DEF ReportedCode, SessionInv, LeaderReaped, TypeOK, OsTypeOK
    <3>3. CASE verdict = "cancel"
      BY <3>1, <3>3 DEF ReportedCode, SessionInv, VerdictHolds
    <3>4. CASE verdict = "timeout"
      <4>1. Got("timeout")
        BY <1>5, <3>4 DEF SessionInv, TimeoutTold
      <4> QED BY <3>1, <3>4, <4>1 DEF ReportedCode, Announced
    <3>5. CASE verdict = "limit"
      <4>1. Got("limit")
        BY <3>5 DEF SessionInv, VerdictHolds, LimitReached
      <4> QED BY <3>1, <3>5, <4>1 DEF ReportedCode, Announced
    <3> QED BY <3>1, <3>2, <3>3, <3>4, <3>5
  <2>8. Wire!RtExits(exitCode)
    BY <1>5, <2>1, <2>3, <2>4, <2>6, <2>7
       DEF Wire!RtExits, Wire!Speaking, Wire!Exit, Wire!Code, Wire!NotYet, Wire!Failed
  <2> QED BY <2>7, <2>8 DEF Wire!RtNext, Wire!Limits
<1>t. ASSUME NEW o, NEW i, NEW w, Tasks(o, i, w) PROVE
         /\ UNCHANGED <<pc, exitCode>> /\ inp' = i /\ pc # "done" /\ ~Got("exit")
  BY <1>t DEF Tasks, Awaiting, Sends, SessionInv, ToldLast, ToldAll
<1>6. CASE OutSent
  <2>1. /\ UNCHANGED <<pc, exitCode, inp>> /\ pc # "done" /\ ~Got("exit")
        /\ \E m \in {"output", "limit"} : msgs' = Append(msgs, m)
    BY <1>6, <1>t DEF OutSent, Says
  <2> QED BY <2>1, WireTells DEF Messages
<1>7. CASE InReplied
  <2>1. /\ UNCHANGED <<pc, exitCode>> /\ pc # "done" /\ ~Got("exit")
        /\ inp = "replying" /\ inp' = "waiting" /\ msgs' = Append(msgs, "unsupported")
    BY <1>7, <1>t DEF InReplied, Says
  <2> QED BY <2>1, WireTells DEF Messages
<1>8. CASE OutEof \/ OutRaises \/ InRaises \/ WaitTaskDone \/ \E n \in 1..MaxWrite : OutRead(n)
  <2>1. /\ UNCHANGED <<pc, exitCode, msgs>> /\ pc # "done"
        /\ UNCHANGED inp \/ inp \in {"waiting", "replying"}
    BY <1>8, <1>t DEF OutEof, OutRaises, InRaises, WaitTaskDone, OutRead, Quietly
  <2> QED BY <2>1, WireQuiet
<1>9. ASSUME NEW m \in {"cancel", "close", "bad", "replying"}, InReceives(m)
      PROVE  [Wire!RtNext]_(Wire!rtVars)
  <2>1. UNCHANGED <<pc, exitCode, msgs>> /\ pc # "done" /\ inp = "waiting"
    BY <1>9, <1>t DEF InReceives, Quietly
  <2> QED BY <2>1, WireQuiet
<1>10. CASE Disconnect \/ TtlPasses \/ Command \/ ChildWatcher \/ UNCHANGED vars
  <2>1. UNCHANGED <<pc, exitCode, msgs, inp>>
    BY <1>10 DEF Disconnect, TtlPasses, Command, ChildWatcher, vars, sessVars, taskVars
  <2> QED BY <2>1, WireQuiet
<1> QED BY <1>1, <1>2, <1>3, <1>4, <1>5, <1>6, <1>7, <1>8, <1>9, <1>10
        DEF Next, OutputTask, InputTask, ClientTakes, Terminated

(* run_interactive_session keeps to what the API server's proxy and its    *)
(* client are verified against (interactive.py 63-153): one exit message   *)
(* at most, with a code the command, the announced limit or the client's   *)
(* request accounts for, and nothing after it but the close.               *)
THEOREM SessionImplementsWire == Spec => ImplementsRuntimeSession
<1>1. Init => Wire!RtInit
  <2> SUFFICES ASSUME Init PROVE Wire!RtInit
    OBVIOUS
  <2>1. \A m : ~Got(m)
    BY DEF Init, Got
  <2>2. EndSeen = <<>> /\ pc # "done" /\ inp \notin {"cancel", "close"}
    BY <2>1 DEF Init, EndSeen, Announced
  <2>3. DownSeen = <<>>
    BY DEF Init, DownSeen, SentSeen
  <2> QED BY <2>2, <2>3 DEF Wire!RtInit, Wire!NotYet
<1>2. Spec => [][Wire!RtNext]_(Wire!rtVars)
  BY WireNext, SessionTypeCorrect, SessionInvariant, ToldAllInvariant, PTL DEF Spec
<1> QED BY <1>1, <1>2, PTL DEF Spec, ImplementsRuntimeSession, Wire!RtSpec
=============================================================================
