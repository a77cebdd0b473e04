-------------------------- MODULE CommandStreamProofs --------------------------
(***************************************************************************)
(* Proofs about CommandStream, for every command: any set of helpers and   *)
(* streams, any output limit, helpers that leave the group or do not, and  *)
(* either behaviour of Process.wait().                                     *)
(***************************************************************************)
EXTENDS CommandStream, ProcessGroupProofs, FiniteSetTheorems

(* Type correctness of stream_command's state: in particular no stream     *)
(* ever yields more than maximum_output_bytes.                             *)
THEOREM StreamTypeCorrect == Spec => []TypeOK
<1>1. Init => TypeOK
  <2> SUFFICES ASSUME Init PROVE TypeOK
    OBVIOUS
  <2>1. OsTypeOK
    BY DEF Init, OsInit, OsTypeOK
  <2>2. queue \in Seq(Item) /\ events \in Seq(EventNames)
    BY DEF Init
  <2>3. emitted \in [Streams -> 0..MaxOutput]
    BY OutputAssumption DEF Init
  <2> QED BY <2>1, <2>2, <2>3 DEF Init, TypeOK, Pcs, ReaderStates
<1>2. TypeOK /\ [Next]_vars => TypeOK'
  <2> SUFFICES ASSUME TypeOK, [Next]_vars PROVE TypeOK'
    OBVIOUS
  <2> USE DEF TypeOK
  <2>j. ASSUME NEW a, NEW b \in Pcs, Jump(a, b) PROVE TypeOK'
    BY <2>j, QuietOs DEF Jump, Goto, dataVars, endVars, envVars
  <2>1. CASE RejectCommand \/ WaitForTimesOut \/ WaitLeader
             \/ FinallyWaited \/ Resume \/ CancelledAgain
    BY <2>1, <2>j DEF RejectCommand, WaitForTimesOut, WaitLeader,
                      FinallyWaited, Resume, CancelledAgain, Pcs
  <2>2. CASE Check
    <3>1. (CASE expired -> "timeout"
             [] ~expired /\ completed < Cardinality(Streams) -> "get"
             [] OTHER -> "reap") \in Pcs
      BY DEF Pcs
    <3> QED BY <2>2, <3>1, <2>j DEF Check
  <2>3. CASE SpawnFails
    BY <2>3, QuietOs DEF SpawnFails, Pcs, EventNames, dataVars, endVars, envVars
  <2>4. CASE SpawnSucceeds
    <3>1. OsTypeOK'
      BY <2>4 DEF SpawnSucceeds, Spawn, OsTypeOK, Procs
    <3> QED BY <2>4, <3>1 DEF SpawnSucceeds, Yield, Pcs, EventNames,
                              ReaderStates, endVars, envVars
  <2>5. CASE GetEof
    BY <2>5, QuietOs DEF GetEof, CountEof, Goto, Pcs, endVars, envVars
  <2>6. CASE GetChunk
    <3> DEFINE name == Head(queue).stream
               size == Head(queue).size
    <3>1. queue \in Seq(Item) /\ queue # << >>
      BY <2>6 DEF GetChunk
    <3>2. Head(queue) \in Item /\ queue' \in Seq(Item)
      BY <2>6, <3>1 DEF GetChunk
    <3>3. name \in Streams /\ size \in Nat
      BY <3>2 DEF Item
    <3>4. emitted' \in [Streams -> 0..MaxOutput]
      <4>1. CASE emitted' = emitted
        BY <4>1
      <4>2. CASE MaxOutput - emitted[name] > 0
                 /\ emitted' = [emitted EXCEPT ![name] = @ + Cut(size, MaxOutput - emitted[name])]
        <5>1. emitted[name] + Cut(size, MaxOutput - emitted[name]) \in 0..MaxOutput
          BY <3>3, <4>2, OutputAssumption DEF Cut, Least
        <5> QED BY <3>3, <4>2, <5>1
      <4> QED BY <2>6, <4>1, <4>2 DEF GetChunk
    <3>5. pc' \in Pcs /\ after' \in {"check", "exit", "finally"} /\ events' \in Seq(EventNames)
      <4>1. CASE Goto("check")
        BY <4>1 DEF Goto, Pcs
      <4>2. CASE Yield(name, "check")
        <5>1. name \in EventNames
          BY <3>3 DEF EventNames
        <5> HIDE DEF name
        <5> QED BY <4>2, <5>1 DEF Yield, Pcs
      <4> QED BY <2>6, <4>1, <4>2 DEF GetChunk
    <3> QED BY <2>6, <3>2, <3>4, <3>5, QuietOs DEF GetChunk, endVars, envVars
  <2>7. CASE KillOnTimeout
    <3>1. OsTypeOK'
      BY <2>7, DieType DEF KillOnTimeout, KillGroup, OsTypeOK, Statuses
    <3> QED BY <2>7, <3>1 DEF KillOnTimeout, Goto, Pcs, dataVars, envVars
  <2>8. CASE YieldTimeout
    BY <2>8, QuietOs DEF YieldTimeout, Yield, Pcs, EventNames, dataVars, endVars, envVars
  <2>9. CASE YieldExit
    <3>1. exitCode' \in Statuses \cup {NoCode, 124}
      BY <2>9 DEF YieldExit, ReportedCode, OsTypeOK
    <3> QED BY <2>9, <3>1, QuietOs DEF YieldExit, Yield, Pcs, EventNames, dataVars, envVars
  <2>10. CASE Finally
    <3>1. CASE returncode # NoCode /\ Jump("finally", "cancel")
      BY <3>1, <2>j DEF Pcs
    <3>2. CASE pc = "finally" /\ KillGroup /\ waiter' = TRUE /\ Goto("finwait")
               /\ UNCHANGED <<dataVars, timedOut, exitCode, envVars>>
      <4>1. OsTypeOK'
        BY <3>2, DieType DEF KillGroup, OsTypeOK, Statuses
      <4> QED BY <3>2, <4>1 DEF Goto, Pcs, dataVars, envVars
    <3> QED BY <2>10, <3>1, <3>2 DEF Finally
  <2>11. CASE CancelReaders
    BY <2>11, QuietOs DEF CancelReaders, Goto, Pcs, ReaderStates, endVars, envVars
  <2>12. ASSUME NEW s \in Streams, ReadEof(s) PROVE TypeOK'
    <3>1. [stream |-> s, size |-> 0] \in Item
      BY DEF Item
    <3> QED BY <2>12, <3>1, QuietOs DEF ReadEof, ReaderStates, ctlVars, endVars, envVars
  <2>13. ASSUME NEW s \in Streams, NEW n \in 1..MaxWrite, ReadChunk(s, n) PROVE TypeOK'
    <3>1. [stream |-> s, size |-> n] \in Item /\ n \in 1..pipe[s]
      BY <2>13 DEF Item, ReadChunk
    <3>2. OsTypeOK'
      BY <2>13, <3>1, DrainType DEF ReadChunk
    <3> QED BY <2>13, <3>1, <3>2 DEF ReadChunk, ctlVars, endVars, envVars
  <2>14. CASE Disconnect
    BY <2>14, QuietOs DEF Disconnect, Goto, Pcs, dataVars, endVars
  <2>15. CASE DeadlinePasses
    BY <2>15, QuietOs DEF DeadlinePasses, ctlVars, dataVars, endVars
  <2>16. CASE Command
    BY <2>16, CommandType DEF Command, genVars, ctlVars, dataVars, endVars, envVars
  <2>17. CASE ChildWatcher
    BY <2>17 DEF ChildWatcher, Reap, OsTypeOK, genVars, ctlVars, dataVars, endVars, envVars
  <2>18. CASE UNCHANGED vars
    BY <2>18, QuietOs DEF vars, genVars, ctlVars, dataVars, endVars, envVars
  <2> QED BY <2>1, <2>2, <2>3, <2>4, <2>5, <2>6, <2>7, <2>8, <2>9, <2>10, <2>11,
             <2>12, <2>13, <2>14, <2>15, <2>16, <2>17, <2>18
          DEF Next, Generator, Reader, Terminated
<1> QED BY <1>1, <1>2, PTL DEF Spec

-----------------------------------------------------------------------------
(***************************************************************************)
(* The inductive invariant.  ExitCodeTruth, TimeoutKillsGroup and CleanEnd *)
(* are not inductive: what each point of the generator knows about the     *)
(* leader and its group has to be carried along from one await to the      *)
(* next.                                                                   *)
(***************************************************************************)
BeforeSpawn ==
    pc = "spawn" => /\ alive = {} /\ status = NoCode /\ exitCode = NoCode
                    /\ ~timedOut
                    /\ events = << >> /\ reader = [s \in Streams |-> "none"]
GroupKilled == pc = "killwait" => group = {}
LeaderReaped ==
    \/ pc \in {"exit", "cancel"}
    \/ pc = "yield" /\ after # "check"
    \/ pc \in {"finally", "finwait"} /\ ~closed
    \/ exitCode # NoCode
    => returncode # NoCode
LeaderDead == pc = "finwait" => Leader \notin alive
ExitLast == exitCode # NoCode => \/ pc \in {"finally", "finwait", "cancel", "done"}
                                 \/ pc = "yield" /\ after = "finally"
CodeReported == exitCode # NoCode => exitCode = IF timedOut THEN 124 ELSE returncode

StreamInv ==
    /\ OsInv
    /\ BeforeSpawn /\ GroupKilled /\ LeaderReaped /\ LeaderDead
    /\ ExitLast /\ CodeReported
    /\ TimeoutKillsGroup /\ CleanEnd

LEMMA EmittedAppend ==
  ASSUME NEW n, events \in Seq(EventNames), NEW e \in EventNames, n # e,
         events' = Append(events, e)
  PROVE  Emitted(n)' => Emitted(n)
BY DEF Emitted

LEMMA EmittedSame == ASSUME NEW n, UNCHANGED events PROVE Emitted(n)' => Emitted(n)
BY DEF Emitted

(* The facts of the invariant that a step of the generator can disturb,    *)
(* for a step that leaves the processes and the reported code alone.       *)
LEMMA QuietStep ==
  ASSUME TypeOK, StreamInv,
         UNCHANGED <<alive, group, status, returncode, exitCode, timedOut>>,
         Emitted("timeout")' => Emitted("timeout") \/ (group = {} /\ returncode # NoCode),
         BeforeSpawn', GroupKilled', LeaderReaped', LeaderDead', ExitLast', CleanEnd'
  PROVE  StreamInv'
<1>1. OsInv' /\ CodeReported'
  BY DEF StreamInv, OsInv, CodeReported
<1>2. TimeoutKillsGroup'
  BY DEF StreamInv, TimeoutKillsGroup
<1> QED BY <1>1, <1>2 DEF StreamInv

LEMMA StreamStep == TypeOK /\ StreamInv /\ [Next]_vars => StreamInv'
<1> SUFFICES ASSUME TypeOK, StreamInv, [Next]_vars PROVE StreamInv'
  OBVIOUS
<1>o. OsTypeOK /\ OsInv
  BY DEF TypeOK, StreamInv
<1>j. ASSUME NEW a, NEW b, Jump(a, b) PROVE
         /\ UNCHANGED <<alive, group, status, returncode, exitCode, timedOut, closed, reader, after>>
         /\ Emitted("timeout")' => Emitted("timeout")
         /\ pc = a /\ pc' = b
  BY <1>j, EmittedSame DEF Jump, Goto, osVars, dataVars, endVars, envVars
<1> USE DEF BeforeSpawn, GroupKilled, LeaderReaped, LeaderDead, ExitLast, CleanEnd
<1>1. CASE RejectCommand
  <2>1. CleanEnd'
    BY <1>1, <1>j DEF RejectCommand, StreamInv, OsInv
  <2> QED BY <1>1, <1>j, <2>1, QuietStep DEF RejectCommand, StreamInv
<1>2. CASE WaitForTimesOut \/ Check
  BY <1>2, <1>j, QuietStep DEF WaitForTimesOut, Check, StreamInv
<1>3. CASE WaitLeader \/ FinallyWaited
  BY <1>3, <1>j, QuietStep DEF WaitLeader, FinallyWaited, WaitReturns, StreamInv
<1>4. CASE Resume
  <2>1. /\ UNCHANGED <<alive, group, status, returncode, exitCode, timedOut, closed, reader, after>>
        /\ pc = "yield" /\ pc' = after /\ after \in {"check", "exit", "finally"}
    BY <1>4, <1>j DEF Resume, TypeOK
  <2>2. BeforeSpawn' /\ GroupKilled' /\ LeaderReaped' /\ LeaderDead' /\ CleanEnd'
    BY <2>1 DEF StreamInv
  <2>3. ExitLast'
    BY <2>1 DEF StreamInv
  <2> QED BY <1>4, <1>j, <2>1, <2>2, <2>3, QuietStep DEF Resume
<1>5. CASE CancelledAgain
  <2>1. /\ UNCHANGED <<alive, group, status, returncode, exitCode, timedOut, reader>>
        /\ pc = "finwait" /\ pc' = "done" /\ closed' = TRUE
        /\ Emitted("timeout")' => Emitted("timeout")
    BY <1>5, <1>j DEF CancelledAgain, TypeOK
  <2>2. CleanEnd'
    BY <2>1 DEF StreamInv
  <2> QED BY <2>1, <2>2, QuietStep DEF StreamInv
<1>6. CASE SpawnFails
  <2>1. /\ UNCHANGED <<alive, group, status, returncode, exitCode, timedOut, reader>>
        /\ pc = "spawn" /\ pc' = "done" /\ events' = Append(events, "error")
    BY <1>6 DEF SpawnFails, osVars, dataVars, endVars
  <2>2. Emitted("timeout")' => Emitted("timeout")
    BY <2>1, EmittedAppend DEF TypeOK, EventNames
  <2>3. CleanEnd'
    BY <2>1 DEF StreamInv, OsInv
  <2> QED BY <2>1, <2>2, <2>3, QuietStep DEF StreamInv
<1>7. CASE SpawnSucceeds
  <2>1. /\ pc = "spawn" /\ pc' = "yield" /\ after' = "check"
        /\ UNCHANGED <<status, returncode, exitCode, timedOut>>
        /\ events' = Append(events, "start")
        /\ Leader \in group'
    BY <1>7 DEF SpawnSucceeds, Spawn, Yield, endVars
  <2>2. ~Emitted("timeout")'
    <3>1. Emitted("timeout")' => Emitted("timeout")
      BY <2>1, EmittedAppend DEF TypeOK, EventNames
    <3>2. events = << >>
      BY <2>1 DEF StreamInv
    <3> QED BY <3>1, <3>2 DEF Emitted
  <2>3. OsInv'
    BY <2>1 DEF StreamInv, OsInv
  <2>4. exitCode' = NoCode
    BY <2>1 DEF StreamInv
  <2> QED BY <2>1, <2>2, <2>3, <2>4 DEF StreamInv, CodeReported, TimeoutKillsGroup
<1>8. CASE GetEof
  <2>1. /\ UNCHANGED <<alive, group, status, returncode, exitCode, timedOut, events>>
        /\ pc = "get" /\ pc' = "check"
    BY <1>8 DEF GetEof, Goto, osVars, endVars
  <2> QED BY <2>1, EmittedSame, QuietStep DEF StreamInv
<1>9. CASE GetChunk
  <2>1. /\ UNCHANGED <<alive, group, status, returncode, exitCode, timedOut>>
        /\ pc = "get" /\ (pc' = "check" \/ (pc' = "yield" /\ after' = "check"))
    BY <1>9 DEF GetChunk, Goto, Yield, osVars, endVars
  <2>2. Emitted("timeout")' => Emitted("timeout")
    <3>1. CASE Goto("check")
      BY <3>1, EmittedSame DEF Goto
    <3>2. CASE Yield(Head(queue).stream, "check")
      <4>1. Head(queue).stream \in Streams
        <5>1. queue \in Seq(Item) /\ queue # << >>
          BY <1>9 DEF GetChunk, TypeOK
        <5>2. Head(queue) \in Item
          BY <5>1
        <5> QED BY <5>2 DEF Item
      <4>2. Head(queue).stream \in EventNames /\ Head(queue).stream # "timeout"
        BY <4>1, OutputAssumption DEF EventNames
      <4> QED BY <3>2, <4>2, EmittedAppend DEF Yield, TypeOK
    <3> QED BY <1>9, <3>1, <3>2 DEF GetChunk
  <2>3. exitCode = NoCode
    BY <2>1 DEF StreamInv
  <2> QED BY <2>1, <2>2, <2>3, QuietStep DEF StreamInv
<1>10. CASE KillOnTimeout
  <2>1. /\ OsInv' /\ group' = {} /\ Leader \notin alive'
        /\ returncode' = returncode
    BY <1>10, <1>o, KillEffect DEF KillOnTimeout
  <2>2. pc = "timeout" /\ pc' = "killwait" /\ UNCHANGED <<events, exitCode>>
    BY <1>10 DEF KillOnTimeout, Goto
  <2>3. exitCode = NoCode
    BY <2>2 DEF StreamInv
  <2>4. TimeoutKillsGroup'
    BY <2>1, <2>2, EmittedSame DEF StreamInv, TimeoutKillsGroup
  <2> QED BY <2>1, <2>2, <2>3, <2>4 DEF StreamInv, CodeReported
<1>11. CASE YieldTimeout
  <2>1. /\ UNCHANGED <<alive, group, status, returncode, exitCode, timedOut>>
        /\ pc = "killwait" /\ pc' = "yield" /\ after' = "exit"
        /\ returncode # NoCode
    BY <1>11 DEF YieldTimeout, Yield, WaitReturns, osVars, endVars
  <2>2. exitCode = NoCode /\ group = {}
    BY <2>1 DEF StreamInv
  <2> QED BY <2>1, <2>2, QuietStep DEF StreamInv
<1>12. CASE YieldExit
  <2>1. /\ UNCHANGED <<alive, group, status, returncode, timedOut>>
        /\ pc = "exit" /\ pc' = "yield" /\ after' = "finally"
        /\ exitCode' = IF timedOut THEN 124 ELSE returncode
        /\ events' = Append(events, "exit")
    BY <1>12 DEF YieldExit, ReportedCode, Yield, osVars
  <2>2. returncode # NoCode
    BY <2>1 DEF StreamInv
  <2>3. TimeoutKillsGroup'
    BY <2>1, EmittedAppend DEF StreamInv, TimeoutKillsGroup, TypeOK, EventNames
  <2> QED BY <2>1, <2>2, <2>3 DEF StreamInv, CodeReported, OsInv
<1>13. CASE Finally
  <2>1. CASE returncode # NoCode /\ Jump("finally", "cancel")
    BY <2>1, <1>j, QuietStep DEF StreamInv
  <2>2. CASE pc = "finally" /\ returncode = NoCode /\ KillGroup /\ Goto("finwait")
             /\ UNCHANGED <<dataVars, timedOut, exitCode, envVars>>
    <3>1. /\ OsInv' /\ group' = {} /\ Leader \notin alive'
          /\ returncode' = returncode
      BY <2>2, <1>o, KillEffect
    <3>2. pc' = "finwait" /\ UNCHANGED <<events, exitCode, timedOut, closed>>
      BY <2>2 DEF Goto, envVars
    <3>3. exitCode = NoCode /\ closed = TRUE
      BY <2>2 DEF StreamInv, TypeOK
    <3>4. TimeoutKillsGroup'
      BY <3>1, <3>2, EmittedSame DEF StreamInv, TimeoutKillsGroup
    <3> QED BY <3>1, <3>2, <3>3, <3>4 DEF StreamInv, CodeReported
  <2> QED BY <1>13, <2>1, <2>2 DEF Finally
<1>14. CASE CancelReaders
  <2>1. /\ UNCHANGED <<alive, group, status, returncode, exitCode, timedOut, events>>
        /\ pc = "cancel" /\ pc' = "done"
        /\ \A s \in Streams : reader'[s] # "reading"
    BY <1>14 DEF CancelReaders, Goto, osVars, endVars
  <2>2. CleanEnd'
    BY <2>1, ProcessAssumption DEF StreamInv, OsInv
  <2> QED BY <2>1, <2>2, EmittedSame, QuietStep DEF StreamInv
<1>15. ASSUME NEW s \in Streams, Reader(s) PROVE StreamInv'
  <2>1. /\ UNCHANGED <<alive, group, status, returncode, exitCode, timedOut, closed,
                       events, pc, after>>
        /\ pc # "spawn"
        /\ \A t \in Streams : reader'[t] = "reading" => reader[t] = "reading"
    BY <1>15 DEF Reader, ReadEof, ReadChunk, TakeFromPipe, LoopFree, TypeOK,
                 osVars, ctlVars, endVars, envVars
  <2> QED BY <2>1, EmittedSame, QuietStep DEF StreamInv
<1>16. CASE Disconnect
  <2>1. /\ UNCHANGED <<alive, group, status, returncode, exitCode, timedOut, events>>
        /\ pc' = "finally" /\ closed' = TRUE
    BY <1>16 DEF Disconnect, Goto, osVars, endVars
  <2> QED BY <2>1, EmittedSame, QuietStep DEF StreamInv
<1>17. CASE DeadlinePasses
  <2>1. UNCHANGED <<alive, group, status, returncode, exitCode, timedOut, events,
                    pc, after, closed, reader>>
    BY <1>17 DEF DeadlinePasses, osVars, ctlVars, dataVars, endVars
  <2> QED BY <2>1, EmittedSame, QuietStep DEF StreamInv
<1>18. CASE Command
  <2>1. /\ OsInv'
        /\ Leader \in alive' => Leader \in alive
        /\ status # NoCode => status' = status
        /\ group = {} => group' = {}
        /\ returncode' = returncode
        /\ alive # {}
    BY <1>18, <1>o, CommandEffect DEF Command
  <2>2. UNCHANGED <<exitCode, timedOut, events, pc, after, closed, reader>>
    BY <1>18 DEF Command, genVars, ctlVars, dataVars, endVars, envVars
  <2>3. pc # "spawn"
    BY <2>1 DEF StreamInv
  <2>4. TimeoutKillsGroup'
    BY <2>1, <2>2, EmittedSame DEF StreamInv, TimeoutKillsGroup
  <2>5. CleanEnd'
    <3>1. ASSUME pc' = "done" PROVE
             /\ Leader \notin alive'
             /\ ~closed' => /\ returncode' = status'
                            /\ \A s \in Streams : reader'[s] # "reading"
      <4>1. Leader \notin alive /\ (~closed => returncode = status)
        BY <2>2, <3>1 DEF StreamInv
      <4>2. status' = status
        BY <1>18, <4>1, <1>o, CommandEffect DEF Command
      <4> QED BY <2>1, <2>2, <3>1, <4>1, <4>2 DEF StreamInv
    <3> QED BY <3>1
  <2> QED BY <2>1, <2>2, <2>3, <2>4, <2>5 DEF StreamInv, CodeReported
<1>19. CASE ChildWatcher
  <2>1. /\ OsInv' /\ returncode' = status' /\ returncode' # NoCode
        /\ UNCHANGED <<alive, group, status>> /\ returncode = NoCode
    BY <1>19, <1>o, ReapEffect DEF ChildWatcher, Reap
  <2>2. /\ UNCHANGED <<exitCode, timedOut, events, pc, after, closed, reader>>
        /\ pc # "spawn"
    BY <1>19 DEF ChildWatcher, LoopFree, genVars, ctlVars, dataVars, endVars, envVars
  <2>3. TimeoutKillsGroup'
    BY <2>1, <2>2, EmittedSame DEF StreamInv, TimeoutKillsGroup
  <2>4. exitCode = NoCode
    BY <2>1 DEF StreamInv
  <2> QED BY <2>1, <2>2, <2>3, <2>4 DEF StreamInv, CodeReported
<1>20. CASE UNCHANGED vars
  <2>1. UNCHANGED <<alive, group, status, returncode, exitCode, timedOut, events,
                    pc, after, closed, reader>>
    BY <1>20 DEF vars, genVars, osVars, ctlVars, dataVars, endVars, envVars
  <2> QED BY <2>1, EmittedSame, QuietStep DEF StreamInv
<1> QED BY <1>1, <1>2, <1>3, <1>4, <1>5, <1>6, <1>7, <1>8, <1>9, <1>10, <1>11, <1>12,
           <1>13, <1>14, <1>15, <1>16, <1>17, <1>18, <1>19, <1>20
        DEF Next, Generator, Terminated

LEMMA StreamInvariant == Spec => []StreamInv
<1>1. Init => StreamInv
  BY DEF Init, OsInit, StreamInv, OsInv, BeforeSpawn, GroupKilled, LeaderReaped,
         LeaderDead, ExitLast, CodeReported, TimeoutKillsGroup, CleanEnd, Emitted
<1> QED BY <1>1, StreamTypeCorrect, StreamStep, PTL DEF Spec

(* The exit event reports 124 exactly for a timed-out command and the      *)
(* leader's own status otherwise (core.py 239).                            *)
THEOREM StreamExitCodeTrue == Spec => []ExitCodeTruth
<1>1. StreamInv => ExitCodeTruth
  BY DEF StreamInv, OsInv, LeaderReaped, CodeReported, ExitCodeTruth
<1> QED BY <1>1, StreamInvariant, PTL

(* When timeout is reported the whole process group is dead (core.py       *)
(* 217-238).                                                               *)
THEOREM StreamTimeoutKills == Spec => []TimeoutKillsGroup
<1>1. StreamInv => TimeoutKillsGroup
  BY DEF StreamInv
<1> QED BY <1>1, StreamInvariant, PTL

(* The finally block leaves no live leader behind on any path, and no      *)
(* reader unless the client left (core.py 240-247).                        *)
THEOREM StreamEndsClean == Spec => []CleanEnd
<1>1. StreamInv => CleanEnd
  BY DEF StreamInv
<1> QED BY <1>1, StreamInvariant, PTL

-----------------------------------------------------------------------------
(***************************************************************************)
(* The event protocol.  While the generator can still yield output it has  *)
(* yielded no last event (Running); once the outcome is decided, timeout   *)
(* is the event just before exit, and there only if the command was timed  *)
(* out (Closing).                                                          *)
(***************************************************************************)
InLoop == pc \in {"check", "get", "reap", "timeout"} \/ (pc = "yield" /\ after = "check")
InExit == pc = "exit" \/ (pc = "yield" /\ after = "exit")
Deadline == (InLoop => ~timedOut) /\ (pc = "killwait" \/ (pc = "yield" /\ after = "exit") => timedOut)
Running ==
    InLoop \/ pc = "killwait" =>
        events # << >> /\ ~Emitted("timeout") /\ ~Emitted("exit") /\ ~Emitted("error")
Closing ==
    InExit =>
        /\ events # << >> /\ ~Emitted("exit") /\ ~Emitted("error")
        /\ \A i \in 1..Len(events) : events[i] = "timeout" => timedOut /\ i = Len(events)
        /\ timedOut => events[Len(events)] = "timeout"

EventInv == Deadline /\ Running /\ Closing /\ EventOrder

(* The event list after a yield. *)
LEMMA AppendedEvent ==
  ASSUME TypeOK, NEW e \in EventNames, events' = Append(events, e)
  PROVE  /\ Len(events) \in Nat /\ Len(events') = Len(events) + 1 /\ events' # << >>
         /\ \A i \in 1..Len(events) : events'[i] = events[i]
         /\ events'[Len(events')] = e
         /\ events # << >> => Len(events) > 0
         /\ \A n : Emitted(n)' <=> Emitted(n) \/ n = e
<1>1. events \in Seq(EventNames)
  BY DEF TypeOK
<1>2. /\ Len(events) \in Nat /\ Len(events') = Len(events) + 1 /\ events' # << >>
      /\ \A i \in 1..Len(events) : events'[i] = events[i]
      /\ events'[Len(events')] = e
      /\ events # << >> => Len(events) > 0
  BY <1>1
<1>3. ASSUME NEW n PROVE Emitted(n)' <=> Emitted(n) \/ n = e
  BY <1>2 DEF Emitted
<1> QED BY <1>2, <1>3

LEMMA EmittedUnchanged == ASSUME UNCHANGED events PROVE \A n : Emitted(n)' <=> Emitted(n)
BY DEF Emitted

(* A step that yields nothing keeps the protocol when the timeout flag     *)
(* rises only before any last event.                                       *)
LEMMA SilentStep ==
  ASSUME TypeOK, EventInv, UNCHANGED events,
         timedOut => timedOut',
         timedOut' # timedOut => ~Emitted("exit"),
         Deadline', Running', Closing'
  PROVE  EventInv'
<1>1. EventOrder'
  BY DEF EventInv, EventOrder, TypeOK, Emitted
<1> QED BY <1>1 DEF EventInv

LEMMA EventStep == TypeOK /\ StreamInv /\ EventInv /\ [Next]_vars => EventInv'
<1> SUFFICES ASSUME TypeOK, StreamInv, EventInv, [Next]_vars PROVE EventInv'
  OBVIOUS
<1>b. pc = "spawn" => events = << >>
  BY DEF StreamInv, BeforeSpawn
<1> USE DEF Deadline, InLoop, InExit
<1>s. ASSUME UNCHANGED <<events, timedOut>>,
             (InLoop \/ pc = "killwait")' => InLoop \/ pc = "killwait",
             InExit' => InExit \/ InLoop, Deadline'
      PROVE  EventInv'
  <2>1. Running'
    BY <1>s, EmittedUnchanged DEF EventInv, Running
  <2>2. Closing'
    <3>1. CASE InExit
      BY <1>s, <3>1, EmittedUnchanged DEF EventInv, Closing
    <3>2. CASE InLoop
      BY <1>s, <3>2, EmittedUnchanged DEF EventInv, Running, Closing, Emitted
    <3> QED BY <1>s, <3>1, <3>2 DEF Closing
  <2> QED BY <1>s, <2>1, <2>2, SilentStep
<1>j. ASSUME NEW a, NEW b, Jump(a, b) PROVE
         pc = a /\ pc' = b /\ UNCHANGED <<events, timedOut, after>>
  BY <1>j DEF Jump, Goto, endVars
<1>1. CASE RejectCommand \/ WaitForTimesOut \/ Check \/ WaitLeader \/ FinallyWaited \/ CancelledAgain
  <2>1. /\ UNCHANGED <<events, timedOut, after>>
        /\ \/ pc' \in {"done", "cancel"}
           \/ pc \in {"check", "get", "reap"} /\ pc' \in {"get", "reap", "timeout", "exit"}
    BY <1>1, <1>j DEF RejectCommand, WaitForTimesOut, Check, WaitLeader, FinallyWaited, CancelledAgain
  <2> QED BY <2>1, <1>s DEF EventInv
<1>2. CASE Resume
  <2>1. /\ pc = "yield" /\ pc' = after /\ UNCHANGED <<events, timedOut, after>>
        /\ after \in {"check", "exit", "finally"}
    BY <1>2, <1>j DEF Resume, TypeOK
  <2> QED BY <2>1, <1>s DEF EventInv
<1>3. CASE SpawnFails
  <2>1. pc = "spawn" /\ pc' = "done" /\ events' = Append(events, "error") /\ UNCHANGED timedOut
    BY <1>3 DEF SpawnFails, endVars
  <2>2. "error" \in EventNames
    BY DEF EventNames
  <2>3. events = << >> /\ Len(events) = 0
    BY <1>b, <2>1
  <2>4. EventOrder'
    BY <2>1, <2>2, <2>3, AppendedEvent DEF EventOrder
  <2> QED BY <2>1, <2>4 DEF EventInv, Running, Closing
<1>4. CASE SpawnSucceeds
  <2>1. /\ pc = "spawn" /\ pc' = "yield" /\ after' = "check" /\ events' = Append(events, "start")
        /\ UNCHANGED timedOut
    BY <1>4 DEF SpawnSucceeds, Yield, endVars
  <2>2. "start" \in EventNames
    BY DEF EventNames
  <2>3. events = << >> /\ Len(events) = 0 /\ \A n : ~Emitted(n)
    BY <1>b, <2>1 DEF Emitted
  <2>4. EventOrder'
    BY <2>1, <2>2, <2>3, AppendedEvent DEF EventOrder
  <2>5. Running'
    BY <2>1, <2>2, <2>3, AppendedEvent DEF Running
  <2>6. ~timedOut
    BY <2>1 DEF StreamInv, BeforeSpawn
  <2> QED BY <2>1, <2>4, <2>5, <2>6 DEF EventInv, Closing
<1>5. CASE GetEof \/ CancelReaders \/ Disconnect \/ (Finally /\ pc' # "cancel")
  <2>1. /\ UNCHANGED <<events, timedOut, after>>
        /\ pc' \in {"done", "finally", "finwait"} \/ (pc = "get" /\ pc' = "check")
    BY <1>5, <1>j DEF GetEof, CancelReaders, Disconnect, Finally, Goto, endVars
  <2> QED BY <2>1, <1>s DEF EventInv
<1>6. CASE Finally /\ pc' = "cancel"
  <2>1. UNCHANGED <<events, timedOut, after>>
    BY <1>6, <1>j DEF Finally, Goto
  <2> QED BY <1>6, <2>1, <1>s DEF EventInv
<1>7. CASE GetChunk
  <2>1. UNCHANGED timedOut /\ pc = "get"
    BY <1>7 DEF GetChunk, endVars
  <2>2. CASE Goto("check")
    BY <2>1, <2>2, <1>s DEF Goto, EventInv
  <2>3. CASE Yield(Head(queue).stream, "check")
    <3>1. Head(queue).stream \in Streams
      <4>1. queue \in Seq(Item) /\ queue # << >>
        BY <1>7 DEF GetChunk, TypeOK
      <4>2. Head(queue) \in Item
        BY <4>1
      <4> QED BY <4>2 DEF Item
    <3>2. PICK e \in Streams : events' = Append(events, e)
      BY <2>3, <3>1 DEF Yield
    <3>3. e \in EventNames /\ e \notin {"start", "timeout", "exit", "error"}
      BY OutputAssumption DEF EventNames
    <3>4. /\ events # << >> /\ ~Emitted("timeout") /\ ~Emitted("exit") /\ ~Emitted("error")
          /\ ~timedOut /\ EventOrder
      BY <2>1 DEF EventInv, Running
    <3>5. pc' = "yield" /\ after' = "check"
      BY <2>3 DEF Yield
    <3>6. Running'
      BY <3>2, <3>3, <3>4, <3>5, AppendedEvent DEF Running
    <3>7. EventOrder'
      BY <2>1, <3>2, <3>3, <3>4, AppendedEvent DEF EventOrder, Emitted
    <3> QED BY <2>1, <3>4, <3>5, <3>6, <3>7 DEF EventInv, Closing
  <2> QED BY <1>7, <2>2, <2>3 DEF GetChunk
<1>8. CASE KillOnTimeout
  <2>1. pc = "timeout" /\ pc' = "killwait" /\ timedOut' = TRUE /\ UNCHANGED <<events, after>>
    BY <1>8 DEF KillOnTimeout, Goto
  <2>2. Running' /\ Closing' /\ ~Emitted("exit")
    BY <2>1, EmittedUnchanged DEF EventInv, Running, Closing
  <2> QED BY <2>1, <2>2, SilentStep
<1>9. CASE YieldTimeout
  <2>1. /\ pc = "killwait" /\ pc' = "yield" /\ after' = "exit" /\ events' = Append(events, "timeout")
        /\ UNCHANGED timedOut
    BY <1>9 DEF YieldTimeout, Yield, endVars
  <2>2. "timeout" \in EventNames
    BY DEF EventNames
  <2>3. /\ events # << >> /\ ~Emitted("timeout") /\ ~Emitted("exit") /\ ~Emitted("error")
        /\ timedOut /\ EventOrder
    BY <2>1 DEF EventInv, Running
  <2>4. EventOrder'
    BY <2>1, <2>2, <2>3, AppendedEvent DEF EventOrder, Emitted
  <2>5. Closing'
    BY <2>1, <2>2, <2>3, AppendedEvent DEF Closing, Emitted
  <2> QED BY <2>1, <2>3, <2>4, <2>5 DEF EventInv, Running
<1>10. CASE YieldExit
  <2>1. /\ pc = "exit" /\ pc' = "yield" /\ after' = "finally" /\ events' = Append(events, "exit")
        /\ UNCHANGED timedOut
    BY <1>10 DEF YieldExit, Yield
  <2>2. "exit" \in EventNames
    BY DEF EventNames
  <2>3. /\ events # << >> /\ ~Emitted("exit") /\ ~Emitted("error") /\ EventOrder
        /\ \A i \in 1..Len(events) : events[i] = "timeout" => timedOut /\ i = Len(events)
        /\ timedOut => events[Len(events)] = "timeout"
    BY <2>1 DEF EventInv, Closing
  <2>4. EventOrder'
    BY <2>1, <2>2, <2>3, AppendedEvent DEF EventOrder, Emitted
  <2> QED BY <2>1, <2>4 DEF EventInv, Running, Closing
<1>11. ASSUME NEW s \in Streams, Reader(s) PROVE EventInv'
  <2>1. UNCHANGED <<events, timedOut, pc, after>>
    BY <1>11 DEF Reader, ReadEof, ReadChunk, ctlVars, endVars
  <2> QED BY <2>1, <1>s DEF EventInv
<1>12. CASE DeadlinePasses \/ Command \/ ChildWatcher \/ UNCHANGED vars
  <2>1. UNCHANGED <<events, timedOut, pc, after>>
    BY <1>12 DEF DeadlinePasses, Command, ChildWatcher, vars, genVars, ctlVars, endVars
  <2> QED BY <2>1, <1>s DEF EventInv
<1> QED BY <1>1, <1>2, <1>3, <1>4, <1>5, <1>6, <1>7, <1>8, <1>9, <1>10, <1>11, <1>12
        DEF Next, Generator, Terminated

LEMMA EventInvariant == Spec => []EventInv
<1>1. Init => EventInv
  BY DEF Init, EventInv, Deadline, InLoop, InExit, Running, Closing, EventOrder
<1> QED BY <1>1, StreamTypeCorrect, StreamInvariant, EventStep, PTL DEF Spec

(* The event protocol of runtime README 34-36 holds on every path through  *)
(* stream_command: start first, exit last, timeout just before it exactly  *)
(* when the command was timed out.                                         *)
THEOREM StreamEventsOrdered == Spec => []EventOrder
<1>1. EventInv => EventOrder
  BY DEF EventInv
<1> QED BY <1>1, EventInvariant, PTL

-----------------------------------------------------------------------------
(***************************************************************************)
(* Output on its way.  What was written to a stream is in the pipe, in the *)
(* queue or yielded, up to the limit.  The sum over the queue is stated by *)
(* the partial sums f along it, so that no induction is needed: f[0] is    *)
(* what has left the queue, f[Len(queue)] what has entered it.  The        *)
(* end-of-stream marker is the last item of its stream; the streams whose  *)
(* marker has been taken are the ones completed_readers counts.            *)
(***************************************************************************)
Part(i, s) == IF queue[i].stream = s THEN queue[i].size ELSE 0
Sums(f, s) ==
    /\ f \in [0..Len(queue) -> Nat]
    /\ \A i \in 1..Len(queue) : f[i] = f[i - 1] + Part(i, s)
    /\ f[Len(queue)] = written[s] - pipe[s]
    /\ emitted[s] = Least(f[0], MaxOutput)
Balanced == \A s \in Streams : \E f : Sums(f, s)

Waiting(s) == \E i \in 1..Len(queue) : queue[i].stream = s
Counted == {s \in Streams : reader[s] = "ended" /\ ~Waiting(s)}
MarkerLast ==
    \A i \in 1..Len(queue) : queue[i].size = 0 =>
        /\ reader[queue[i].stream] = "ended"
        /\ \A j \in 1..Len(queue) : i < j => queue[j].stream # queue[i].stream
MarkerThere ==
    \A s \in Streams : reader[s] = "ended" /\ Waiting(s) =>
        \E i \in 1..Len(queue) : queue[i].stream = s /\ queue[i].size = 0
Markers == completed = Cardinality(Counted) /\ MarkerLast /\ MarkerThere

Drained == \A s \in Streams : reader[s] = "ended" => AtEof(s)
AllTaken ==
    (pc = "reap" \/ InExit \/ exitCode # NoCode) /\ ~timedOut => Counted = Streams

FlowInv == Balanced /\ Markers /\ Drained /\ AllTaken

(* The queue's typed items, and what put and get do to them. *)
LEMMA QueueItems ==
  ASSUME TypeOK
  PROVE  /\ Len(queue) \in Nat
         /\ \A i \in 1..Len(queue) : queue[i].stream \in Streams /\ queue[i].size \in Nat
         /\ queue = << >> <=> Len(queue) = 0
<1>1. queue \in Seq(Item)
  BY DEF TypeOK
<1>2. \A i \in 1..Len(queue) : queue[i] \in Item
  BY <1>1
<1> QED BY <1>1, <1>2 DEF Item

LEMMA PutItem ==
  ASSUME TypeOK, NEW x \in Item, queue' = Append(queue, x)
  PROVE  /\ Len(queue') = Len(queue) + 1
         /\ \A i \in 1..Len(queue) : queue'[i] = queue[i]
         /\ queue'[Len(queue) + 1] = x
BY DEF TypeOK

LEMMA TakeItem ==
  ASSUME TypeOK, queue # << >>, queue' = Tail(queue)
  PROVE  /\ Len(queue) \in Nat \ {0} /\ Len(queue') = Len(queue) - 1
         /\ \A i \in 1..Len(queue') : queue'[i] = queue[i + 1]
         /\ Head(queue) = queue[1]
BY DEF TypeOK

(* The books balance across a put, a get and a step of the command. *)
LEMMA BalancedPut ==
  ASSUME TypeOK, Balanced, NEW s \in Streams, NEW n \in Nat,
         queue' = Append(queue, [stream |-> s, size |-> n]),
         UNCHANGED <<written, emitted>>,
         pipe' = [pipe EXCEPT ![s] = @ - n]
  PROVE  Balanced'
<1> SUFFICES ASSUME NEW t \in Streams PROVE \E g : Sums(g, t)'
  BY DEF Balanced
<1>1. [stream |-> s, size |-> n] \in Item
  BY DEF Item
<1>2. /\ Len(queue) \in Nat /\ Len(queue') = Len(queue) + 1
      /\ \A i \in 1..Len(queue) : queue'[i] = queue[i]
      /\ queue'[Len(queue) + 1].stream = s /\ queue'[Len(queue) + 1].size = n
  BY <1>1, PutItem, QueueItems
<1>3. PICK f : Sums(f, t)
  BY DEF Balanced
<1> DEFINE N == Len(queue)
           d == IF s = t THEN n ELSE 0
           g == [i \in 0..(N + 1) |-> IF i = N + 1 THEN f[N] + d ELSE f[i]]
<1>4. g \in [0..Len(queue') -> Nat]
  BY <1>2, <1>3 DEF Sums
<1>5. \A i \in 1..Len(queue') : g[i] = g[i - 1] + Part(i, t)'
  <2> SUFFICES ASSUME NEW i \in 1..(N + 1) PROVE g[i] = g[i - 1] + Part(i, t)'
    BY <1>2
  <2>1. CASE i = N + 1
    <3>1. Part(i, t)' = d
      BY <1>2, <2>1 DEF Part
    <3>2. g[i] = f[N] + d /\ g[i - 1] = f[N]
      BY <1>2, <2>1
    <3> QED BY <3>1, <3>2
  <2>2. CASE i \in 1..N
    <3>1. Part(i, t)' = Part(i, t)
      BY <1>2, <2>2 DEF Part
    <3>2. g[i] = f[i] /\ g[i - 1] = f[i - 1]
      BY <1>2, <2>2
    <3> QED BY <1>3, <2>2, <3>1, <3>2 DEF Sums
  <2> QED BY <1>2, <2>1, <2>2
<1>6. g[Len(queue')] = written'[t] - pipe'[t]
  <2>1. pipe[t] \in Nat /\ written[t] \in Nat /\ f[N] = written[t] - pipe[t]
    BY <1>3 DEF TypeOK, OsTypeOK, Sums
  <2>2. pipe'[t] = pipe[t] - d
    BY DEF TypeOK, OsTypeOK
  <2> QED BY <1>2, <2>1, <2>2
<1>7. emitted'[t] = Least(g[0], MaxOutput)
  BY <1>2, <1>3 DEF Sums
<1> HIDE DEF g
<1> QED BY <1>4, <1>5, <1>6, <1>7 DEF Sums

LEMMA BalancedGet ==
  ASSUME TypeOK, Balanced, queue # << >>, queue' = Tail(queue),
         UNCHANGED <<written, pipe>>,
         \A t \in Streams :
            emitted'[t] = Least(emitted[t] + Part(1, t), MaxOutput)
  PROVE  Balanced'
<1> SUFFICES ASSUME NEW t \in Streams PROVE \E g : Sums(g, t)'
  BY DEF Balanced
<1>1. /\ Len(queue) \in Nat \ {0} /\ Len(queue') = Len(queue) - 1
      /\ \A i \in 1..Len(queue') : queue'[i] = queue[i + 1]
  BY TakeItem
<1>2. PICK f : Sums(f, t)
  BY DEF Balanced
<1> DEFINE g == [i \in 0..Len(queue') |-> f[i + 1]]
<1>3. g \in [0..Len(queue') -> Nat]
  BY <1>1, <1>2 DEF Sums
<1>4. ASSUME NEW i \in 1..Len(queue') PROVE g[i] = g[i - 1] + Part(i, t)'
  <2>1. Part(i, t)' = Part(i + 1, t)
    BY <1>1 DEF Part
  <2>2. g[i] = f[i + 1] /\ g[i - 1] = f[i]
    BY <1>1
  <2>3. i + 1 \in 1..Len(queue) /\ (i + 1) - 1 = i
    BY <1>1
  <2>4. f[i + 1] = f[(i + 1) - 1] + Part(i + 1, t)
    BY <1>2, <2>3 DEF Sums
  <2> QED BY <2>1, <2>2, <2>3, <2>4
<1>5. g[Len(queue')] = written'[t] - pipe'[t]
  <2>1. g[Len(queue')] = f[Len(queue)]
    BY <1>1
  <2> QED BY <1>2, <2>1 DEF Sums
<1>6. emitted'[t] = Least(g[0], MaxOutput)
  <2>1. f[0] \in Nat /\ f[1] = f[0] + Part(1, t) /\ Part(1, t) \in Nat
        /\ emitted[t] = Least(f[0], MaxOutput)
    BY <1>1, <1>2, QueueItems DEF Sums, Part
  <2>2. g[0] = f[1]
    BY <1>1
  <2> QED BY <2>1, <2>2, OutputAssumption DEF Least
<1> HIDE DEF g
<1> QED BY <1>3, <1>4, <1>5, <1>6 DEF Sums

LEMMA BalancedKept ==
  ASSUME TypeOK, Balanced, UNCHANGED <<queue, emitted>>,
         \A s \in Streams : written'[s] - pipe'[s] = written[s] - pipe[s]
  PROVE  Balanced'
<1> SUFFICES ASSUME NEW t \in Streams PROVE \E g : Sums(g, t)'
  BY DEF Balanced
<1>1. PICK f : Sums(f, t)
  BY DEF Balanced
<1>2. Sums(f, t)'
  BY <1>1 DEF Sums, Part
<1> QED BY <1>2

(* A chunk is put only by a reader that has not ended. *)
LEMMA MarkersPutChunk ==
  ASSUME TypeOK, Markers, NEW s \in Streams, NEW n \in Nat \ {0},
         queue' = Append(queue, [stream |-> s, size |-> n]),
         reader[s] = "reading", UNCHANGED <<reader, completed>>
  PROVE  Markers' /\ Counted' = Counted
<1>1. [stream |-> s, size |-> n] \in Item
  BY DEF Item
<1>2. /\ Len(queue) \in Nat /\ Len(queue') = Len(queue) + 1
      /\ \A i \in 1..Len(queue) : queue'[i] = queue[i]
      /\ queue'[Len(queue) + 1].stream = s /\ queue'[Len(queue) + 1].size = n
  BY <1>1, PutItem, QueueItems
<1>3. \A t \in Streams : t # s => (Waiting(t)' <=> Waiting(t))
  BY <1>2 DEF Waiting
<1>4. Counted' = Counted
  BY <1>3 DEF Counted
<1>5. MarkerLast'
  BY <1>2 DEF Markers, MarkerLast
<1>6. MarkerThere'
  BY <1>2, <1>3 DEF Markers, MarkerThere
<1> QED BY <1>4, <1>5, <1>6 DEF Markers

(* The marker is put once, behind all the chunks of its stream. *)
LEMMA MarkersPutEof ==
  ASSUME TypeOK, Markers, NEW s \in Streams,
         queue' = Append(queue, [stream |-> s, size |-> 0]),
         reader[s] = "reading", reader' = [reader EXCEPT ![s] = "ended"],
         UNCHANGED completed
  PROVE  Markers' /\ Counted' = Counted
<1>1. [stream |-> s, size |-> 0] \in Item
  BY DEF Item
<1>2. /\ Len(queue) \in Nat /\ Len(queue') = Len(queue) + 1
      /\ \A i \in 1..Len(queue) : queue'[i] = queue[i] /\ queue[i].stream \in Streams
      /\ queue'[Len(queue) + 1].stream = s /\ queue'[Len(queue) + 1].size = 0
  BY <1>1, PutItem, QueueItems
<1>3. \A t \in Streams : reader'[t] = IF t = s THEN "ended" ELSE reader[t]
  BY DEF TypeOK
<1>4. Waiting(s)' /\ \A t \in Streams : t # s => (Waiting(t)' <=> Waiting(t))
  BY <1>2 DEF Waiting
<1>5. Counted' = Counted
  BY <1>3, <1>4 DEF Counted
<1>6. MarkerLast'
  BY <1>2, <1>3 DEF Markers, MarkerLast
<1>7. MarkerThere'
  <2> SUFFICES ASSUME NEW t \in Streams, reader'[t] = "ended", Waiting(t)'
               PROVE  \E i \in 1..Len(queue') : queue'[i].stream = t /\ queue'[i].size = 0
    BY DEF MarkerThere
  <2>1. CASE t = s
    BY <1>2, <2>1
  <2>2. CASE t # s
    <3>1. PICK i \in 1..Len(queue) : queue[i].stream = t /\ queue[i].size = 0
      BY <1>3, <1>4, <2>2 DEF Markers, MarkerThere
    <3> QED BY <1>2, <3>1
  <2> QED BY <2>1, <2>2
<1> QED BY <1>5, <1>6, <1>7 DEF Markers

(* Taking the first item leaves the markers behind it last in their        *)
(* streams.                                                                *)
LEMMA MarkersLeft ==
  ASSUME TypeOK, Markers, queue # << >>, queue' = Tail(queue), UNCHANGED reader
  PROVE  /\ MarkerLast'
         /\ \A t \in Streams : t # queue[1].stream => (Waiting(t)' <=> Waiting(t))
         /\ \A t \in Streams : Waiting(t)' => Waiting(t)
         /\ \A t \in Streams, n \in Nat : n # queue[1].size \/ t # queue[1].stream =>
               ((\E i \in 1..Len(queue) : queue[i].stream = t /\ queue[i].size = n) =>
                 (\E i \in 1..Len(queue') : queue'[i].stream = t /\ queue'[i].size = n))
         /\ Waiting(queue[1].stream) /\ queue[1].stream \in Streams
<1>1. /\ Len(queue) \in Nat \ {0} /\ Len(queue') = Len(queue) - 1
      /\ \A i \in 1..Len(queue') : queue'[i] = queue[i + 1]
  BY TakeItem
<1>2. \A i \in 1..Len(queue') : i + 1 \in 1..Len(queue)
  BY <1>1
<1>3. \A i \in 1..Len(queue) : i = 1 \/ (i - 1 \in 1..Len(queue') /\ queue'[i - 1] = queue[i])
  BY <1>1
<1>4. MarkerLast'
  <2> SUFFICES ASSUME NEW i \in 1..Len(queue'), queue'[i].size = 0
               PROVE  /\ reader'[queue'[i].stream] = "ended"
                      /\ \A j \in 1..Len(queue') : i < j => queue'[j].stream # queue'[i].stream
    BY DEF MarkerLast
  <2>1. i + 1 \in 1..Len(queue) /\ queue'[i] = queue[i + 1]
    BY <1>1, <1>2
  <2>2. \A j \in 1..Len(queue') : i < j => i + 1 < j + 1 /\ j + 1 \in 1..Len(queue)
                                           /\ queue'[j] = queue[j + 1]
    BY <1>1, <1>2
  <2> QED BY <2>1, <2>2 DEF Markers, MarkerLast
<1>5. \A t \in Streams : Waiting(t)' => Waiting(t)
  BY <1>1, <1>2 DEF Waiting
<1>6. \A t \in Streams : t # queue[1].stream => (Waiting(t) => Waiting(t)')
  BY <1>3 DEF Waiting
<1>7. ASSUME NEW t \in Streams, NEW n \in Nat, n # queue[1].size \/ t # queue[1].stream,
             NEW i \in 1..Len(queue), queue[i].stream = t /\ queue[i].size = n
      PROVE  \E k \in 1..Len(queue') : queue'[k].stream = t /\ queue'[k].size = n
  <2>1. i - 1 \in 1..Len(queue') /\ queue'[i - 1] = queue[i]
    BY <1>3, <1>7
  <2> QED BY <1>7, <2>1
<1>8. Waiting(queue[1].stream) /\ queue[1].stream \in Streams
  BY <1>1, QueueItems DEF Waiting
<1> QED BY <1>4, <1>5, <1>6, <1>7, <1>8

(* A chunk that is taken is not the last item of its stream if that has    *)
(* ended.                                                                  *)
LEMMA MarkersGetChunk ==
  ASSUME TypeOK, Markers, queue # << >>, queue' = Tail(queue), queue[1].size # 0,
         UNCHANGED <<reader, completed>>
  PROVE  Markers' /\ Counted' = Counted
<1>1. ASSUME NEW t \in Streams, reader[t] = "ended", Waiting(t)
      PROVE  Waiting(t)' /\ \E i \in 1..Len(queue') : queue'[i].stream = t /\ queue'[i].size = 0
  <2>1. \E i \in 1..Len(queue) : queue[i].stream = t /\ queue[i].size = 0
    BY <1>1 DEF Markers, MarkerThere
  <2>2. \E i \in 1..Len(queue') : queue'[i].stream = t /\ queue'[i].size = 0
    BY <2>1, MarkersLeft
  <2> QED BY <2>2 DEF Waiting
<1>2. MarkerLast' /\ \A t \in Streams : Waiting(t)' => Waiting(t)
  BY MarkersLeft
<1>3. Counted' = Counted
  BY <1>1, <1>2 DEF Counted
<1>4. MarkerThere'
  BY <1>1, <1>2 DEF MarkerThere
<1> QED BY <1>2, <1>3, <1>4 DEF Markers

(* Taking a marker completes exactly its stream (core.py 210-212). *)
LEMMA MarkersGetEof ==
  ASSUME TypeOK, Markers, queue # << >>, queue' = Tail(queue), queue[1].size = 0,
         completed' = CountEof, UNCHANGED reader
  PROVE  Markers'
<1>s. PICK s \in Streams : s = queue[1].stream
  BY MarkersLeft
<1>1. /\ MarkerLast'
      /\ \A t \in Streams : t # s => (Waiting(t)' <=> Waiting(t))
      /\ Waiting(s)
  BY <1>s, MarkersLeft
<1>2. reader[s] = "ended" /\ ~Waiting(s)'
  <2>1. /\ Len(queue) \in Nat \ {0} /\ Len(queue') = Len(queue) - 1
        /\ \A i \in 1..Len(queue') : queue'[i] = queue[i + 1]
    BY TakeItem
  <2>2. /\ reader[s] = "ended"
        /\ \A j \in 1..Len(queue) : 1 < j => queue[j].stream # s
    BY <1>s, <2>1 DEF Markers, MarkerLast
  <2>3. \A i \in 1..Len(queue') : i + 1 \in 1..Len(queue) /\ 1 < i + 1
    BY <2>1
  <2> QED BY <2>1, <2>2, <2>3 DEF Waiting
<1>3. Counted' = Counted \cup {s} /\ s \notin Counted
  BY <1>1, <1>2 DEF Counted
<1>4. IsFiniteSet(Counted) /\ Cardinality(Counted \cup {s}) = Cardinality(Counted) + 1
  <2>1. IsFiniteSet(Counted)
    <3>1. Counted \in SUBSET Streams
      BY DEF Counted
    <3> QED BY <3>1, OutputAssumption, FS_Subset
  <2> QED BY <1>3, <2>1, FS_AddElement
<1>5. completed' = Cardinality(Counted')
  BY <1>3, <1>4 DEF CountEof, Markers
<1>6. MarkerThere'
  <2> SUFFICES ASSUME NEW t \in Streams, reader'[t] = "ended", Waiting(t)'
               PROVE  \E i \in 1..Len(queue') : queue'[i].stream = t /\ queue'[i].size = 0
    BY DEF MarkerThere
  <2>1. t # s /\ Waiting(t)
    BY <1>1, <1>2
  <2>2. \E i \in 1..Len(queue) : queue[i].stream = t /\ queue[i].size = 0
    BY <2>1 DEF Markers, MarkerThere
  <2> QED BY <1>s, <2>1, <2>2, MarkersLeft
<1> QED BY <1>1, <1>5, <1>6 DEF Markers

LEMMA MarkersKept ==
  ASSUME Markers, UNCHANGED <<queue, completed>>,
         \A s \in Streams : reader'[s] = "ended" <=> reader[s] = "ended",
         TypeOK
  PROVE  Markers' /\ Counted' = Counted
<1>1. Counted' = Counted /\ \A s \in Streams : Waiting(s)' <=> Waiting(s)
  BY DEF Counted, Waiting
<1>2. MarkerLast' /\ MarkerThere'
  BY <1>1, QueueItems DEF Markers, MarkerLast, MarkerThere
<1> QED BY <1>1, <1>2 DEF Markers

(* completed_readers has reached the number of streams only when the       *)
(* marker of every stream has been taken.                                  *)
LEMMA AllCounted ==
  ASSUME TypeOK, Markers, ~(completed < Cardinality(Streams))
  PROVE  Counted = Streams
<1>1. Counted \in SUBSET Streams
  BY DEF Counted
<1>2. /\ Cardinality(Counted) <= Cardinality(Streams)
      /\ Cardinality(Streams) = Cardinality(Counted) => Streams = Counted
      /\ IsFiniteSet(Counted)
  BY <1>1, OutputAssumption, FS_Subset
<1>3. Cardinality(Counted) \in Nat /\ Cardinality(Streams) \in Nat
  BY <1>2, OutputAssumption, FS_CardinalityType
<1> QED BY <1>2, <1>3 DEF Markers

(* A step that neither moves data nor ends or restarts an ended reader. *)
LEMMA FlowKept ==
  ASSUME TypeOK, FlowInv, UNCHANGED <<queue, emitted, completed>>,
         \A s \in Streams : reader'[s] = "ended" <=> reader[s] = "ended",
         \A s \in Streams : /\ written'[s] - pipe'[s] = written[s] - pipe[s]
                            /\ holds[s] = {} => holds'[s] = {} /\ pipe'[s] = pipe[s]
  PROVE  /\ Balanced' /\ Markers' /\ Drained'
         /\ Counted' = Counted
<1>1. Balanced'
  BY BalancedKept DEF FlowInv
<1>2. Markers' /\ Counted' = Counted
  BY MarkersKept DEF FlowInv
<1>3. Drained'
  BY DEF FlowInv, Drained, AtEof
<1> QED BY <1>1, <1>2, <1>3

LEMMA FlowStep == TypeOK /\ StreamInv /\ EventInv /\ FlowInv /\ [Next]_vars => FlowInv'
<1> SUFFICES ASSUME TypeOK, StreamInv, EventInv, FlowInv, [Next]_vars PROVE FlowInv'
  OBVIOUS
<1>k. ASSUME UNCHANGED <<queue, emitted, completed, reader, holds, pipe, written>>
      PROVE  Balanced' /\ Markers' /\ Drained' /\ Counted' = Counted
  BY <1>k, FlowKept
<1>d. UNCHANGED <<osVars, dataVars>> =>
         UNCHANGED <<queue, emitted, completed, reader, holds, pipe, written>>
  BY DEF osVars, dataVars
<1>j. ASSUME NEW a, NEW b, Jump(a, b) PROVE
         /\ pc = a /\ pc' = b /\ UNCHANGED <<after, exitCode, timedOut>>
         /\ Balanced' /\ Markers' /\ Drained' /\ Counted' = Counted
  BY <1>j, <1>k, <1>d DEF Jump, Goto, endVars
<1>t. AllTaken
  BY DEF FlowInv
<1> USE DEF AllTaken, InExit
<1>1. CASE RejectCommand \/ WaitForTimesOut \/ WaitLeader \/ FinallyWaited \/ CancelledAgain \/ Resume
  <2>1. /\ Balanced' /\ Markers' /\ Drained' /\ Counted' = Counted
        /\ UNCHANGED <<after, exitCode, timedOut>>
        /\ \/ pc' \in {"done", "timeout", "cancel"}
           \/ pc = "reap" /\ pc' = "exit"
           \/ pc = "yield" /\ pc' = after
    BY <1>1, <1>j DEF RejectCommand, WaitForTimesOut, WaitLeader, FinallyWaited,
                      CancelledAgain, Resume
  <2>2. after \in {"check", "exit", "finally"}
    BY DEF TypeOK
  <2> QED BY <2>1, <2>2, <1>t DEF FlowInv
<1>2. CASE Check
  <2>1. /\ UNCHANGED <<after, exitCode, timedOut>>
        /\ Balanced' /\ Markers' /\ Drained' /\ Counted' = Counted
        /\ pc' \in {"timeout", "get", "reap"} /\ pc = "check"
        /\ pc' = "reap" => ~(completed < Cardinality(Streams))
    BY <1>2, <1>j DEF Check
  <2>2. pc' = "reap" => Counted = Streams
    BY <2>1, AllCounted DEF FlowInv
  <2> QED BY <2>1, <2>2, <1>t DEF FlowInv
<1>3. CASE SpawnFails
  <2>1. /\ pc' = "done" /\ UNCHANGED <<exitCode, timedOut>>
        /\ Balanced' /\ Markers' /\ Drained' /\ Counted' = Counted
    BY <1>3, <1>k, <1>d DEF SpawnFails, endVars
  <2> QED BY <2>1, <1>t DEF FlowInv
<1>4. CASE SpawnSucceeds
  <2>1. /\ pc = "spawn" /\ pc' = "yield" /\ after' = "check"
        /\ UNCHANGED <<exitCode, queue, emitted, completed, pipe, written>>
        /\ reader' = [s \in Streams |-> "reading"]
    BY <1>4 DEF SpawnSucceeds, Spawn, Yield, endVars
  <2>2. exitCode = NoCode /\ reader = [s \in Streams |-> "none"]
    BY <2>1 DEF StreamInv, BeforeSpawn
  <2>3. Balanced'
    BY <2>1, BalancedKept DEF FlowInv
  <2>4. Markers'
    BY <2>1, <2>2, MarkersKept DEF FlowInv
  <2>5. Drained'
    BY <2>1 DEF Drained
  <2> QED BY <2>1, <2>2, <2>3, <2>4, <2>5 DEF FlowInv
<1>5. CASE GetEof
  <2>1. /\ pc = "get" /\ pc' = "check" /\ queue # << >> /\ Head(queue).size = 0
        /\ queue' = Tail(queue) /\ completed' = CountEof
        /\ UNCHANGED <<exitCode, emitted, reader, holds, pipe, written>>
    BY <1>5 DEF GetEof, Goto, osVars, endVars
  <2>2. queue[1].size = 0 /\ exitCode = NoCode
    BY <2>1, TakeItem DEF StreamInv, ExitLast
  <2>3. Markers'
    BY <2>1, <2>2, MarkersGetEof DEF FlowInv
  <2>4. Balanced'
    <3>1. ASSUME NEW t \in Streams PROVE emitted'[t] = Least(emitted[t] + Part(1, t), MaxOutput)
      <4>1. Part(1, t) = 0 /\ emitted[t] \in 0..MaxOutput
        BY <2>2 DEF Part, TypeOK
      <4> QED BY <2>1, <4>1, OutputAssumption DEF Least
    <3> QED BY <2>1, <3>1, BalancedGet DEF FlowInv
  <2>5. Drained'
    BY <2>1 DEF FlowInv, Drained, AtEof
  <2> QED BY <2>1, <2>2, <2>3, <2>4, <2>5 DEF FlowInv
<1>6. CASE GetChunk
  <2> DEFINE name == Head(queue).stream
             size == Head(queue).size
             allowed == MaxOutput - emitted[name]
  <2>1. /\ pc = "get" /\ queue # << >> /\ size > 0 /\ queue' = Tail(queue)
        /\ UNCHANGED <<exitCode, completed, reader, holds, pipe, written>>
        /\ pc' = "check" \/ (pc' = "yield" /\ after' = "check")
    BY <1>6 DEF GetChunk, Goto, Yield, osVars, endVars
  <2>2. exitCode = NoCode
    BY <2>1 DEF StreamInv, ExitLast
  <2>3. Head(queue) = queue[1] /\ name \in Streams /\ size \in Nat \ {0}
    BY <2>1, TakeItem, QueueItems
  <2>4. Markers'
    BY <2>1, <2>3, MarkersGetChunk DEF FlowInv
  <2>5. ASSUME NEW t \in Streams PROVE emitted'[t] = Least(emitted[t] + Part(1, t), MaxOutput)
    <3>1. emitted[t] \in 0..MaxOutput /\ MaxOutput \in Nat
      BY OutputAssumption DEF TypeOK
    <3>2. Part(1, t) = IF t = name THEN size ELSE 0
      BY <2>3 DEF Part
    <3>3. CASE allowed <= 0 /\ UNCHANGED emitted
      BY <2>3, <3>1, <3>2, <3>3 DEF Least
    <3>4. CASE allowed > 0 /\ emitted' = [emitted EXCEPT ![name] = @ + Cut(size, allowed)]
      <4>1. emitted'[t] = IF t = name THEN emitted[t] + Cut(size, allowed) ELSE emitted[t]
        BY <3>4 DEF TypeOK
      <4> QED BY <2>3, <3>1, <3>2, <3>4, <4>1 DEF Least, Cut
    <3> QED BY <1>6, <3>3, <3>4 DEF GetChunk
  <2>6. Balanced'
    BY <2>1, <2>5, BalancedGet DEF FlowInv
  <2>7. Drained'
    BY <2>1 DEF FlowInv, Drained, AtEof
  <2> QED BY <2>1, <2>2, <2>4, <2>6, <2>7 DEF FlowInv
<1>g. ASSUME KillGroup, UNCHANGED dataVars
      PROVE  Balanced' /\ Markers' /\ Drained' /\ Counted' = Counted
  <2>1. /\ UNCHANGED <<queue, emitted, completed, reader, pipe, written>>
        /\ \A s \in Streams : holds[s] = {} => holds'[s] = {}
    BY <1>g DEF KillGroup, Die, dataVars
  <2> QED BY <2>1, FlowKept
<1>7. CASE KillOnTimeout
  <2>1. timedOut' = TRUE /\ KillGroup /\ UNCHANGED dataVars
    BY <1>7 DEF KillOnTimeout
  <2> QED BY <2>1, <1>g DEF FlowInv
<1>8. CASE YieldTimeout
  <2>1. timedOut' /\ UNCHANGED <<osVars, dataVars>>
    BY <1>8 DEF YieldTimeout, EventInv, Deadline, endVars
  <2> QED BY <2>1, <1>k, <1>d DEF FlowInv
<1>9. CASE YieldExit
  <2>1. pc = "exit" /\ UNCHANGED <<osVars, dataVars, timedOut>>
    BY <1>9 DEF YieldExit
  <2> QED BY <2>1, <1>k, <1>d, <1>t DEF FlowInv
<1>10. CASE Finally
  <2>1. CASE Jump("finally", "cancel")
    BY <2>1, <1>j, <1>t DEF FlowInv
  <2>2. CASE KillGroup /\ Goto("finwait") /\ UNCHANGED <<dataVars, timedOut, exitCode, envVars>>
    BY <2>2, <1>g, <1>t DEF Goto, FlowInv
  <2> QED BY <1>10, <2>1, <2>2 DEF Finally
<1>11. CASE CancelReaders
  <2>1. /\ pc' = "done" /\ UNCHANGED <<exitCode, timedOut>>
        /\ UNCHANGED <<queue, emitted, completed, holds, pipe, written>>
        /\ \A s \in Streams : reader'[s] = "ended" <=> reader[s] = "ended"
    BY <1>11 DEF CancelReaders, Goto, endVars, osVars
  <2>2. Balanced' /\ Markers' /\ Drained' /\ Counted' = Counted
    BY <2>1, FlowKept
  <2> QED BY <2>1, <2>2, <1>t DEF FlowInv
<1>12. ASSUME NEW s \in Streams, NEW n \in 1..MaxWrite, ReadChunk(s, n) PROVE FlowInv'
  <2>1. /\ reader[s] = "reading" /\ n \in 1..pipe[s] /\ pipe' = [pipe EXCEPT ![s] = @ - n]
        /\ queue' = Append(queue, [stream |-> s, size |-> n])
        /\ UNCHANGED <<pc, after, exitCode, timedOut, emitted, completed, reader, holds, written>>
    BY <1>12 DEF ReadChunk, TakeFromPipe, ctlVars, endVars
  <2>2. n \in Nat \ {0}
    BY ProcessAssumption
  <2>3. Balanced'
    BY <2>1, <2>2, BalancedPut DEF FlowInv
  <2>4. Markers' /\ Counted' = Counted
    BY <2>1, <2>2, MarkersPutChunk DEF FlowInv
  <2>5. Drained'
    <3>1. \A t \in Streams : t # s => pipe'[t] = pipe[t]
      BY <2>1 DEF TypeOK, OsTypeOK
    <3> QED BY <2>1, <3>1 DEF FlowInv, Drained, AtEof
  <2> QED BY <2>1, <2>3, <2>4, <2>5, <1>t DEF FlowInv
<1>13. ASSUME NEW s \in Streams, ReadEof(s) PROVE FlowInv'
  <2>1. /\ reader[s] = "reading" /\ AtEof(s) /\ reader' = [reader EXCEPT ![s] = "ended"]
        /\ queue' = Append(queue, [stream |-> s, size |-> 0])
        /\ UNCHANGED <<pc, after, exitCode, timedOut, emitted, completed, holds, pipe, written>>
    BY <1>13 DEF ReadEof, ctlVars, endVars, osVars
  <2>2. pipe' = [pipe EXCEPT ![s] = @ - 0]
    BY <2>1 DEF TypeOK, OsTypeOK
  <2>3. Balanced'
    BY <2>1, <2>2, BalancedPut DEF FlowInv
  <2>4. Markers' /\ Counted' = Counted
    BY <2>1, MarkersPutEof DEF FlowInv
  <2>5. Drained'
    <3>1. \A t \in Streams : reader'[t] = IF t = s THEN "ended" ELSE reader[t]
      BY <2>1 DEF TypeOK
    <3> QED BY <2>1, <3>1 DEF FlowInv, Drained, AtEof
  <2> QED BY <2>1, <2>3, <2>4, <2>5, <1>t DEF FlowInv
<1>14. CASE Disconnect
  <2>1. pc' = "finally" /\ UNCHANGED <<osVars, dataVars, exitCode, timedOut>>
    BY <1>14 DEF Disconnect, Goto, endVars
  <2> QED BY <2>1, <1>k, <1>d, <1>t DEF FlowInv
<1>15. CASE DeadlinePasses \/ UNCHANGED vars
  <2>1. UNCHANGED <<osVars, dataVars, pc, after, exitCode, timedOut>>
    BY <1>15 DEF DeadlinePasses, vars, genVars, ctlVars, endVars
  <2> QED BY <2>1, <1>k, <1>d, <1>t DEF FlowInv
<1>16. CASE Command
  <2>1. UNCHANGED <<queue, emitted, completed, reader, pc, after, exitCode, timedOut>>
    BY <1>16 DEF Command, genVars, ctlVars, dataVars, endVars
  <2>2. Balanced' /\ Markers' /\ Drained' /\ Counted' = Counted
    BY <1>16, <2>1, CommandStreams, FlowKept DEF Command, TypeOK
  <2> QED BY <2>1, <2>2, <1>t DEF FlowInv
<1>17. CASE ChildWatcher
  <2>1. /\ UNCHANGED <<queue, emitted, completed, reader, holds, pipe, written>>
        /\ UNCHANGED <<pc, after, exitCode, timedOut>>
    BY <1>17 DEF ChildWatcher, Reap, genVars, ctlVars, dataVars, endVars
  <2> QED BY <2>1, <1>k, <1>t DEF FlowInv
<1> QED BY <1>1, <1>2, <1>3, <1>4, <1>5, <1>6, <1>7, <1>8, <1>9, <1>10, <1>11, <1>12, <1>13,
           <1>14, <1>15, <1>16, <1>17
        DEF Next, Generator, Reader, Terminated

LEMMA FlowInvariant == Spec => []FlowInv
<1>1. Init => FlowInv
  <2> SUFFICES ASSUME Init PROVE FlowInv
    OBVIOUS
  <2>1. Len(queue) = 0
    BY DEF Init
  <2>2. Balanced
    <3> SUFFICES ASSUME NEW s \in Streams PROVE \E f : Sums(f, s)
      BY DEF Balanced
    <3>1. Sums([i \in 0..0 |-> 0], s)
      BY <2>1, OutputAssumption DEF Init, OsInit, Sums, Least
    <3> QED BY <3>1
  <2>3. Counted = {}
    BY DEF Init, Counted
  <2>4. Markers
    BY <2>1, <2>3, FS_EmptySet DEF Init, Markers, MarkerLast, MarkerThere
  <2> QED BY <2>2, <2>4 DEF Init, FlowInv, Drained, AllTaken, InExit
<1> QED BY <1>1, StreamTypeCorrect, StreamInvariant, EventInvariant, FlowStep, PTL DEF Spec

(* A command that was not timed out has all its output yielded, up to the  *)
(* limit, before its exit event, however the readers, the queue and the    *)
(* end of the streams interleave (core.py 182-219).                        *)
THEOREM StreamNothingLost == Spec => []NothingLost
<1>1. TypeOK /\ FlowInv => NothingLost
  <2> SUFFICES ASSUME TypeOK, FlowInv, exitCode # NoCode, ~timedOut, NEW s \in Streams
               PROVE  emitted[s] = Least(written[s], MaxOutput)
    BY DEF NothingLost
  <2>1. Counted = Streams
    BY DEF FlowInv, AllTaken
  <2>2. Len(queue) = 0
    BY <2>1, QueueItems DEF Counted, Waiting
  <2>3. pipe[s] = 0
    BY <2>1 DEF FlowInv, Drained, Counted, AtEof
  <2>4. PICK f : Sums(f, s)
    BY DEF FlowInv, Balanced
  <2>5. f[0] = written[s]
    BY <2>2, <2>3, <2>4 DEF Sums, TypeOK, OsTypeOK
  <2> QED BY <2>4, <2>5 DEF Sums
<1> QED BY <1>1, StreamTypeCorrect, FlowInvariant, PTL
=============================================================================
