--------------------------- MODULE CommandExecProofs ---------------------------
(***************************************************************************)
(* Proofs about CommandExec, for every command: any helpers and streams,   *)
(* any output limit, and either behaviour of Process.wait().               *)
(***************************************************************************)
EXTENDS CommandExec, ProcessGroupProofs

(* Type correctness of execute_command: in particular no stream's captured *)
(* output exceeds maximum_output_bytes (_read_limited, core.py 109-119).   *)
THEOREM ExecTypeCorrect == Spec => []TypeOK
<1>1. Init => TypeOK
  <2> SUFFICES ASSUME Init PROVE TypeOK
    OBVIOUS
  <2>1. OsTypeOK
    BY DEF Init, OsInit, OsTypeOK
  <2>2. captured \in [Streams -> 0..MaxOutput]
    BY OutputAssumption DEF Init
  <2> QED BY <2>1, <2>2 DEF Init, TypeOK
<1>2. TypeOK /\ [Next]_vars => TypeOK'
  <2> SUFFICES ASSUME TypeOK, [Next]_vars PROVE TypeOK'
    OBVIOUS
  <2> USE DEF TypeOK
  <2>1. CASE NoProcess \/ LeaderWaited
    BY <2>1, QuietOs DEF NoProcess, LeaderWaited
  <2>2. CASE SpawnSucceeds
    <3>1. OsTypeOK'
      BY <2>2 DEF SpawnSucceeds, Spawn, OsTypeOK, Procs
    <3> QED BY <2>2, <3>1 DEF SpawnSucceeds
  <2>3. CASE WaitTimesOut
    <3>1. OsTypeOK'
      BY <2>3, DieType DEF WaitTimesOut, KillGroup, OsTypeOK, Statuses
    <3> QED BY <2>3, <3>1 DEF WaitTimesOut
  <2>4. CASE Return
    <3>1. result' \in Statuses \cup {NoCode, 124, 127}
      BY <2>4 DEF Return, ReportedCode, OsTypeOK
    <3> QED BY <2>4, <3>1, QuietOs DEF Return
  <2>5. ASSUME NEW s \in Streams, NEW n \in 1..MaxWrite, ReadChunk(s, n) PROVE TypeOK'
    <3>1. n \in 1..pipe[s] /\ OsTypeOK'
      BY <2>5, DrainType DEF ReadChunk
    <3>2. Keep(s, n) \in 0..MaxOutput
      BY <3>1, OutputAssumption DEF Keep, Least, OsTypeOK
    <3> QED BY <2>5, <3>1, <3>2 DEF ReadChunk
  <2>6. ASSUME NEW s \in Streams, ReadEof(s) PROVE TypeOK'
    BY <2>6, QuietOs DEF ReadEof
  <2>7. CASE DeadlinePasses
    BY <2>7, QuietOs DEF DeadlinePasses
  <2>8. CASE Command
    BY <2>8, CommandType DEF Command, runVars
  <2>9. CASE ChildWatcher
    BY <2>9 DEF ChildWatcher, Reap, OsTypeOK, runVars
  <2>10. CASE UNCHANGED vars
    BY <2>10, QuietOs DEF vars, runVars
  <2> QED BY <2>1, <2>2, <2>3, <2>4, <2>5, <2>6, <2>7, <2>8, <2>9, <2>10
          DEF Next, Coroutine, Reader, Terminated
<1> QED BY <1>1, <1>2, PTL DEF Spec

-----------------------------------------------------------------------------
(***************************************************************************)
(* The inductive invariant.  What the answer says at the end has to be     *)
(* true of each stream all along: Accounted balances the books of a        *)
(* stream, Untouched and Drained say what a reader that never started, or  *)
(* has ended, knows about it.  The rest is what the coroutine knows of the *)
(* process at each await.                                                  *)
(***************************************************************************)
BeforeSpawn ==
    pc = "spawn" => /\ alive = {} /\ status = NoCode /\ returncode = NoCode
                    /\ ~timedOut
                    /\ \A s \in Streams : reader[s] = "none"
Started == pc \in {"wait", "killwait", "gather"} => \A s \in Streams : reader[s] # "none"
Accounted(s) ==
    pipe[s] <= written[s] /\ captured[s] = Least(written[s] - pipe[s], MaxOutput)
Untouched(s) == reader[s] = "none" => written[s] = 0 /\ pipe[s] = 0 /\ holds[s] = {}
Drained(s) == reader[s] = "ended" => AtEof(s)
StreamFacts == \A s \in Streams : Accounted(s) /\ Untouched(s) /\ Drained(s)
Reaped == pc = "gather" \/ (pc = "done" /\ Ran) => returncode # NoCode
KilledGroup == timedOut => group = {}
Answered == pc = "done" /\ Ran => result = ReportedCode /\ Gathered

ExecInv ==
    /\ OsInv
    /\ BeforeSpawn /\ Started /\ StreamFacts
    /\ Reaped /\ KilledGroup /\ Answered

(* The books of a stream balance, and its reader stays right about it,     *)
(* when a step leaves the counts and the reader alone and no new process   *)
(* opens a stream that was closed.                                         *)
LEMMA FactsKept ==
  ASSUME TypeOK, StreamFacts, UNCHANGED <<pipe, written, captured, reader>>,
         \A s \in Streams : holds[s] = {} => holds'[s] = {}
  PROVE  StreamFacts'
BY DEF StreamFacts, Accounted, Untouched, Drained, AtEof

(* A chunk of n units leaves the pipe, and as much of it as the limit      *)
(* allows is kept (core.py 115-118).                                       *)
LEMMA ChunkFacts ==
  ASSUME TypeOK, StreamFacts, NEW s \in Streams, NEW n \in 1..MaxWrite, ReadChunk(s, n)
  PROVE  StreamFacts'
<1>1. /\ n \in 1..pipe[s] /\ reader[s] = "reading"
      /\ UNCHANGED <<written, holds, reader>>
      /\ pipe' = [pipe EXCEPT ![s] = @ - n]
      /\ captured' = [captured EXCEPT ![s] = Keep(s, n)]
  BY DEF ReadChunk, TakeFromPipe
<1>2. Accounted(s)'
  <2>1. pipe'[s] = pipe[s] - n /\ captured'[s] = Least(captured[s] + n, MaxOutput)
    BY <1>1 DEF TypeOK, OsTypeOK, Keep
  <2>2. pipe[s] \in Nat /\ written[s] \in Nat /\ n \in Nat /\ n <= pipe[s]
    BY <1>1 DEF TypeOK, OsTypeOK
  <2>3. pipe[s] <= written[s] /\ captured[s] = Least(written[s] - pipe[s], MaxOutput)
    BY DEF StreamFacts, Accounted
  <2> QED BY <1>1, <2>1, <2>2, <2>3, OutputAssumption DEF Accounted, Least
<1>3. \A t \in Streams : t # s => pipe'[t] = pipe[t] /\ captured'[t] = captured[t]
  BY <1>1 DEF TypeOK, OsTypeOK
<1>4. Untouched(s)' /\ Drained(s)'
  BY <1>1 DEF Untouched, Drained
<1>5. ASSUME NEW t \in Streams, t # s PROVE (Accounted(t) /\ Untouched(t) /\ Drained(t))'
  BY <1>1, <1>3, <1>5 DEF StreamFacts, Accounted, Untouched, Drained, AtEof
<1> QED BY <1>2, <1>4, <1>5 DEF StreamFacts

(* The command writes into the pipe, and only to a stream that is held.    *)
LEMMA CommandFacts ==
  ASSUME TypeOK, StreamFacts, CommandStep, UNCHANGED <<captured, reader>>
  PROVE  StreamFacts'
<1> SUFFICES ASSUME NEW s \in Streams PROVE (Accounted(s) /\ Untouched(s) /\ Drained(s))'
  BY DEF StreamFacts
<1>1. /\ holds[s] = {} => holds'[s] = {} /\ pipe'[s] = pipe[s] /\ written'[s] = written[s]
      /\ written'[s] - pipe'[s] = written[s] - pipe[s]
  BY CommandStreams DEF TypeOK
<1>2. /\ pipe[s] \in Nat /\ written[s] \in Nat
      /\ pipe'[s] \in Nat /\ written'[s] \in Nat
  BY CommandType DEF TypeOK, OsTypeOK
<1>3. Accounted(s)'
  <2>1. pipe'[s] <= written'[s]
    BY <1>1, <1>2 DEF StreamFacts, Accounted
  <2> QED BY <1>1, <2>1 DEF StreamFacts, Accounted
<1>4. Untouched(s)' /\ Drained(s)'
  BY <1>1 DEF StreamFacts, Untouched, Drained, AtEof
<1> QED BY <1>3, <1>4

LEMMA ExecStep == TypeOK /\ ExecInv /\ [Next]_vars => ExecInv'
<1> SUFFICES ASSUME TypeOK, ExecInv, [Next]_vars PROVE ExecInv'
  OBVIOUS
<1>o. OsTypeOK /\ OsInv
  BY DEF TypeOK, ExecInv
<1> USE DEF BeforeSpawn, Started, Reaped, KilledGroup, Answered, Ran, Gathered, ReportedCode
<1>1. CASE NoProcess
  <2>1. /\ pc = "spawn" /\ pc' = "done"
        /\ UNCHANGED <<alive, group, holds, pipe, written, status, returncode,
                       reader, captured, timedOut>>
    BY <1>1 DEF NoProcess, osVars
  <2>2. StreamFacts'
    BY <2>1, FactsKept DEF ExecInv
  <2> QED BY <2>1, <2>2 DEF ExecInv, OsInv
<1>2. CASE SpawnSucceeds
  <2>1. /\ pc = "spawn" /\ pc' = "wait"
        /\ UNCHANGED <<pipe, written, status, returncode, captured, timedOut>>
        /\ group' = {Leader} /\ reader' = [s \in Streams |-> "reading"]
    BY <1>2 DEF SpawnSucceeds, Spawn
  <2>2. StreamFacts'
    BY <2>1 DEF ExecInv, StreamFacts, Accounted, Untouched, Drained
  <2> QED BY <2>1, <2>2 DEF ExecInv, OsInv
<1>3. CASE LeaderWaited
  <2>1. /\ pc \in {"wait", "killwait"} /\ pc' = "gather" /\ returncode # NoCode
        /\ UNCHANGED <<alive, group, holds, pipe, written, status, returncode,
                       reader, captured, timedOut>>
    BY <1>3 DEF LeaderWaited, WaitReturns, osVars
  <2>2. StreamFacts'
    BY <2>1, FactsKept DEF ExecInv
  <2> QED BY <2>1, <2>2 DEF ExecInv, OsInv
<1>4. CASE WaitTimesOut
  <2>1. /\ pc = "wait" /\ pc' = "killwait"
        /\ UNCHANGED <<reader, captured>>
    BY <1>4 DEF WaitTimesOut
  <2>2. OsInv' /\ group' = {} /\ returncode' = returncode
    BY <1>4, <1>o, KillEffect DEF WaitTimesOut
  <2>3. StreamFacts'
    <3>1. /\ UNCHANGED <<pipe, written>>
          /\ \A s \in Streams : holds[s] = {} => holds'[s] = {}
      BY <1>4 DEF WaitTimesOut, KillGroup, Die
    <3> QED BY <2>1, <3>1, FactsKept DEF ExecInv
  <2> QED BY <2>1, <2>2, <2>3 DEF ExecInv
<1>5. CASE Return
  <2>1. /\ pc = "gather" /\ pc' = "done" /\ Gathered /\ result' = ReportedCode
        /\ UNCHANGED <<alive, group, holds, pipe, written, status, returncode,
                       reader, captured, timedOut>>
    BY <1>5 DEF Return, osVars
  <2>2. StreamFacts'
    BY <2>1, FactsKept DEF ExecInv
  <2> QED BY <2>1, <2>2 DEF ExecInv, OsInv
<1>6. ASSUME NEW s \in Streams, NEW n \in 1..MaxWrite, ReadChunk(s, n) PROVE ExecInv'
  <2>1. UNCHANGED <<pc, alive, group, status, returncode, reader, timedOut, result>>
    BY <1>6 DEF ReadChunk, TakeFromPipe
  <2>2. StreamFacts'
    BY <1>6, ChunkFacts DEF ExecInv
  <2> QED BY <2>1, <2>2 DEF ExecInv, OsInv
<1>7. ASSUME NEW s \in Streams, ReadEof(s) PROVE ExecInv'
  <2>1. /\ UNCHANGED <<pc, alive, group, holds, pipe, written, status, returncode,
                       captured, timedOut, result>>
        /\ reader[s] = "reading" /\ AtEof(s)
        /\ reader' = [reader EXCEPT ![s] = "ended"]
    BY <1>7 DEF ReadEof, osVars
  <2>2. \A t \in Streams : reader'[t] = IF t = s THEN "ended" ELSE reader[t]
    BY <2>1 DEF TypeOK
  <2>3. StreamFacts'
    BY <2>1, <2>2 DEF ExecInv, StreamFacts, Accounted, Untouched, Drained, AtEof
  <2>4. pc # "done"
    BY <2>1 DEF ExecInv
  <2>5. pc # "spawn" /\ OsInv'
    BY <2>1 DEF ExecInv, OsInv
  <2> QED BY <2>1, <2>2, <2>3, <2>4, <2>5 DEF ExecInv
<1>8. CASE DeadlinePasses \/ UNCHANGED vars
  <2>1. UNCHANGED <<pc, alive, group, holds, pipe, written, status, returncode,
                    reader, captured, timedOut, result>>
    BY <1>8 DEF DeadlinePasses, vars, osVars, runVars
  <2>2. StreamFacts'
    BY <2>1, FactsKept DEF ExecInv
  <2> QED BY <2>1, <2>2 DEF ExecInv, OsInv
<1>9. CASE Command
  <2>1. /\ OsInv' /\ (group = {} => group' = {})
        /\ returncode' = returncode /\ alive # {}
    BY <1>9, <1>o, CommandEffect DEF Command
  <2>2. UNCHANGED <<pc, reader, captured, timedOut, result>>
    BY <1>9 DEF Command, runVars
  <2>3. StreamFacts'
    BY <1>9, <2>2, CommandFacts DEF Command, ExecInv
  <2> QED BY <2>1, <2>2, <2>3 DEF ExecInv
<1>10. CASE ChildWatcher
  <2>1. /\ OsInv' /\ returncode' # NoCode /\ returncode = NoCode /\ status # NoCode
        /\ UNCHANGED <<alive, group, status, holds, pipe, written>>
    BY <1>10, <1>o, ReapEffect DEF ChildWatcher, Reap
  <2>2. UNCHANGED <<pc, reader, captured, timedOut, result>>
    BY <1>10 DEF ChildWatcher, runVars
  <2>3. StreamFacts'
    BY <2>1, <2>2, FactsKept DEF ExecInv
  <2> QED BY <2>1, <2>2, <2>3 DEF ExecInv
<1> QED BY <1>1, <1>2, <1>3, <1>4, <1>5, <1>6, <1>7, <1>8, <1>9, <1>10
        DEF Next, Coroutine, Reader, Terminated

LEMMA ExecInvariant == Spec => []ExecInv
<1>1. Init => ExecInv
  <2> SUFFICES ASSUME Init PROVE ExecInv
    OBVIOUS
  <2>1. StreamFacts
    BY OutputAssumption DEF Init, OsInit, StreamFacts, Accounted, Untouched, Drained, Least
  <2> QED BY <2>1 DEF Init, OsInit, ExecInv, OsInv, BeforeSpawn, Started, Reaped,
                      KilledGroup, Answered, Ran
<1> QED BY <1>1, ExecTypeCorrect, ExecStep, PTL DEF Spec

(* The answer's exit code is the truth: 124 exactly for a timed-out        *)
(* command, whose whole group is dead, and else the status the leader      *)
(* ended with (core.py 146-161).                                           *)
THEOREM ExecResultTrue == Spec => []ResultTruth
<1>1. TypeOK /\ ExecInv => ResultTruth
  BY DEF TypeOK, ExecInv, OsInv, Reaped, KilledGroup, Answered, ReportedCode, ResultTruth
<1> QED BY <1>1, ExecTypeCorrect, ExecInvariant, PTL

(* Nothing of the output is lost between the pipes and the answer, up to   *)
(* the limit, and nothing can be written any more once it is given         *)
(* (core.py 109-119, 154).                                                 *)
THEOREM ExecOutputComplete == Spec => []OutputComplete
<1>1. TypeOK /\ ExecInv => OutputComplete
  <2> SUFFICES ASSUME TypeOK, ExecInv, pc = "done", NEW s \in Streams
               PROVE  captured[s] = Least(written[s], MaxOutput)
    BY DEF OutputComplete
  <2>1. pipe[s] = 0
    BY DEF TypeOK, ExecInv, Answered, Ran, Gathered, StreamFacts, Untouched, Drained, AtEof
  <2>2. written[s] - pipe[s] = written[s]
    BY <2>1 DEF TypeOK, OsTypeOK
  <2> QED BY <2>2 DEF ExecInv, StreamFacts, Accounted
<1> QED BY <1>1, ExecTypeCorrect, ExecInvariant, PTL

-----------------------------------------------------------------------------
(***************************************************************************)
(* The refinement of RuntimeCommand.  It needs, beyond ExecInv, where the  *)
(* coroutine is when the clock and the timeout are seen: Timed; and that a *)
(* call which never spawned anything leaves nothing to be reaped: Unborn.  *)
(***************************************************************************)
Timed == /\ pc = "spawn" => ~expired
         /\ pc \in {"spawn", "wait"} => ~timedOut
         /\ pc = "killwait" => timedOut
Unborn == NeverRan => alive = {} /\ status = NoCode
Returned == pc = "gather" => returncode # NoCode
Closed == pc = "done" => \A s \in Streams : holds[s] = {}
SeenInv == Timed /\ Unborn /\ Returned /\ Closed

LEMMA ExecCloses == TypeOK /\ ExecInv => Closed
BY DEF TypeOK, ExecInv, Answered, Gathered, StreamFacts, Untouched, Drained, AtEof, Ran, Closed

LEMMA SeenStep ==
    TypeOK /\ ExecInv /\ ExecInv' /\ TypeOK' /\ SeenInv /\ [Next]_vars => SeenInv'
<1> SUFFICES ASSUME TypeOK, ExecInv, ExecInv', TypeOK', SeenInv, [Next]_vars PROVE SeenInv'
  OBVIOUS
<1>0. Closed'
  BY ExecCloses, PTL
<1> SUFFICES (Timed /\ Unborn /\ Returned)'
  BY <1>0 DEF SeenInv
<1> USE DEF SeenInv, Timed, Unborn, Returned, NeverRan
<1>1. CASE NoProcess
  BY <1>1 DEF NoProcess, osVars, ExecInv, BeforeSpawn
<1>2. CASE SpawnSucceeds
  BY <1>2 DEF SpawnSucceeds, ExecInv, BeforeSpawn
<1>3. CASE LeaderWaited
  BY <1>3 DEF LeaderWaited, WaitReturns, osVars
<1>4. CASE WaitTimesOut
  BY <1>4 DEF WaitTimesOut
<1>5. CASE Return
  BY <1>5 DEF Return, osVars
<1>6. ASSUME NEW s \in Streams, NEW n \in 1..MaxWrite, ReadChunk(s, n) PROVE (Timed /\ Unborn /\ Returned)'
  BY <1>6 DEF ReadChunk, TakeFromPipe
<1>7. ASSUME NEW s \in Streams, ReadEof(s) PROVE (Timed /\ Unborn /\ Returned)'
  BY <1>7 DEF ReadEof, osVars
<1>8. CASE DeadlinePasses \/ UNCHANGED vars
  BY <1>8 DEF DeadlinePasses, vars, osVars, runVars
<1>9. CASE Command
  <2>1. returncode' = returncode /\ alive # {}
    BY <1>9, CommandEffect DEF Command, TypeOK, ExecInv
  <2> QED BY <1>9, <2>1 DEF Command, runVars
<1>10. CASE ChildWatcher
  <2>1. returncode' # NoCode /\ UNCHANGED runVars
    BY <1>10, ReapEffect DEF ChildWatcher, TypeOK, ExecInv
  <2> QED BY <2>1 DEF runVars
<1> QED BY <1>1, <1>2, <1>3, <1>4, <1>5, <1>6, <1>7, <1>8, <1>9, <1>10
        DEF Next, Coroutine, Reader, Terminated

LEMMA SeenInvariant == Spec => []SeenInv
<1>1. Init => SeenInv
  BY DEF Init, OsInit, SeenInv, Timed, Unborn, Returned, Closed, NeverRan
<1> QED BY <1>1, ExecTypeCorrect, ExecInvariant, SeenStep, PTL DEF Spec

(* A step that keeps the coroutine where it is shows the caller nothing,   *)
(* unless it lets go of the last stream.                                   *)
LEMMA SeenKept ==
  ASSUME UNCHANGED <<pc, timedOut, result, expired>>,
         pc = "done" => (NeverRan' <=> NeverRan),
         StreamsHeld' => StreamsHeld
  PROVE  UNCHANGED Runtime!vars \/ (Runtime!Releases /\ UNCHANGED expired)
<1>1. UNCHANGED <<CommandSeen, AnswerSeen>>
  BY DEF CommandSeen, AnswerSeen, NeverRan
<1>2. UNCHANGED StreamsHeld \/ (StreamsHeld /\ ~StreamsHeld')
  BY DEF StreamsHeld
<1>3. StreamsHeld /\ ~StreamsHeld' => StreamsHeld' = FALSE
  BY DEF StreamsHeld
<1> QED BY <1>1, <1>2, <1>3 DEF Runtime!vars, Runtime!Releases

(* Every step of execute_command is one the caller may see, or none.       *)
LEMMA SeenNext ==
    TypeOK /\ ExecInv /\ SeenInv /\ SeenInv' /\ [Next]_vars => [Runtime!Next]_(Runtime!vars)
<1> SUFFICES ASSUME TypeOK, ExecInv, SeenInv, SeenInv', [Next]_vars
             PROVE  [Runtime!Next]_(Runtime!vars)
  OBVIOUS
<1>1. CASE NoProcess
  <2>1. pc = "spawn" /\ pc' = "done" /\ returncode' = NoCode /\ ~expired /\ UNCHANGED expired
    BY <1>1 DEF NoProcess, osVars, ExecInv, BeforeSpawn, SeenInv, Timed
  <2>2. CommandSeen = "running" /\ AnswerSeen = "none"
    BY <2>1 DEF CommandSeen, AnswerSeen, NeverRan
  <2>3. CommandSeen' = "none" /\ AnswerSeen' \in {"Rejected", "exited"}
    BY <2>1 DEF CommandSeen, AnswerSeen, NeverRan
  <2>4. StreamsHeld' = FALSE
    BY <2>1 DEF SeenInv, Closed, StreamsHeld
  <2> QED BY <2>1, <2>2, <2>3, <2>4 DEF Runtime!Next, Runtime!NotStarted
<1>2. CASE SpawnSucceeds
  <2>1. pc = "spawn" /\ pc' = "wait" /\ UNCHANGED expired
    BY <1>2 DEF SpawnSucceeds
  <2>2. UNCHANGED <<CommandSeen, AnswerSeen>>
    BY <2>1 DEF CommandSeen, AnswerSeen, NeverRan
  <2>3. StreamsHeld = TRUE /\ StreamsHeld' \in BOOLEAN
    BY <2>1 DEF StreamsHeld
  <2> QED BY <2>1, <2>2, <2>3 DEF Runtime!Next, Runtime!Releases, Runtime!vars
<1>3. CASE LeaderWaited
  <2>1. /\ pc \in {"wait", "killwait"} /\ pc' = "gather"
        /\ UNCHANGED <<expired, timedOut, holds, returncode>>
    BY <1>3 DEF LeaderWaited, osVars
  <2>2. UNCHANGED <<AnswerSeen, StreamsHeld>>
    BY <2>1 DEF AnswerSeen, NeverRan, StreamsHeld
  <2>3. CASE pc = "wait"
    <3>1. CommandSeen = "running" /\ CommandSeen' = "exited"
      BY <2>1, <2>3 DEF CommandSeen, NeverRan, SeenInv, Timed
    <3> QED BY <2>1, <2>2, <3>1 DEF Runtime!Next, Runtime!Ends
  <2>4. CASE pc = "killwait"
    <3>1. UNCHANGED CommandSeen
      BY <2>1, <2>4 DEF CommandSeen, NeverRan
    <3> QED BY <2>1, <2>2, <3>1 DEF Runtime!vars
  <2> QED BY <2>1, <2>3, <2>4
<1>4. CASE WaitTimesOut
  <2>1. pc = "wait" /\ pc' = "killwait" /\ expired /\ UNCHANGED expired /\ timedOut' = TRUE
    BY <1>4 DEF WaitTimesOut
  <2>2. CommandSeen = "running" /\ CommandSeen' = "killed" /\ UNCHANGED AnswerSeen
    BY <2>1 DEF CommandSeen, AnswerSeen, NeverRan
  <2>3. \A s \in Streams : holds[s] = {} => holds'[s] = {}
    BY <1>4 DEF WaitTimesOut, KillGroup, Die
  <2>4. StreamsHeld' \in {StreamsHeld, FALSE}
    BY <2>1, <2>3 DEF StreamsHeld
  <2> QED BY <2>1, <2>2, <2>4 DEF Runtime!Next, Runtime!Ends
<1>5. CASE Return
  <2>1. /\ pc = "gather" /\ pc' = "done" /\ Gathered /\ returncode # NoCode
        /\ UNCHANGED <<expired, timedOut, holds, returncode>>
    BY <1>5 DEF Return, osVars, SeenInv, Returned
  <2>2. CommandSeen \in {"exited", "killed"} /\ UNCHANGED CommandSeen
    BY <2>1 DEF CommandSeen, NeverRan
  <2>3. AnswerSeen = "none" /\ AnswerSeen' = CommandSeen
    BY <2>1 DEF AnswerSeen, CommandSeen, NeverRan
  <2>4. ~StreamsHeld /\ UNCHANGED StreamsHeld
    BY <2>1 DEF StreamsHeld, ExecInv, StreamFacts, Drained, AtEof, Gathered
  <2> QED BY <2>1, <2>2, <2>3, <2>4 DEF Runtime!Next, Runtime!Answers
<1>6. ASSUME NEW s \in Streams, NEW n \in 1..MaxWrite, ReadChunk(s, n)
      PROVE  [Runtime!Next]_(Runtime!vars)
  <2>1. UNCHANGED <<pc, timedOut, result, expired, holds, returncode>>
    BY <1>6 DEF ReadChunk, TakeFromPipe
  <2> QED BY <2>1, SeenKept DEF NeverRan, StreamsHeld, Runtime!Next
<1>7. ASSUME NEW s \in Streams, ReadEof(s) PROVE [Runtime!Next]_(Runtime!vars)
  <2>1. UNCHANGED <<pc, timedOut, result, expired, holds, returncode>>
    BY <1>7 DEF ReadEof, osVars
  <2> QED BY <2>1, SeenKept DEF NeverRan, StreamsHeld, Runtime!Next
<1>8. CASE DeadlinePasses
  <2>1. ~expired /\ expired' = TRUE /\ UNCHANGED <<pc, timedOut, result, holds, returncode>>
    BY <1>8 DEF DeadlinePasses, osVars
  <2>2. UNCHANGED <<CommandSeen, AnswerSeen, StreamsHeld>>
    BY <2>1 DEF CommandSeen, AnswerSeen, NeverRan, StreamsHeld
  <2> QED BY <2>1, <2>2 DEF Runtime!Next, Runtime!LimitPasses
<1>9. CASE Command
  <2>1. returncode' = returncode /\ alive # {} /\ UNCHANGED runVars
    BY <1>9, CommandEffect DEF Command, TypeOK, ExecInv
  <2>2. \A s \in Streams : holds[s] = {} => holds'[s] = {}
    BY <1>9, CommandStreams DEF Command, TypeOK
  <2> QED BY <2>1, <2>2, SeenKept DEF runVars, NeverRan, StreamsHeld, Runtime!Next
<1>10. CASE ChildWatcher
  <2>1. UNCHANGED runVars /\ UNCHANGED holds /\ status # NoCode /\ returncode' # NoCode
    BY <1>10, ReapEffect DEF ChildWatcher, Reap, TypeOK, ExecInv
  <2>2. ~NeverRan /\ ~NeverRan'
    BY <2>1 DEF SeenInv, Unborn, NeverRan
  <2> QED BY <2>1, <2>2, SeenKept DEF runVars, StreamsHeld, Runtime!Next
<1>11. CASE UNCHANGED vars
  <2>1. UNCHANGED <<pc, timedOut, result, expired, holds, returncode>>
    BY <1>11 DEF vars, osVars, runVars
  <2> QED BY <2>1, SeenKept DEF NeverRan, StreamsHeld, Runtime!Next
<1> QED BY <1>1, <1>2, <1>3, <1>4, <1>5, <1>6, <1>7, <1>8, <1>9, <1>10, <1>11
        DEF Next, Coroutine, Reader, Terminated

(* execute_command implements what the API's model of the runtime is built *)
(* from: it kills no command before its limit and answers only when the    *)
(* command is over and its output is released (core.py 147-161).           *)
THEOREM ExecImplementsRuntime == Spec => ImplementsRuntime
<1>1. Init => Runtime!Init
  <2> SUFFICES ASSUME Init PROVE Runtime!Init
    OBVIOUS
  <2>1. pc = "spawn" /\ expired = FALSE
    BY DEF Init
  <2>2. CommandSeen = "running" /\ AnswerSeen = "none" /\ StreamsHeld \in BOOLEAN
    BY <2>1 DEF CommandSeen, AnswerSeen, NeverRan, StreamsHeld
  <2> QED BY <2>1, <2>2 DEF Runtime!Init
<1>2. Spec => [][Runtime!Next]_(Runtime!vars)
  BY SeenNext, ExecTypeCorrect, ExecInvariant, SeenInvariant, PTL DEF Spec
<1> QED BY <1>1, <1>2, PTL DEF Spec, ImplementsRuntime, Runtime!Spec

(* What the caller takes for over is over: the leader is dead, and with a  *)
(* kill its whole group.  With ApiTimeoutMeansKilled: a command the API    *)
(* has given up on has no live leader (core.py 147-152).                   *)
THEOREM ExecOverMeansDead ==
    Spec => [](/\ CommandSeen # "running" => Leader \notin alive
               /\ CommandSeen = "killed" => group = {})
<1>1. TypeOK /\ ExecInv /\ SeenInv =>
          /\ CommandSeen # "running" => Leader \notin alive
          /\ CommandSeen = "killed" => group = {}
  BY DEF CommandSeen, NeverRan, TypeOK, ExecInv, OsInv, KilledGroup, SeenInv, Timed, Unborn, Returned
<1> QED BY <1>1, ExecTypeCorrect, ExecInvariant, SeenInvariant, PTL
=============================================================================
