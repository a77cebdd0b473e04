----------------------------- MODULE CommandStream -----------------------------
(***************************************************************************)
(* stream_command (xolis_runtime/core.py 164-247) and the endpoint that    *)
(* drives it (execute_stream, app.py): an async generator that spawns a    *)
(* command, lets two reader tasks feed one queue, and yields events to the *)
(* HTTP client until both streams ended or the deadline passed.            *)
(*                                                                         *)
(* The generator is a program counter.  Each action is the code between    *)
(* two points where the event loop can run something else: an await or a   *)
(* yield.  The client takes an event and asks for the next (Resume), or    *)
(* goes away: then the generator is closed where it is suspended           *)
(* (GeneratorExit at a yield, CancelledError at an await) and its finally  *)
(* block runs.  Output is counted in units; the deadline is a flag the     *)
(* clock raises once.                                                      *)
(***************************************************************************)
EXTENDS ProcessGroup, Sequences, FiniteSets

CONSTANT MaxOutput    \* settings.maximum_output_bytes, in units

ASSUME OutputAssumption ==
    /\ MaxOutput \in Nat \ {0}
    /\ IsFiniteSet(Streams)
    /\ NoCode # 124
    /\ {"start", "timeout", "exit", "error"} \cap Streams = {}

VARIABLES pc,         \* where the generator is
          after,      \* where a resumed yield continues
          queue,      \* asyncio.Queue: chunks, and size 0 for None
          reader,     \* per stream: the reader task
          emitted,    \* per stream: units yielded
          completed,  \* completed_readers
          expired,    \* the clock has passed deadline
          timedOut,   \* timed_out
          waiter,     \* the pending process.wait() registered a waiter
          events,     \* the events yielded so far, by name
          exitCode,   \* exit_code of the exit event
          closed      \* the client went away before the end

ctlVars == <<pc, after, events>>
dataVars == <<queue, reader, emitted, completed>>
endVars == <<timedOut, waiter, exitCode>>
envVars == <<expired, closed>>
genVars == <<ctlVars, dataVars, endVars, envVars>>
vars == <<osVars, genVars>>

ReaderStates == {"none", "reading", "ended", "cancelled"}
Pcs == {"spawn", "yield", "check", "get", "timeout", "reap", "killwait",
        "exit", "finally", "finwait", "cancel", "done"}
Item == [stream : Streams, size : Nat]
EventNames == Streams \cup {"start", "timeout", "exit", "error"}

Init ==
    /\ OsInit
    /\ pc = "spawn"
    /\ after = "check"
    /\ queue = << >>
    /\ reader = [s \in Streams |-> "none"]
    /\ emitted = [s \in Streams |-> 0]
    /\ completed = 0
    /\ expired = FALSE
    /\ timedOut = FALSE
    /\ waiter = FALSE
    /\ events = << >>
    /\ exitCode = NoCode
    /\ closed = FALSE

(* Control moves without, and with, an event for the client. *)
Goto(label) == pc' = label /\ UNCHANGED <<after, events>>

Jump(from, to) ==
    pc = from /\ Goto(to) /\ UNCHANGED <<osVars, dataVars, endVars, envVars>>

Yield(name, next) ==
    events' = Append(events, name) /\ pc' = "yield" /\ after' = next

-----------------------------------------------------------------------------
(* The generator. *)

(* parse_command refuses the request: InvalidCommand, no process. *)
RejectCommand == Jump("spawn", "done")

(* OSError from the spawn: one error event and the generator returns. *)
SpawnFails ==
    /\ pc = "spawn"
    /\ events' = Append(events, "error") /\ pc' = "done"
    /\ UNCHANGED <<osVars, after, dataVars, endVars, envVars>>

SpawnSucceeds ==
    /\ pc = "spawn"
    /\ Spawn
    /\ reader' = [s \in Streams |-> "reading"]
    /\ Yield("start", "check")
    /\ UNCHANGED <<queue, emitted, completed, endVars, envVars>>

(* The head of the while loop, up to the next await: leave the loop when   *)
(* every reader is done, time out when no time is left.  Leaving the loop  *)
(* late makes the timeout of the following wait_for zero, which raises     *)
(* TimeoutError without looking at the process.                            *)
Check ==
    Jump("check", CASE expired -> "timeout"
                    [] ~expired /\ completed < Cardinality(Streams) -> "get"
                    [] OTHER -> "reap")

\* Slip: one end-of-stream marker is taken for the end of both streams.
CountEofSlip == Cardinality(Streams)

CountEof == completed + 1

(* queue.get() returns None. *)
GetEof ==
    /\ pc = "get" /\ queue # << >> /\ Head(queue).size = 0
    /\ queue' = Tail(queue)
    /\ completed' = CountEof
    /\ Goto("check")
    /\ UNCHANGED <<osVars, reader, emitted, endVars, envVars>>

\* Slip: the chunk is not cut to what the limit still allows.
CutSlip(size, allowed) == size

Cut(size, allowed) == Least(size, allowed)

(* queue.get() returns a chunk: yield what the per-stream limit allows. *)
GetChunk ==
    LET name == Head(queue).stream
        allowed == MaxOutput - emitted[name]
    IN  /\ pc = "get" /\ queue # << >> /\ Head(queue).size > 0
        /\ queue' = Tail(queue)
        /\ \/ allowed <= 0 /\ Goto("check") /\ UNCHANGED emitted
           \/ /\ allowed > 0
              /\ emitted' = [emitted EXCEPT ![name] = @ + Cut(Head(queue).size, allowed)]
              /\ Yield(name, "check")
        /\ UNCHANGED <<osVars, reader, completed, endVars, envVars>>

\* Slip: queue.get() is awaited without a timeout.
WaitForTimesOutSlip == expired /\ Jump("reap", "timeout")

(* wait_for(queue.get()) or wait_for(process.wait()) runs out of time. *)
WaitForTimesOut == expired /\ (Jump("get", "timeout") \/ Jump("reap", "timeout"))

(* timed_out = True, kill the group, start process.wait(). *)
KillOnTimeout ==
    /\ pc = "timeout"
    /\ timedOut' = TRUE
    /\ KillGroup
    /\ waiter' = (returncode = NoCode)
    /\ Goto("killwait")
    /\ UNCHANGED <<dataVars, exitCode, envVars>>

\* Slip: the timeout event is forgotten.
YieldTimeoutSlip == WaitReturns(waiter) /\ Jump("killwait", "exit")

YieldTimeout ==
    /\ pc = "killwait"
    /\ WaitReturns(waiter)
    /\ Yield("timeout", "exit")
    /\ UNCHANGED <<osVars, dataVars, endVars, envVars>>

WaitLeader == WaitReturns(TRUE) /\ Jump("reap", "exit")

\* Slip: the returncode wins over the timeout.
ReportedCodeSlip == returncode

ReportedCode == IF timedOut THEN 124 ELSE returncode

YieldExit ==
    /\ pc = "exit"
    /\ exitCode' = ReportedCode
    /\ Yield("exit", "finally")
    /\ UNCHANGED <<osVars, dataVars, timedOut, waiter, envVars>>

\* Slip: a generator that is closed early leaves the command running.
FinallySlip == Jump("finally", "cancel")

(* finally: the group is killed only while the leader has no returncode. *)
Finally ==
    \/ returncode # NoCode /\ Jump("finally", "cancel")
    \/ /\ pc = "finally" /\ returncode = NoCode
       /\ KillGroup
       /\ waiter' = TRUE
       /\ Goto("finwait")
       /\ UNCHANGED <<dataVars, timedOut, exitCode, envVars>>

FinallyWaited == WaitReturns(waiter) /\ Jump("finwait", "cancel")

CancelReaders ==
    /\ pc = "cancel"
    /\ reader' = [s \in Streams |-> IF reader[s] = "reading" THEN "cancelled"
                                                            ELSE reader[s]]
    /\ Goto("done")
    /\ UNCHANGED <<osVars, queue, emitted, completed, endVars, envVars>>

-----------------------------------------------------------------------------
(* Other callbacks of the event loop run only while the generator is       *)
(* suspended at a yield or an await, or has ended.                         *)
LoopFree == pc \in {"yield", "get", "reap", "killwait", "finwait", "done"}

(* The two reader tasks (read_stream). *)
ReadChunk(s, n) ==
    /\ LoopFree /\ reader[s] = "reading"
    /\ n \in 1..pipe[s]
    /\ TakeFromPipe(s, n)
    /\ queue' = Append(queue, [stream |-> s, size |-> n])
    /\ UNCHANGED <<ctlVars, reader, emitted, completed, endVars, envVars>>

ReadEof(s) ==
    /\ LoopFree /\ reader[s] = "reading"
    /\ AtEof(s)
    /\ reader' = [reader EXCEPT ![s] = "ended"]
    /\ queue' = Append(queue, [stream |-> s, size |-> 0])
    /\ UNCHANGED <<osVars, ctlVars, emitted, completed, endVars, envVars>>

-----------------------------------------------------------------------------
(* The client, by way of encode_events and StreamingResponse. *)

Resume == Jump("yield", after)

Disconnect ==
    /\ pc \in {"yield", "get", "reap", "killwait"}
    /\ Goto("finally")
    /\ closed' = TRUE
    /\ UNCHANGED <<osVars, dataVars, endVars, expired>>

(* The server cancels a disconnected request again at each await, so the   *)
(* wait in the finally block can be cut short; the rest of the block is    *)
(* then skipped.                                                           *)
CancelledAgain == closed /\ Jump("finwait", "done")

(* The clock, the command and asyncio's child watcher. *)
DeadlinePasses ==
    /\ pc # "spawn" /\ ~expired
    /\ expired' = TRUE
    /\ UNCHANGED <<osVars, ctlVars, dataVars, endVars, closed>>

Command == CommandStep /\ UNCHANGED genVars
ChildWatcher == LoopFree /\ Reap /\ UNCHANGED genVars

Terminated == pc = "done" /\ alive = {} /\ UNCHANGED vars

Generator ==
    \/ RejectCommand \/ SpawnFails \/ SpawnSucceeds
    \/ Check \/ GetEof \/ GetChunk \/ WaitForTimesOut
    \/ KillOnTimeout \/ YieldTimeout \/ WaitLeader \/ YieldExit
    \/ Finally \/ FinallyWaited \/ CancelReaders

Reader(s) == ReadEof(s) \/ \E n \in 1..MaxWrite : ReadChunk(s, n)

Next ==
    \/ Generator
    \/ \E s \in Streams : Reader(s)
    \/ Resume \/ Disconnect \/ CancelledAgain
    \/ DeadlinePasses \/ Command \/ ChildWatcher
    \/ Terminated

Spec == Init /\ [][Next]_vars

(* The event loop runs what is ready, the clock advances, the kernel       *)
(* reports the leader's death, and the client always asks for the next     *)
(* event (or disconnects).  Nothing is assumed of the command.             *)
FairSpec ==
    /\ Spec
    /\ WF_vars(Generator)
    /\ \A s \in Streams : WF_vars(Reader(s))
    /\ WF_vars(DeadlinePasses)
    /\ WF_vars(ChildWatcher)
    /\ WF_vars(Resume)

-----------------------------------------------------------------------------
(* The generator's state and events keep their types; the units yielded of *)
(* a stream never exceed maximum_output_bytes (core.py 214-218).           *)
TypeOK ==
    /\ OsTypeOK
    /\ pc \in Pcs
    /\ after \in {"check", "exit", "finally"}
    /\ queue \in Seq(Item)
    /\ reader \in [Streams -> ReaderStates]
    /\ emitted \in [Streams -> 0..MaxOutput]
    /\ completed \in Nat
    /\ expired \in BOOLEAN /\ timedOut \in BOOLEAN
    /\ waiter \in BOOLEAN /\ closed \in BOOLEAN
    /\ events \in Seq(EventNames)
    /\ exitCode \in Statuses \cup {NoCode, 124}

Emitted(name) == \E i \in 1..Len(events) : events[i] = name

(* The event protocol of runtime README 34-36: start comes first and once, *)
(* exit last and once, a timed-out command emits timeout immediately       *)
(* before exit and no other command emits it.                              *)
EventOrder ==
    /\ \A i \in 1..Len(events) :
          /\ i = 1 <=> events[i] \in {"start", "error"}
          /\ events[i] \in {"error", "exit"} => i = Len(events)
          /\ events[i] = "timeout" => timedOut /\ i >= Len(events) - 1
          /\ events[i] = "exit" /\ timedOut => events[i - 1] = "timeout"

(* The exit event tells the truth: 124 exactly when the command was timed  *)
(* out, and otherwise the status the leader really ended with, whatever    *)
(* the order of its death, the end of its streams and the deadline.        *)
ExitCodeTruth ==
    exitCode # NoCode =>
        /\ exitCode = IF timedOut THEN 124 ELSE status
        /\ Leader \notin alive

(* A command that was not timed out has all its output delivered, up to    *)
(* the limit, before its exit event: nothing is lost in pipes or queue.    *)
NothingLost ==
    exitCode # NoCode /\ ~timedOut =>
        \A s \in Streams : emitted[s] = Least(written[s], MaxOutput)

(* Once timeout is reported the whole process group is dead and the leader *)
(* reaped (README 5-6).                                                    *)
TimeoutKillsGroup == Emitted("timeout") => group = {} /\ returncode # NoCode

(* However the generator ends, the leader is dead; unless the client left, *)
(* it has also been reaped and both readers have stopped.                  *)
CleanEnd ==
    pc = "done" =>
        /\ Leader \notin alive
        /\ ~closed => /\ returncode = status
                      /\ \A s \in Streams : reader[s] # "reading"

(* README 5: the duration of a command is limited.  Provided the client    *)
(* takes its events or leaves (the deadline is not looked at while the     *)
(* generator is suspended at a yield), the leader is stopped and the       *)
(* stream comes to its end, unless a process that left the group keeps an  *)
(* output open.                                                            *)
StreamEnds ==
    <>(Leader \notin alive /\ (pc = "done" \/ \E s \in Streams : holds[s] \ group # {}))

(* README 35-36 and the docstring at core.py 167: when the client leaves,  *)
(* the command's process group is terminated.                              *)
DisconnectKillsGroup == pc = "done" /\ closed => group = {}
=============================================================================
