------------------------------ MODULE CommandExec ------------------------------
(***************************************************************************)
(* execute_command (xolis_runtime/core.py 122-161) behind POST /execute:   *)
(* spawn, let two reader tasks drain the streams, wait for the leader with *)
(* a timeout, kill the group when it runs out, then wait for both readers  *)
(* with no timeout, and answer.  A client that goes away does not cancel   *)
(* the handler, so no step is its own.                                     *)
(***************************************************************************)
EXTENDS ProcessGroup

CONSTANT MaxOutput    \* settings.maximum_output_bytes, in units

ASSUME OutputAssumption ==
    MaxOutput \in Nat \ {0} /\ {124, 127} \cap {NoCode} = {}

VARIABLES pc,         \* where the coroutine is
          reader,     \* per stream: the _read_limited task
          captured,   \* per stream: units kept
          expired,    \* timeout_seconds have passed
          timedOut,   \* timed_out
          waiter,     \* the pending process.wait() registered a waiter
          result      \* exit_code of the answer

runVars == <<pc, reader, captured, expired, timedOut, waiter, result>>
vars == <<osVars, runVars>>

Init ==
    /\ OsInit
    /\ pc = "spawn"
    /\ reader = [s \in Streams |-> "none"]
    /\ captured = [s \in Streams |-> 0]
    /\ expired = FALSE /\ timedOut = FALSE /\ waiter = FALSE
    /\ result = NoCode

(* InvalidCommand (no answer but a 400), or OSError from the spawn. *)
NoProcess ==
    /\ pc = "spawn"
    /\ pc' = "done"
    /\ result' \in {NoCode, 127}
    /\ UNCHANGED <<osVars, reader, captured, expired, timedOut, waiter>>

SpawnSucceeds ==
    /\ pc = "spawn"
    /\ Spawn
    /\ reader' = [s \in Streams |-> "reading"]
    /\ pc' = "wait"
    /\ waiter' = TRUE
    /\ UNCHANGED <<captured, expired, timedOut, result>>

(* process.wait() comes back, in time or after the kill. *)
LeaderWaited ==
    /\ pc \in {"wait", "killwait"}
    /\ WaitReturns(waiter)
    /\ pc' = "gather"
    /\ UNCHANGED <<osVars, reader, captured, expired, timedOut, waiter, result>>

\* Slip: process.wait() is awaited without wait_for.
WaitTimesOutSlip == FALSE

WaitTimesOut ==
    /\ pc = "wait" /\ expired
    /\ timedOut' = TRUE
    /\ KillGroup
    /\ waiter' = (returncode = NoCode)
    /\ pc' = "killwait"
    /\ UNCHANGED <<reader, captured, expired, result>>

\* Slip: only one of the two readers is awaited.
GatheredSlip == \E s \in Streams : reader[s] = "ended"

Gathered == \A s \in Streams : reader[s] = "ended"

\* Slip: the returncode wins over the timeout.
ReportedCodeSlip == returncode

ReportedCode == IF timedOut THEN 124 ELSE returncode

Return ==
    /\ pc = "gather"
    /\ Gathered
    /\ result' = ReportedCode
    /\ pc' = "done"
    /\ UNCHANGED <<osVars, reader, captured, expired, timedOut, waiter>>

Keep(s, n) == Least(captured[s] + n, MaxOutput)

ReadChunk(s, n) ==
    /\ reader[s] = "reading"
    /\ n \in 1..pipe[s]
    /\ TakeFromPipe(s, n)
    /\ captured' = [captured EXCEPT ![s] = Keep(s, n)]
    /\ UNCHANGED <<pc, reader, expired, timedOut, waiter, result>>

ReadEof(s) ==
    /\ reader[s] = "reading"
    /\ AtEof(s)
    /\ reader' = [reader EXCEPT ![s] = "ended"]
    /\ UNCHANGED <<osVars, pc, captured, expired, timedOut, waiter, result>>

DeadlinePasses ==
    /\ pc # "spawn" /\ ~expired
    /\ expired' = TRUE
    /\ UNCHANGED <<osVars, pc, reader, captured, timedOut, waiter, result>>

Command == CommandStep /\ UNCHANGED runVars
ChildWatcher == Reap /\ UNCHANGED runVars
Terminated == pc = "done" /\ alive = {} /\ UNCHANGED vars

Coroutine == NoProcess \/ SpawnSucceeds \/ LeaderWaited \/ WaitTimesOut \/ Return
Reader(s) == ReadEof(s) \/ \E n \in 1..MaxWrite : ReadChunk(s, n)

Next ==
    \/ Coroutine
    \/ \E s \in Streams : Reader(s)
    \/ DeadlinePasses \/ Command \/ ChildWatcher \/ Terminated

Spec == Init /\ [][Next]_vars

(* The event loop, the clock and the kernel make progress; nothing is      *)
(* assumed of the command.                                                 *)
FairSpec ==
    /\ Spec
    /\ WF_vars(Coroutine)
    /\ \A s \in Streams : WF_vars(Reader(s))
    /\ WF_vars(DeadlinePasses)
    /\ WF_vars(ChildWatcher)

-----------------------------------------------------------------------------
(* The coroutine, its readers and the answer keep their types; captured    *)
(* output never exceeds maximum_output_bytes (_read_limited).              *)
TypeOK ==
    /\ OsTypeOK
    /\ pc \in {"spawn", "wait", "killwait", "gather", "done"}
    /\ reader \in [Streams -> {"none", "reading", "ended"}]
    /\ captured \in [Streams -> 0..MaxOutput]
    /\ expired \in BOOLEAN /\ timedOut \in BOOLEAN /\ waiter \in BOOLEAN
    /\ result \in Statuses \cup {NoCode, 124, 127}

Ran == \E s \in Streams : reader[s] # "none"

(* The answer's exit code is 124 exactly for a timed-out command and the   *)
(* leader's own status otherwise; the leader is dead by then, and with a   *)
(* timed-out one its whole process group.                                  *)
ResultTruth ==
    pc = "done" /\ Ran =>
        /\ result = (IF timedOut THEN 124 ELSE status)
        /\ Leader \notin alive
        /\ timedOut => group = {}

(* The answer holds all that was ever written, up to the limit, for a      *)
(* timed-out command too: nothing can be written once both readers ended.  *)
OutputComplete ==
    pc = "done" =>
        \A s \in Streams : captured[s] = Least(written[s], MaxOutput)

(* What the caller in front of the runtime can tell of the command.        *)
NeverRan == pc = "done" /\ returncode = NoCode
CommandSeen ==
    CASE pc \in {"spawn", "wait"} -> "running"
      [] NeverRan -> "none"
      [] OTHER -> IF timedOut THEN "killed" ELSE "exited"
AnswerSeen ==
    CASE pc # "done" -> "none"
      [] NeverRan -> IF result = 127 THEN "exited" ELSE "Rejected"
      [] OTHER -> CommandSeen
StreamsHeld == pc = "spawn" \/ \E s \in Streams : holds[s] # {}

Runtime == INSTANCE RuntimeCommand WITH
    command <- CommandSeen, held <- StreamsHeld, late <- expired, answer <- AnswerSeen

(* execute_command does what the API's side relies on: no command is       *)
(* killed before its limit, and no answer is given before the command is   *)
(* over and its output released (core.py 147-161).                         *)
ImplementsRuntime == Runtime!Spec

(* The call returns once nothing holds the output streams any more, even   *)
(* when the leader itself keeps running with its streams closed.           *)
ReturnsOnceReleased ==
    (pc # "spawn" /\ \A s \in Streams : holds[s] = {}) ~> pc = "done"
=============================================================================
