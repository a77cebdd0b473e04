----------------------------- MODULE ProcessGroup -----------------------------
(***************************************************************************)
(* The world around one command of the runtime service: the process the    *)
(* runtime spawns with start_new_session=True (leader of a new session and *)
(* process group), what that process starts in turn, the output streams    *)
(* they share, and asyncio's view of the leader.  Used by the three ways   *)
(* to run a command (CommandExec, CommandStream, InteractiveSession).      *)
(*                                                                         *)
(* Only KillGroup is code of the repository (_kill_process_group in        *)
(* xolis_runtime/core.py and the killpg calls of interactive.py).  The     *)
(* rest is the operating system and asyncio, external, as the code uses    *)
(* them:                                                                   *)
(*  - a forked process inherits its parent's process group and streams;    *)
(*    setsid takes it, but never the leader, out of the group;             *)
(*  - a stream reaches end of file when no live process holds it open;     *)
(*  - Process.returncode is set by an event-loop callback some time after  *)
(*    the leader died, whoever still holds its streams;                    *)
(*  - Process.wait() answers at once when returncode is set already;       *)
(*    otherwise the call registers a waiter, which some CPython releases   *)
(*    wake when the leader is reaped and others only when, in addition,    *)
(*    every stream has ended.  waitNeedsEof says which release this is.    *)
(***************************************************************************)
EXTENDS Integers

CONSTANTS Leader,     \* the process the runtime spawned
          Helpers,    \* processes the command may start
          Streams,    \* its output streams
          Codes,      \* exit statuses a process may choose
          NoCode,     \* Python's None: no exit status yet
          MaxWrite,   \* bound: units of output written to each stream
          CanEscape   \* may a helper leave the group with setsid?

Killed == -9          \* asyncio's returncode for a process ended by SIGKILL
Procs == {Leader} \cup Helpers
Statuses == Codes \cup {Killed}

ASSUME ProcessAssumption ==
    /\ Leader \notin Helpers
    /\ Codes \subseteq Int
    /\ NoCode \notin Statuses
    /\ MaxWrite \in Nat
    /\ CanEscape \in BOOLEAN

VARIABLES alive,        \* live processes of the command
          group,        \* the ones in the leader's process group
          holds,        \* per stream: the processes that hold it open
          pipe,         \* per stream: units written and not yet read
          written,      \* per stream: units ever written
          status,       \* how the leader ended (NoCode: it has not)
          returncode,   \* asyncio's Process.returncode
          waitNeedsEof  \* which CPython release, fixed in a behaviour

osVars == <<alive, group, holds, pipe, written, status, returncode, waitNeedsEof>>

OsTypeOK ==
    /\ alive \subseteq Procs
    /\ group \subseteq alive
    /\ holds \in [Streams -> SUBSET alive]
    /\ pipe \in [Streams -> Nat]
    /\ written \in [Streams -> Nat]
    /\ status \in Statuses \cup {NoCode}
    /\ returncode \in Statuses \cup {NoCode}
    /\ waitNeedsEof \in BOOLEAN

OsInit ==
    /\ alive = {}
    /\ group = {}
    /\ holds = [s \in Streams |-> {}]
    /\ pipe = [s \in Streams |-> 0]
    /\ written = [s \in Streams |-> 0]
    /\ status = NoCode
    /\ returncode = NoCode
    /\ waitNeedsEof \in BOOLEAN

(* create_subprocess_exec succeeds. *)
Spawn ==
    /\ alive' = {Leader}
    /\ group' = {Leader}
    /\ holds' = [s \in Streams |-> {Leader}]
    /\ UNCHANGED <<pipe, written, status, returncode, waitNeedsEof>>

(* The processes P die: what they held is released. *)
Die(P, code) ==
    /\ alive' = alive \ P
    /\ group' = group \ P
    /\ holds' = [s \in Streams |-> holds[s] \ P]
    /\ status' = IF Leader \in P THEN code ELSE status
    /\ UNCHANGED <<pipe, written, returncode, waitNeedsEof>>

Fork(p, q) ==
    /\ p \in alive /\ q \in Helpers \ alive
    /\ alive' = alive \cup {q}
    /\ group' = IF p \in group THEN group \cup {q} ELSE group
    /\ holds' = [s \in Streams |-> IF p \in holds[s] THEN holds[s] \cup {q}
                                                     ELSE holds[s]]
    /\ UNCHANGED <<pipe, written, status, returncode, waitNeedsEof>>

Setsid(q) ==
    /\ CanEscape
    /\ q \in group \ {Leader}
    /\ group' = group \ {q}
    /\ UNCHANGED <<alive, holds, pipe, written, status, returncode, waitNeedsEof>>

Release(p, s) ==
    /\ p \in holds[s]
    /\ holds' = [holds EXCEPT ![s] = @ \ {p}]
    /\ UNCHANGED <<alive, group, pipe, written, status, returncode, waitNeedsEof>>

Write(p, s) ==
    /\ p \in holds[s]
    /\ written[s] < MaxWrite
    /\ written' = [written EXCEPT ![s] = @ + 1]
    /\ pipe' = [pipe EXCEPT ![s] = @ + 1]
    /\ UNCHANGED <<alive, group, holds, status, returncode, waitNeedsEof>>

Exit(p, c) ==
    /\ p \in alive
    /\ Die({p}, c)

(* The child watcher's callback. *)
Reap ==
    /\ status # NoCode /\ returncode = NoCode
    /\ returncode' = status
    /\ UNCHANGED <<alive, group, holds, pipe, written, status, waitNeedsEof>>

CommandStep ==
    \/ \E p \in Procs, q \in Helpers : Fork(p, q)
    \/ \E q \in Helpers : Setsid(q)
    \/ \E p \in Procs, s \in Streams : Release(p, s) \/ Write(p, s)
    \/ \E p \in Procs, c \in Codes : Exit(p, c)

-----------------------------------------------------------------------------
(* What the runtime does to, and sees of, the command. *)

\* Slip: os.kill(pid) instead of os.killpg(pid).
KillGroupSlip == Die(alive \cap {Leader}, Killed)

(* os.killpg(process.pid, SIGKILL); an empty group is ProcessLookupError,  *)
(* which the code ignores.                                                 *)
KillGroup == Die(group, Killed)

TakeFromPipe(s, n) ==
    /\ pipe' = [pipe EXCEPT ![s] = @ - n]
    /\ UNCHANGED <<alive, group, holds, written, status, returncode, waitNeedsEof>>

Least(a, b) == IF a <= b THEN a ELSE b

AtEof(s) == pipe[s] = 0 /\ holds[s] = {}

(* process.wait() comes back; waiter tells whether the call had to register *)
(* because returncode was not yet set when it was made.                    *)
WaitReturns(waiter) ==
    /\ returncode # NoCode
    /\ waiter /\ waitNeedsEof => \A s \in Streams : holds[s] = {}

-----------------------------------------------------------------------------
(* What every way of running a command may rely on: a live leader is in    *)
(* its own group and has no status; asyncio reports no other status than   *)
(* the one the leader ended with.                                          *)
OsInv ==
    /\ Leader \in alive => Leader \in group /\ status = NoCode
    /\ returncode # NoCode => returncode = status
=============================================================================
