-------------------------- MODULE ProcessGroupProofs --------------------------
(* What the steps of the operating system and the kill do to the facts the *)
(* three command runners rely on.                                          *)
EXTENDS ProcessGroup, TLAPS

(* A dead process releases its streams; the types are kept. *)
LEMMA DieType ==
  ASSUME NEW P \in SUBSET Procs, NEW c \in Statuses, OsTypeOK, Die(P, c)
  PROVE  OsTypeOK'
BY ProcessAssumption DEF OsTypeOK, Die, Statuses

(* Every step of the command keeps the types. *)
LEMMA CommandType == OsTypeOK /\ CommandStep => OsTypeOK'
<1> SUFFICES ASSUME OsTypeOK, CommandStep PROVE OsTypeOK'
  OBVIOUS
<1>1. ASSUME NEW p \in Procs, NEW q \in Helpers, Fork(p, q) PROVE OsTypeOK'
  BY <1>1 DEF OsTypeOK, Fork, Procs
<1>2. ASSUME NEW q \in Helpers, Setsid(q) PROVE OsTypeOK'
  BY <1>2 DEF OsTypeOK, Setsid
<1>3. ASSUME NEW p \in Procs, NEW s \in Streams, Release(p, s) PROVE OsTypeOK'
  BY <1>3 DEF OsTypeOK, Release
<1>4. ASSUME NEW p \in Procs, NEW s \in Streams, Write(p, s) PROVE OsTypeOK'
  BY <1>4 DEF OsTypeOK, Write
<1>5. ASSUME NEW p \in Procs, NEW c \in Codes, Exit(p, c) PROVE OsTypeOK'
  BY <1>5, DieType DEF Exit, Statuses
<1> QED BY <1>1, <1>2, <1>3, <1>4, <1>5 DEF CommandStep

(* What the command itself can never do: revive its leader, change the     *)
(* status of a dead one, repopulate an empty group, or touch asyncio's     *)
(* returncode.  A command that is not running does nothing.                *)
LEMMA CommandEffect ==
  ASSUME OsTypeOK, OsInv, CommandStep
  PROVE  /\ OsInv'
         /\ Leader \in alive' => Leader \in alive
         /\ Leader \notin alive => status' = status
         /\ status # NoCode => status' = status
         /\ group = {} => group' = {}
         /\ returncode' = returncode
         /\ alive # {}
<1>1. ASSUME NEW p \in Procs, NEW q \in Helpers, Fork(p, q) PROVE
         /\ OsInv' /\ (Leader \in alive' => Leader \in alive)
         /\ status' = status /\ (group = {} => group' = {})
         /\ returncode' = returncode /\ alive # {}
  BY <1>1, ProcessAssumption DEF OsTypeOK, OsInv, Fork
<1>2. ASSUME NEW q \in Helpers, Setsid(q) PROVE
         /\ OsInv' /\ (Leader \in alive' => Leader \in alive)
         /\ status' = status /\ (group = {} => group' = {})
         /\ returncode' = returncode /\ alive # {}
  BY <1>2, ProcessAssumption DEF OsTypeOK, OsInv, Setsid
<1>3. ASSUME NEW p \in Procs, NEW s \in Streams, Release(p, s) \/ Write(p, s) PROVE
         /\ OsInv' /\ (Leader \in alive' => Leader \in alive)
         /\ status' = status /\ (group = {} => group' = {})
         /\ returncode' = returncode /\ alive # {}
  BY <1>3 DEF OsTypeOK, OsInv, Release, Write
<1>4. ASSUME NEW p \in Procs, NEW c \in Codes, Exit(p, c) PROVE
         /\ OsInv' /\ (Leader \in alive' => Leader \in alive)
         /\ Leader \notin alive => status' = status
         /\ (status # NoCode => status' = status) /\ (group = {} => group' = {})
         /\ returncode' = returncode /\ alive # {}
  BY <1>4, ProcessAssumption DEF OsTypeOK, OsInv, Exit, Die, Statuses
<1> QED BY <1>1, <1>2, <1>3, <1>4 DEF CommandStep

(* killpg empties the group and, with it, kills the leader. *)
LEMMA KillEffect ==
  ASSUME OsTypeOK, OsInv, KillGroup
  PROVE  /\ OsTypeOK' /\ OsInv'
         /\ group' = {} /\ Leader \notin alive'
         /\ status # NoCode => status' = status
         /\ returncode' = returncode
<1>1. OsTypeOK'
  BY DieType DEF KillGroup, OsTypeOK, Statuses
<1>2. /\ OsInv' /\ group' = {} /\ Leader \notin alive'
      /\ status # NoCode => status' = status
      /\ returncode' = returncode
  BY ProcessAssumption DEF OsTypeOK, OsInv, KillGroup, Die
<1> QED BY <1>1, <1>2

(* The child watcher publishes the leader's status and nothing else. *)
LEMMA ReapEffect ==
  ASSUME OsTypeOK, OsInv, Reap
  PROVE  /\ OsTypeOK' /\ OsInv'
         /\ returncode' = status' /\ returncode' # NoCode
         /\ UNCHANGED <<alive, group, status>>
BY DEF OsTypeOK, OsInv, Reap

(* Steps that leave the operating system alone, and steps that only drain  *)
(* a pipe, keep the types.                                                 *)
LEMMA QuietOs == ASSUME OsTypeOK, UNCHANGED osVars PROVE OsTypeOK'
BY DEF OsTypeOK, osVars

LEMMA DrainType ==
  ASSUME OsTypeOK, NEW s \in Streams, NEW n \in 1..pipe[s], TakeFromPipe(s, n)
  PROVE  OsTypeOK'
BY DEF OsTypeOK, TakeFromPipe

(* A stream that nobody holds is closed for good: no step of the command   *)
(* opens it again or writes to it.  On any stream, what the command writes *)
(* it puts into the pipe, so the units already read stay the same.         *)
LEMMA CommandStreams ==
  ASSUME OsTypeOK, CommandStep, NEW s \in Streams
  PROVE  /\ holds[s] = {} => holds'[s] = {} /\ pipe'[s] = pipe[s] /\ written'[s] = written[s]
         /\ written'[s] - pipe'[s] = written[s] - pipe[s]
<1>1. ASSUME NEW p \in Procs, NEW q \in Helpers, Fork(p, q) PROVE
         (holds[s] = {} => holds'[s] = {}) /\ pipe' = pipe /\ written' = written
  BY <1>1 DEF OsTypeOK, Fork
<1>2. ASSUME NEW q \in Helpers, Setsid(q) PROVE
         holds' = holds /\ pipe' = pipe /\ written' = written
  BY <1>2 DEF Setsid
<1>3. ASSUME NEW p \in Procs, NEW t \in Streams, Release(p, t) PROVE
         (holds[s] = {} => holds'[s] = {}) /\ pipe' = pipe /\ written' = written
  BY <1>3 DEF OsTypeOK, Release
<1>4. ASSUME NEW p \in Procs, NEW t \in Streams, Write(p, t) PROVE
         /\ holds[s] = {} => holds'[s] = {} /\ pipe'[s] = pipe[s] /\ written'[s] = written[s]
         /\ written'[s] - pipe'[s] = written[s] - pipe[s]
  BY <1>4 DEF OsTypeOK, Write
<1>5. ASSUME NEW p \in Procs, NEW c \in Codes, Exit(p, c) PROVE
         (holds[s] = {} => holds'[s] = {}) /\ pipe' = pipe /\ written' = written
  BY <1>5 DEF OsTypeOK, Exit, Die
<1> QED BY <1>1, <1>2, <1>3, <1>4, <1>5 DEF CommandStep
=============================================================================
