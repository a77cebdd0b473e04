--------------------------- MODULE RuntimeCommand ---------------------------
(***************************************************************************)
(* What the runtime promises about one POST /execute (core.py 122-161), as *)
(* far as the caller in front of it can tell: the command ends by itself,  *)
(* or is killed once its limit has passed; whoever holds its output may    *)
(* let go of it, and never takes it up again; the answer waits for both    *)
(* and says which of the two ends it was.  A command that is refused, or   *)
(* cannot be spawned, is answered before its limit.                        *)
(*                                                                         *)
(* CommandExec implements this specification; SandboxApi is built from its *)
(* actions.                                                                *)
(***************************************************************************)
VARIABLES command,   \* "running", "exited", "killed", or "none": never started
          held,      \* something holds the output streams open
          late,      \* timeout_seconds have passed
          answer     \* "none", "exited", "killed" or "Rejected"

vars == <<command, held, late, answer>>

Init == command = "running" /\ held \in BOOLEAN /\ late = FALSE /\ answer = "none"

(* InvalidCommand is a rejection, OSError from the spawn an exit code. *)
NotStarted ==
    /\ command = "running" /\ ~late /\ answer = "none"
    /\ command' = "none" /\ held' = FALSE /\ answer' \in {"Rejected", "exited"}

(* A kill takes the streams from the group; others may go on holding them. *)
Ends ==
    /\ command = "running"
    /\ \/ command' = "exited" /\ UNCHANGED held
       \/ late /\ command' = "killed" /\ held' \in {held, FALSE}
    /\ UNCHANGED answer

Releases == held /\ held' = FALSE /\ UNCHANGED <<command, answer>>

Answers ==
    /\ command \in {"exited", "killed"} /\ ~held /\ answer = "none"
    /\ answer' = command /\ UNCHANGED <<command, held>>

LimitPasses == ~late /\ late' = TRUE /\ UNCHANGED <<command, held, answer>>

Next ==
    \/ (NotStarted \/ Ends \/ Releases \/ Answers) /\ UNCHANGED late
    \/ LimitPasses

Spec == Init /\ [][Next]_vars
=============================================================================
