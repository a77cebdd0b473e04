---------------------------- MODULE ImageBuilder ----------------------------
(***************************************************************************)
(* The image builder of tools/xolis_image_builder.py (class ImageBuilder): *)
(* the source goes to a versioned S3 bucket, an EC2 instance builds and    *)
(* pushes the images with one Systems Manager command, the references are  *)
(* read back, and cleanup removes the instance and the source.             *)
(*                                                                         *)
(* External, modelled from how the tool uses them: EC2, Systems Manager,   *)
(* the registry, the bucket (a removal adds a delete marker).  Abstracted: *)
(* names, tags and addresses, the text of the script (its commands that    *)
(* push, convert and check images are steps of their own).                 *)
(***************************************************************************)
EXTENDS Cluster, Sequences, SequencesExt

CONSTANTS Images,     \* names of REPOSITORIES selected with --image
          Converted   \* sets of images that --nydus can select

ASSUME ImagesAssumption ==
    IsFiniteSet(Images) /\ Images # {} /\ Converted \subseteq SUBSET Images

VARIABLES step,       \* the step of run or cleanup; "idle", "done"
          keepInst,   \* --keep-instance
          nydus,      \* nydus_images
          instance_id, source_uri,   \* what cleanup knows of: is it not None
          ec2,        \* state of the instance
          registered, \* the instance is known to Systems Manager
          objects,    \* S3: versions and delete markers of the source
          invocation, \* Status of the command, or "none"
          line,       \* the command of the script that is next
          registry,   \* tags in the registry, and "checked" conversions
          references, \* what run returns
          dirty,      \* an exception left cleanup
          buildExit   \* "none", "ok" or "error"

buildVars == <<step, keepInst, nydus, instance_id, source_uri, ec2, registered, objects,
               invocation, line, registry, references, dirty, buildExit>>

BuildInit ==
    /\ step = "idle" /\ keepInst = FALSE /\ nydus = {}
    /\ instance_id = FALSE /\ source_uri = FALSE
    /\ ec2 = "none" /\ registered = FALSE /\ objects = {} /\ invocation = "none"
    /\ line = 1 /\ registry = {} /\ references = {} /\ dirty = FALSE /\ buildExit = "none"

BuildRunning == step \notin {"idle", "done"}

-----------------------------------------------------------------------------
(* The script and the machine it runs on. *)

build_commands ==
    LET Each(S, what) == [n \in 1..Cardinality(S) |-> <<what, SetToSeq(S)[n]>>]
        Convert(seq) == [n \in 1..(2 * Len(seq)) |->
                            <<IF n % 2 = 1 THEN "nydus" ELSE "checked", seq[(n + 1) \div 2]>>]
    IN  <<<<"setup", "docker">>>> \o Each(Images, "oci")
          \o (IF nydus = {} THEN <<>> ELSE <<<<"setup", "nydusify">>>>)
          \o Convert(SetToSeq(nydus))

\* Slip: without set -e a failing command does not stop the script.
StopsAtSlip == "InProgress"

(* set -euo pipefail: the first failing command ends the script. *)
StopsAt == "Failed"

ScriptRuns == ec2 = "running" /\ invocation = "InProgress"

ScriptLine ==
    /\ ScriptRuns /\ line <= Len(build_commands)
    /\ \/ registry' = registry \cup {build_commands[line]} /\ UNCHANGED invocation
       \/ invocation' = StopsAt /\ UNCHANGED registry
    /\ line' = line + 1
    /\ UNCHANGED <<ec2, registered>>

ScriptEnds ==
    /\ ScriptRuns /\ line = Len(build_commands) + 1 /\ invocation' = "Success"
    /\ UNCHANGED <<ec2, registered, line, registry>>

(* Systems Manager: the command is delivered, or ends for its own reasons. *)
Invoked ==
    /\ \/ registered /\ ec2 = "running" /\ invocation = "Pending" /\ invocation' = "InProgress"
       \/ invocation \in {"Pending", "InProgress"} /\ invocation' \in {"TimedOut", "Cancelled"}
    /\ UNCHANGED <<ec2, registered, line, registry>>

InstanceMoves ==
    /\ \/ ec2 = "pending" /\ ec2' = "running" /\ UNCHANGED registered
       \/ ec2 = "running" /\ ~registered /\ registered' = TRUE /\ UNCHANGED ec2
       \/ ec2 = "shutting-down" /\ ec2' = "terminated" /\ UNCHANGED registered
    /\ UNCHANGED <<invocation, line, registry>>

RemoteStep ==
    /\ ScriptLine \/ ScriptEnds \/ Invoked \/ InstanceMoves
    /\ UNCHANGED <<clusterVars, interrupts, late, step, keepInst, nydus, instance_id,
                   source_uri, objects, references, dirty, buildExit>>

-----------------------------------------------------------------------------
(* run: an exception leads to cleanup. *)

aws == <<ec2, objects, invocation>>
NoCall == UNCHANGED aws
Next_(s) == step' = s /\ late' = FALSE
Then(s) == Next_(s) /\ UNCHANGED <<buildExit, dirty>>
Fail == Next_("terminate") /\ buildExit' = "error" /\ UNCHANGED dirty

Frame == UNCHANGED <<clusterVars, keepInst, nydus, registered, line, registry>>

Calls(at, effect, next) ==
    /\ step = at /\ Outcome(effect, NoCall, Then(next), Fail, Fail)
    /\ Frame /\ UNCHANGED <<instance_id, source_uri, references>>

(* source_uri is set before anything is uploaded. *)
upload_source ==
    /\ step = "upload" /\ source_uri' = TRUE
    /\ Outcome(objects' = objects \cup {"version"} /\ UNCHANGED <<ec2, invocation>>, NoCall,
               Then("lookup"), Fail, Fail)
    /\ Frame /\ UNCHANGED <<instance_id, references>>

(* presign, describe-cluster, account, lookup_security_group, image id. *)
lookup == Calls("lookup", NoCall, "launch")

(* The instance id is known only from the answer. *)
launch_instance ==
    /\ step = "launch"
    /\ Outcome(ec2' = "pending" /\ UNCHANGED <<objects, invocation>>, NoCall,
               Then("status_ok") /\ instance_id' = TRUE,
               Fail /\ UNCHANGED instance_id, Fail /\ UNCHANGED instance_id)
    /\ Frame /\ UNCHANGED <<source_uri, references>>

PastDeadline == late

Poll(at, done, next, failed) ==
    /\ step = at /\ NoCall
    /\ \/ ~PastDeadline /\ done /\ Then(next) /\ UNCHANGED interrupts
       \/ (PastDeadline \/ failed) /\ Fail /\ UNCHANGED interrupts
    /\ Frame /\ UNCHANGED <<instance_id, source_uri, references>>

Polled == {"status_ok", "register", "wait_command"}

(* A reading fails, or the wait is interrupted. *)
BuildPollFails ==
    /\ step \in Polled /\ NoCall /\ Fail /\ (UNCHANGED interrupts \/ Interrupt)
    /\ Frame /\ UNCHANGED <<instance_id, source_uri, references>>

(* aws ec2 wait instance-status-ok, then Systems Manager is polled. *)
wait_for_instance ==
    \/ Poll("status_ok", ec2 = "running", "register", FALSE)
    \/ Poll("register", registered, "send", FALSE)

send_build ==
    Calls("send", invocation' = "Pending" /\ UNCHANGED <<ec2, objects>>, "wait_command")

(* A status that is not terminal, or an invocation not yet known, is       *)
(* polled again.                                                           *)
wait_for_command ==
    Poll("wait_command", invocation = "Success", "references",
         invocation \in {"Failed", "TimedOut", "Cancelled"})

Tags == {<<"oci", i>> : i \in Images} \cup {<<"nydus", i>> : i \in nydus}

image_references ==
    /\ step = "references"
    /\ Outcome(NoCall, NoCall, Tags \subseteq registry /\ Then("terminate") /\ references' = Tags,
               Fail /\ UNCHANGED references, Fail /\ UNCHANGED references)
    /\ Frame /\ UNCHANGED <<instance_id, source_uri>>

-----------------------------------------------------------------------------
(* cleanup, in run's finally: the first exception leaves it. *)

Leaves == Next_("done") /\ dirty' = TRUE /\ buildExit' = "error"

Cleanup(at, effect, next) ==
    /\ step = at /\ Outcome(effect, NoCall, Then(next), Leaves, Leaves)
    /\ Frame /\ UNCHANGED <<instance_id, source_uri, references>>

Skips(at, next) ==
    /\ step = at /\ Then(next) /\ NoCall
    /\ Frame /\ UNCHANGED <<instance_id, source_uri, references, interrupts>>

RemovesInstance == instance_id /\ ~keepInst

terminate_instances ==
    \/ ~RemovesInstance /\ Skips("terminate", "remove")
    \/ /\ RemovesInstance
       /\ Cleanup("terminate",
                  ec2' = (IF ec2 = "terminated" THEN ec2 ELSE "shutting-down")
                  /\ UNCHANGED <<objects, invocation>>, "wait_terminated")

(* aws ec2 wait, then a look at the state. *)
verify_terminated(at, next) ==
    /\ step = at
    /\ Outcome(NoCall, NoCall, ec2 = "terminated" /\ Then(next), Leaves, Leaves)
    /\ Frame /\ UNCHANGED <<instance_id, source_uri, references>>

\* Slip: the removal of the current version is taken for the whole cleanup.
remove_sourceSlip ==
    \/ ~source_uri /\ Skips("remove", "end")
    \/ source_uri /\ Cleanup("remove", objects' = objects \cup {"marker"} /\ UNCHANGED <<ec2, invocation>>, "end")

remove_source ==
    \/ ~source_uri /\ Skips("remove", "end")
    \/ source_uri /\ Cleanup("remove", objects' = objects \cup {"marker"} /\ UNCHANGED <<ec2, invocation>>,
                             "delete_objects")

(* list-object-versions, then delete-objects of all it showed; some of     *)
(* them may be refused.                                                    *)
delete_objects ==
    /\ step = "delete_objects"
    /\ \/ Outcome(objects' = {} /\ UNCHANGED <<ec2, invocation>>, NoCall, Then("end"), Leaves, Leaves)
       \/ /\ objects' \in SUBSET objects \ {{}}
          /\ Leaves /\ UNCHANGED <<ec2, invocation, interrupts>>
    /\ Frame /\ UNCHANGED <<instance_id, source_uri, references>>

BuildEnds ==
    /\ step = "end" /\ Next_("done")
    /\ buildExit' = IF buildExit = "none" THEN "ok" ELSE buildExit
    /\ NoCall /\ Frame /\ UNCHANGED <<instance_id, source_uri, references, dirty, interrupts>>

BuildStep ==
    \/ upload_source \/ lookup \/ launch_instance \/ wait_for_instance
    \/ send_build \/ wait_for_command \/ image_references
    \/ terminate_instances
    \/ verify_terminated("wait_terminated", "verify") \/ verify_terminated("verify", "remove")
    \/ remove_source \/ delete_objects \/ BuildEnds

BuildDeadline ==
    /\ step \in Polled /\ ~late /\ late' = TRUE
    /\ UNCHANGED <<clusterVars, interrupts, buildVars>>

BuildBegin(k, n) ==
    /\ step' = "upload" /\ keepInst' = k /\ nydus' = n
    /\ instance_id' = FALSE /\ source_uri' = FALSE
    /\ ec2' = "none" /\ registered' = FALSE /\ objects' = {} /\ invocation' = "none"
    /\ line' = 1 /\ registry' = {} /\ references' = {} /\ dirty' = FALSE /\ buildExit' = "none"
    /\ late' = FALSE /\ UNCHANGED <<clusterVars, interrupts>>

-----------------------------------------------------------------------------
BuildTypeOK ==
    /\ ec2 \in {"none", "pending", "running", "shutting-down", "terminated"}
    /\ objects \subseteq {"version", "marker"}
    /\ invocation \in {"none", "Pending", "InProgress", "Success", "Failed", "TimedOut", "Cancelled"}
    /\ references \subseteq Tags /\ line \in 1..(Len(build_commands) + 1)
    /\ buildExit \in {"none", "ok", "error"}

(* Whichever step of the build failed, timed out or was interrupted, a     *)
(* tool that ends without an exception from cleanup itself has left no     *)
(* paid instance it knows of and nothing in the bucket, neither a version  *)
(* of the source nor a delete marker (lines 199, 368-428).                 *)
BuildLeavesNothing ==
    step = "done" /\ ~dirty =>
        /\ instance_id /\ ~keepInst => ec2 = "terminated"
        /\ objects = {}

(* References are printed only for what this build made: every image was   *)
(* pushed, every Nydus image was converted and passed nydusify check, and  *)
(* nothing is still building (lines 96-145, 308-366).                      *)
ReferencesAreBuilt ==
    buildExit = "ok" =>
        /\ Tags \subseteq registry /\ references = Tags
        /\ \A i \in nydus : <<"checked", i>> \in registry
        /\ ~ScriptRuns

=============================================================================
