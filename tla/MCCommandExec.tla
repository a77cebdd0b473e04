---------------------------- MODULE MCCommandExec ----------------------------
(* Instances of CommandExec for TLC: two streams, one helper process. *)
EXTENDS CommandExec

MCStreams == {"stdout", "stderr"}
MCCodes == {0, 3}
=============================================================================
