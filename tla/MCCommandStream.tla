--------------------------- MODULE MCCommandStream ---------------------------
(* Instances of CommandStream for TLC: the two streams of a command, one   *)
(* helper process.                                                         *)
EXTENDS CommandStream

MCStreams == {"stdout", "stderr"}
MCCodes == {3}
=============================================================================
