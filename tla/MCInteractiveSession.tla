------------------------- MODULE MCInteractiveSession -------------------------
(* Instances of InteractiveSession for TLC: one helper process. *)
EXTENDS InteractiveSession

MCStreams == {Tty}
MCCodes == {3}
=============================================================================
