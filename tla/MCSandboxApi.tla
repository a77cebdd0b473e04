---------------------------- MODULE MCSandboxApi ----------------------------
(* A small instance of SandboxApi. *)
EXTENDS SandboxApi
=============================================================================
