--------------------------- MODULE MCWorkspaceFiles ---------------------------
(* Instances of WorkspaceFiles: two uploads race with readers and a command. *)
EXTENDS WorkspaceFiles, TLC

Symmetry == Permutations(Uploads) \cup Permutations(Paths) \cup Permutations(Readers)
=============================================================================
