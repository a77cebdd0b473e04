-------------------------- MODULE MCKubernetesStore --------------------------
(* A small instance of KubernetesStore. *)
EXTENDS KubernetesStore, TLC

Symmetry == Permutations(Calls) \cup Permutations(Tenants)
=============================================================================
