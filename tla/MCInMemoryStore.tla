--------------------------- MODULE MCInMemoryStore ---------------------------
(* A small instance of InMemoryStore: two tenants, two keys, four ids. *)
EXTENDS InMemoryStore, TLC

Symmetry == Permutations(Tenants) \cup Permutations(Keys) \cup Permutations(Ids)
=============================================================================
