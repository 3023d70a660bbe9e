---- MODULE MCDomainTree ----
(* DomainTree on a small world, for TLC. *)
EXTENDS DomainTree, TLC

Interchangeable ==
  Permutations(Domains) \cup Permutations(Commands) \cup Permutations(Clients \ {Authority})
====
