------------------------------ MODULE MCLinks -------------------------------
(* Links.tla on small instances: calls, links and owners are symmetric.     *)
EXTENDS Links, TLC

Sym == Permutations(Calls) \cup Permutations(LinkIds) \cup Permutations(Owners)
=============================================================================
