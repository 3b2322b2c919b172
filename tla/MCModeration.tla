---------------------------- MODULE MCModeration ----------------------------
(* Moderation.tla on small instances: one link, one sender.                *)
EXTENDS Moderation, TLC

CONSTANTS l1, f1

MCLinkOf == [m \in Msgs |-> l1]
MCPrintOf == [m \in Msgs |-> f1]

Sym == Permutations(Msgs) \cup Permutations(Taps) \cup Permutations(Mods)
=============================================================================
