--------------------------- MODULE MCSendPipeline ---------------------------
(* SendPipeline.tla on small instances: one link; a clean, a harassing and  *)
(* a threatening body.                                                      *)
EXTENDS SendPipeline, TLC

CONSTANTS clean, rude, threat, o1

MCOwnerOf == [l \in Links |-> o1]
MCTextOf == [b \in Bodies |-> [words |-> CASE b = clean  -> {}
                                          [] b = rude   -> {"harassment"}
                                          [] b = threat -> {"threat", "spam"},
                               shapes |-> 0]]

Sym == Permutations(Calls) \cup Permutations(Prints)
=============================================================================
