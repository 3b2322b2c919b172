----------------------------- MODULE MCSettings -----------------------------
(* Settings.tla on a small instance.                                        *)
EXTENDS Settings, TLC

Sym == Permutations(Calls)
=============================================================================
