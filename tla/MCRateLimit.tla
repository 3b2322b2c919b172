---------------------------- MODULE MCRateLimit -----------------------------
(* RateLimit.tla on a small instance in which every scope gets to refuse.  *)
EXTENDS RateLimit

MCLimit  == [s \in Scopes |-> IF s = "fingerprint" THEN 2 ELSE 1]
MCWindow == [s \in Scopes |-> IF s \in {"global", "trackGlobal"} THEN 2 ELSE 1]
=============================================================================
