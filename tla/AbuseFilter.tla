---------------------------- MODULE AbuseFilter -----------------------------
(***************************************************************************)
(* The rules-only abuse filter (core/safety/filter.py).  Of a text it only *)
(* matters which lexicons it hits and how many of the four spam-shaped     *)
(* heuristics (two URLs, a phone number, a repeated character, shouting)   *)
(* it sets off; the lexicons and the regular expressions are not modelled. *)
(***************************************************************************)
EXTENDS Naturals

Category == {"spam", "harassment", "sexual", "threat"}

Texts == [words : SUBSET Category, shapes : 0..4]

\* _WEIGHTS
Weight(cat) == CASE cat = "spam" -> 1 [] cat = "harassment" -> 2
                 [] cat = "sexual" -> 3 [] cat = "threat" -> 4

\* Mutant: a warning only for the gravest texts.
MutWarnThreshold == 4

\* WARN_THRESHOLD, L3_THRESHOLD
WarnThreshold == 2
L3Threshold == 3

\* analyze: the categories and the score of text t.
Categories(t) == t.words \cup (IF t.shapes > 0 THEN {"spam"} ELSE {})

Points(t, cat) == IF cat \in t.words THEN Weight(cat) ELSE 0

Score(t) == Points(t, "spam") + Points(t, "harassment") + Points(t, "sexual")
              + Points(t, "threat") + t.shapes

\* FilterResult.should_warn
ShouldWarn(t) == Score(t) >= WarnThreshold

\* FilterResult.severity
Severity(t) ==
  IF Categories(t) \cap {"threat", "sexual"} # {} /\ Score(t) >= L3Threshold THEN "L3"
  ELSE IF "harassment" \in Categories(t) THEN "L2"
  ELSE IF "spam" \in Categories(t) THEN "L1"
  ELSE "NONE"
=============================================================================
