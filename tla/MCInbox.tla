------------------------------ MODULE MCInbox -------------------------------
(* Inbox.tla on a small instance: a panel of five lines of five letters, or *)
(* six of six in the smallest ones, widths in quarters of a pixel, and      *)
(* texts that fit, wrap, break, overflow and are cut inside an emoji.       *)
EXTENDS Inbox, TLC

CONSTANTS t1, t2, f1

x(n) == [i \in 1..n |-> "x"]
flags(n) == [i \in 1..n |-> "flag"]
Spaced(ns) == FlattenSeq([i \in 1..Len(ns) |-> x(ns[i]) \o <<"sp">>])

Lines(n) == [i \in 1..2 * n - 1 |-> IF i % 2 = 0 THEN "nl" ELSE "x"]

MCBodies == {
  <<"ctrl", "sp">>,                                                    \* nothing to draw
  x(1),
  Spaced(<<1, 1, 1, 1>>),                                              \* two lines, balanced
  <<"p", "sp", "q", "sp", "r">>,                                       \* balanced to the pixel
  x(9),                                                                \* a word to be broken
  <<"x", "banner", "x">>,                                              \* wider than the panel
  <<"sp", "nl", "x", "nl", "nl", "ctrl", "sp", "nl", "nl", "y", "sp">>,\* a blank line
  Spaced(<<6, 6, 6>>),                                                 \* the smallest letters
  Lines(7),                                                            \* one line too many
  Spaced(<<6, 6, 6, 6, 5, 5, 5>>),                                     \* too much
  Lines(5) \o <<"nl">> \o flags(7),                                    \* cut inside a flag
  Lines(6) \o <<"nl", "family">>,                                      \* cut again and again
  Lines(21)}                                                           \* an ellipsis alone

\* A family is man, joiner, woman, joiner, girl; half a flag is a letter.
MCGlyphs == {"x", "y", "p", "q", "r", "dots", "flag", "ri", "family", "couple", "man", "zwj", "banner"}
MCPoints == ("flag" :> 2 @@ "family" :> 5 @@ "couple" :> 3) @@ [a \in Atoms |-> 1]
Couple == 0 :> <<>> @@ 1 :> <<"man">> @@ 2 :> <<"man", "zwj">>
MCPiece ==
  ("flag"   :> (0 :> <<>> @@ 1 :> <<"ri">>) @@
   "couple" :> Couple @@
   "family" :> (Couple @@ 3 :> <<"couple">> @@ 4 :> <<"couple", "zwj">>))
    @@ [a \in Atoms |-> 0 :> <<>>]

\* Letters of one em, but: a p q r fit on no line, and p q is half a pixel wider than
\* q r, which the bisection cannot see.
MCAdvance ==
  [size \in Sizes |->
    ("p" :> 243 @@ "q" :> 256 @@ "r" :> 241 @@ "zwj" :> 0 @@ "banner" :> 800)
      @@ [a \in Atoms |-> size * Unit]]

MCPrintOf == [m \in Msgs |-> f1]
MCMsgs == 1..2
Sym == Permutations(Taps)
=============================================================================
