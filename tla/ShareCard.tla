----------------------------- MODULE ShareCard ------------------------------
(***************************************************************************)
(* The text layout of cards/render.py: what of a message body is drawn     *)
(* (_sanitize), how it is wrapped (_wrap), and at which font size, or how  *)
(* far shortened, it fits the panel (_fit).                                *)
(*                                                                         *)
(* A text is a sequence of atoms, as _atoms cuts it: "sp" and "nl", "ctrl" *)
(* for whatever is not drawn (control characters, characters without a     *)
(* glyph, emoji without a bitmap), and the characters and emoji clusters   *)
(* that are.  Atoms have their own widths, in fractions of a pixel, and a  *)
(* cluster has several code points, between which a text can be cut.       *)
(***************************************************************************)
EXTENDS Integers, SequencesExt

CONSTANTS
  InnerW, InnerH,      \* the panel without its padding, in pixels
  MaxFont, MinFont,    \* MESSAGE_MAX_FONT, MESSAGE_MIN_FONT
  Rounds,              \* how often _fit shortens a text (40)
  Unit,                \* widths are whole multiples of a pixel's Unit-th part
  Glyphs,              \* the characters and emoji clusters that are drawn
  Advance,             \* Advance[size][a]: how wide an atom is, in these parts
  Points,              \* Points[a]: its code points
  Piece                \* Piece[a][k]: the atoms that its first k code points make

Blanks == {"sp", "nl"}
Atoms == Glyphs \cup Blanks \cup {"ctrl"}
Sizes == {s \in MinFont..MaxFont : (MaxFont - s) % 2 = 0}

\* 668 by 384, 54 down to 30: a line of the smallest letters fits into the panel.
ASSUME CardConstants ==
  /\ {InnerW, InnerH, MaxFont, MinFont, Rounds, Unit} \subseteq Nat \ {0}
  /\ MinFont <= MaxFont
  /\ (MaxFont - MinFont) % 2 = 0
  /\ 827 * MinFont <= 1000 * InnerH

-----------------------------------------------------------------------------
(* Code points                                                             *)

\* The sum of f over the atoms of s.
Total(f, s) == FoldLeft(LAMBDA n, a : n + f[a], 0, s)

\* len(s)
CodePoints(s) == Total(Points, s)

\* s[:n]: whole atoms, and what is left of the one that the cut goes through.
Take(s, n) ==
  LET i == Max({j \in 0..Len(s) : CodePoints(SubSeq(s, 1, j)) <= n}) IN
  SubSeq(s, 1, i) \o
    (IF i = Len(s) THEN <<>> ELSE Piece[s[i + 1]][n - CodePoints(SubSeq(s, 1, i))])

\* What is left of a cluster is drawn too, if not as the sender meant it: half a flag is
\* a character, half a family a smaller one and perhaps a joiner.  Cutting twice is
\* cutting once.  ("ctrl" is dropped before a text is measured or cut.)
ASSUME GlyphConstants ==
  /\ "dots" \in Glyphs /\ Glyphs \cap (Blanks \cup {"ctrl"}) = {}
  /\ Advance \in [Sizes -> [Atoms -> Nat]]
  /\ Points \in [Atoms -> Nat \ {0}]
  /\ \A a \in Blanks \cup {"ctrl", "dots"} : Points[a] = 1
  /\ \A a \in Atoms : \A k \in 0..(Points[a] - 1) :
       /\ Piece[a][k] \in Seq(Glyphs) /\ CodePoints(Piece[a][k]) = k
       /\ \A j \in 0..k : Take(Piece[a][k], j) = Piece[a][j]

-----------------------------------------------------------------------------
(* What is drawn                                                           *)

TrimRight(s) ==
  SubSeq(s, 1, CHOOSE n \in 0..Len(s) : /\ n = 0 \/ s[n] \notin Blanks
                                        /\ \A i \in (n + 1)..Len(s) : s[i] \in Blanks)

\* One more atom: runs of spaces are one, none at the edge of a line, at most one
\* line is left blank, none at the top.
Put(out, a) ==
  CASE a = "ctrl" -> out
    [] a = "sp" -> IF out = <<>> \/ Last(out) \in Blanks THEN out ELSE Append(out, a)
    [] a = "nl" -> LET o == IF out # <<>> /\ Last(out) = "sp" THEN Front(out) ELSE out IN
                   IF o = <<>> \/ (Last(o) = "nl" /\ Last(Front(o)) = "nl") THEN o
                   ELSE Append(o, a)
    [] OTHER -> Append(out, a)

Sanitize(body) == TrimRight(FoldLeft(Put, <<>>, body))

-----------------------------------------------------------------------------
(* Wrapping                                                                *)

\* One more atom on the last line.
Extend(lines, a) == Append(Front(lines), Append(Last(lines), a))

\* s cut at every atom c.
Cut(c, lines, a) == IF a = c THEN Append(lines, <<>>) ELSE Extend(lines, a)
Split(s, c) == FoldLeft(LAMBDA lines, a : Cut(c, lines, a), << <<>> >>, s)

\* The panel's width in fractions of a pixel.
PanelW == InnerW * Unit

Measure(line, size) == Total(Advance[size], line)

\* _break_long_word: between atoms, as late as possible.
BreakAt(size, lines, a) ==
  IF Last(lines) # <<>> /\ Measure(Append(Last(lines), a), size) > PanelW
  THEN Append(lines, <<a>>) ELSE Extend(lines, a)
Break(word, size) == FoldLeft(LAMBDA lines, a : BreakAt(size, lines, a), << <<>> >>, word)

Words(paragraph, size) ==
  FlattenSeq([i \in 1..Len(Split(paragraph, "sp")) |->
                LET w == Split(paragraph, "sp")[i] IN
                IF w = <<>> THEN <<>>
                ELSE IF Measure(w, size) > PanelW THEN Break(w, size) ELSE <<w>>])

\* _greedy: a word goes to the next line when it does not fit on this one.
Place(size, width, lines, w) ==
  IF lines = <<>> THEN <<w>>
  ELSE IF Measure(Last(lines) \o <<"sp">> \o w, size) > width THEN Append(lines, w)
  ELSE Append(Front(lines), Last(lines) \o <<"sp">> \o w)
Greedy(words, size, width) ==
  FoldLeft(LAMBDA lines, w : Place(size, width, lines, w), <<>>, words)

\* _wrap_paragraph: bisection over whole pixels, from the widest word rounded down,
\* for the narrowest width that needs no more lines than the panel's does.
Narrowest(words, size) ==
  LET n == Len(Greedy(words, size, PanelW))
      search[r \in Nat \X (0..InnerW)] ==   \* r = <<lo, hi>>
        LET mid == (r[1] + r[2]) \div 2 IN
        IF r[1] >= r[2] THEN r[2]
        ELSE IF Len(Greedy(words, size, mid * Unit)) <= n THEN search[<<r[1], mid>>]
                                                          ELSE search[<<mid + 1, r[2]>>]
  IN search[<<Max({Measure(w, size) : w \in ToSet(words)}) \div Unit, InnerW>>]

\* Mutant: the lines are not balanced.
MutRagged(paragraph, size) ==
  LET words == Words(paragraph, size) IN
  IF words = <<>> THEN << <<>> >> ELSE Greedy(words, size, PanelW)

WrapParagraph(paragraph, size) ==
  LET words == Words(paragraph, size)
      lines == Greedy(words, size, PanelW) IN
  CASE words = <<>>   -> << <<>> >>
    [] Len(lines) = 1 -> lines
    [] OTHER          -> Greedy(words, size, Narrowest(words, size) * Unit)

Wrap(text, size) ==
  FlattenSeq([i \in 1..Len(Split(text, "nl")) |-> WrapParagraph(Split(text, "nl")[i], size)])

-----------------------------------------------------------------------------
(* Fitting                                                                 *)

\* round(size * 1.32); cap height 0.727 and 0.10 below the baseline, in 1/1000.
LinePitch(size) == (132 * size + 50) \div 100
InkHeight(n, size) == 1000 * (n - 1) * LinePitch(size) + 827 * size

\* Mutant: a text that fits at the smallest size only is cut as well.
MutFittingEarly(text) ==
  {s \in Sizes \ {MinFont} : InkHeight(Len(Wrap(text, s)), s) <= 1000 * InnerH}

\* The sizes at which a text fits.
Fitting(text) == {s \in Sizes : InkHeight(Len(Wrap(text, s)), s) <= 1000 * InnerH}

\* A tenth of the code points is cut off, and an ellipsis put in its place; what is
\* left is not sanitized again.
Shorten(text) ==
  Append(TrimRight(Take(text, Max({1, (9 * CodePoints(text)) \div 10}))), "dots")

\* _fit: the text, or what is left of it when it has been shortened until it fits,
\* at the largest size; an ellipsis alone when that would take too long.
Fit(text) ==
  LET cut[k \in 0..Rounds] == IF k = 0 THEN text ELSE Shorten(cut[k - 1])
      round == Min({k \in 0..Rounds : k = Rounds \/ Fitting(cut[k]) # {}})
      size == Max(Fitting(cut[round]))
  IN IF round = Rounds
     THEN [size |-> MinFont, lines |-> << <<"dots">> >>]
     ELSE [size |-> size, lines |-> Wrap(cut[round], size)]

\* render_share_card, as far as its text goes.
Card(body) ==
  IF Sanitize(body) = <<>> THEN [size |-> MaxFont, lines |-> <<>>]
                           ELSE Fit(Sanitize(body))

-----------------------------------------------------------------------------
(* What a card should be: reference definitions, by enumeration            *)

Draw(out, a) == IF a \in Blanks \cup {"ctrl"} THEN out ELSE Append(out, a)
Drawn(s) == FoldLeft(Draw, <<>>, s)

\* A setting of words is the set of those that begin a line; its widest line.
Width(words, size, i, j) ==
  Measure(FlattenSeq(SubSeq(words, i, j)), size) + (j - i) * Advance[size]["sp"]
Widest(words, size, B) ==
  Max({Width(words, size, i, Min({b \in B : b > i} \cup {Len(words) + 1}) - 1) : i \in B})

\* lines is a setting of words in as few lines as the panel allows, and no setting in
\* as few has a widest line that is narrower by a pixel.
IsBalanced(words, size, lines) ==
  LET all  == {B \cup {1} : B \in SUBSET (2..Len(words))}
      fit  == {B \in all : Widest(words, size, B) <= PanelW}
      few  == Min({Cardinality(B) : B \in fit})
      best == Min({Widest(words, size, B) : B \in {F \in fit : Cardinality(F) = few}})
  IN /\ Len(lines) = few
     /\ Max({Measure(l, size) : l \in ToSet(lines)}) < best + Unit

\* p is the whole of d, or a beginning of it: whole atoms, but for the last of
\* which some code points may be missing.
Opens(p, d) ==
  p = d \/ \E i \in 1..Len(d) : \E k \in 0..(Points[d[i]] - 1) :
             p = SubSeq(d, 1, i - 1) \o Piece[d[i]][k]

\* The card shows the whole text, line by line within the panel, or - when it is
\* too much for the panel even in the smallest letters - a beginning of it that
\* ends in an ellipsis.  Only an atom alone can be wider than the panel.
ShowsText(card, body) ==
  LET text == Sanitize(body)
      drawn == Drawn(FlattenSeq(card.lines))
      lowest == FlattenSeq([i \in 1..Len(Split(text, "nl")) |->
                  LET w == Words(Split(text, "nl")[i], MinFont) IN
                  IF w = <<>> THEN << <<>> >> ELSE Greedy(w, MinFont, PanelW)])
  IN /\ \A l \in ToSet(card.lines) : Measure(l, card.size) <= PanelW \/ Len(l) = 1
     /\ InkHeight(Len(card.lines), card.size) <= 1000 * InnerH
     /\ \/ drawn = Drawn(body)
        \/ /\ InkHeight(Len(lowest), MinFont) > 1000 * InnerH
           /\ Last(drawn) = "dots"
           /\ Opens(Front(drawn), Drawn(body))
=============================================================================
