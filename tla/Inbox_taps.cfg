\* Two taps at the same time on two messages of one sender, a page of one message.
SPECIFICATION Spec
CONSTANTS
  t1 = t1
  t2 = t2
  f1 = f1
  None = None
  Msgs <- MCMsgs
  Prints = {f1}
  PrintOf <- MCPrintOf
  Taps = {t1, t2}
  Bodies <- MCBodies
  PageSize = 1
  InnerW = 180
  InnerH = 230
  MaxFont = 36
  MinFont = 30
  Rounds = 6
  Unit = 4
  Glyphs <- MCGlyphs
  Points <- MCPoints
  Piece <- MCPiece
  Advance <- MCAdvance
SYMMETRY Sym
INVARIANTS
  NothingAfterRemoval
  OpenedIsKept
  ListIsComplete
  OnlyRaceRaises
  LayerBuiltOnce
  CardShowsText
  CardIsBalanced
