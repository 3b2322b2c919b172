\* Two moderators and a recipient on one message, a queue page of one.
SPECIFICATION Spec
CONSTANTS
  l1 = l1
  f1 = f1
  Msgs = {m1}
  Links = {l1}
  Prints = {f1}
  LinkOf <- MCLinkOf
  PrintOf <- MCPrintOf
  Taps = {t1}
  Mods = {d1, d2}
  ReportSeverities = {"L1", "L3"}
  FlagSeverities = {"L3"}
  Threshold = 2
  MassThreshold = 2
  PageSize = 1
  None = None
SYMMETRY Sym
INVARIANTS
  L3NotCrowdedOut
  RepeatsOnlyOverlap
  ReportIsQueued
PROPERTIES
  DeletedStaysDeleted
