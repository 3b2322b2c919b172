\* Concurrent reports of two messages of one link.
SPECIFICATION Spec
CONSTANTS
  l1 = l1
  f1 = f1
  Msgs = {m1, m2}
  Links = {l1}
  Prints = {f1}
  LinkOf <- MCLinkOf
  PrintOf <- MCPrintOf
  Taps = {t1, t2}
  Mods = {}
  ReportSeverities = {"L1"}
  FlagSeverities = {}
  Threshold = 2
  MassThreshold = 2
  PageSize = 1
  None = None
SYMMETRY Sym
INVARIANTS
  RepeatsOnlyOverlap
  CounterNeverAhead
  DisabledIsAudited
