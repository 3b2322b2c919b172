\* Three handler calls of one owner in flight at once.
SPECIFICATION Spec
CONSTANTS
  Owners = {o1}
  Calls = {c1, c2, c3}
  LinkIds = {l1, l2, l3}
  None = None
SYMMETRY Sym
INVARIANTS
  AtMostOneActive
  RegenerateRetiresOld
  OnlyModerationUnlinks
  RaiseNeedsModeration
  UserRowFirst
PROPERTIES ImplementsRegistry
