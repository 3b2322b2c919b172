\* Two updates of one user in flight, every request, three changes.
SPECIFICATION Spec
CONSTANTS
  Calls = {c1, c2}
  Prompts = {p1}
  Reasons = {p1}
  Names = {n1}
  NoPrompt = NoPrompt
  NoName = NoName
  BadKey = BadKey
  MaxCommits = 3
SYMMETRY Sym
INVARIANTS
  LostOnlyToOverlap
  EventsAreChanges
  ReasonSparesChoices
