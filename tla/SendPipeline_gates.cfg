\* Two requests of one sender in flight, every kind of body.
SPECIFICATION Spec
CONSTANTS
  clean = clean
  rude = rude
  threat = threat
  o1 = o1
  Calls = {c1, c2}
  Links = {l1}
  Owners = {o1}
  Prints = {f1}
  Bodies = {clean, rude, threat}
  OwnerOf <- MCOwnerOf
  TextOf <- MCTextOf
  MaxMsgs = 2
SYMMETRY Sym
INVARIANTS
  BlockHolds
  DuplicatesNeedOverlap
  ClosedLinkHolds
  SuccessIsKept
  FlaggedWasWarned
