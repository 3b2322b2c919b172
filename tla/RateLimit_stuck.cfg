\* A process dies between INCR and EXPIRE.
SPECIFICATION FairSpec
CONSTANTS
  Calls = {c1, c2}
  Prints = {f1}
  PersonLinks = {l1}
  Limit <- MCLimit
  Window <- MCWindow
  MaxCrashes = 1
PROPERTIES WindowEnds
