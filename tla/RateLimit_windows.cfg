\* Two calls in flight, sends or beacons, one sender, one link, one crash.
SPECIFICATION FairSpec
CONSTANTS
  Calls = {c1, c2}
  Prints = {f1}
  PersonLinks = {l1}
  Limit <- MCLimit
  Window <- MCWindow
  MaxCrashes = 1
INVARIANTS
  AtMostLimit
  OnlyCrashLeavesKey
PROPERTIES
  WindowEndsUnlessCrash
  RefusedAtLimit
