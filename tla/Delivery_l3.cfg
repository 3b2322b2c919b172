\* Auto-remove of L3, with a crash between its two commits.
SPECIFICATION Spec
CONSTANTS
  m1 = m1
  m2 = m2
  u1 = u1
  Msgs = {m1}
  Users = {u1}
  To <- MCTo
  MaxAttempts = 2
  MaxFaults = 1
  QueueBound = 1
INVARIANTS
  L3NeverDelivered
