\* Two messages, two faults anywhere, from the first commit to Telegram.
SPECIFICATION FairSpec
CONSTANTS
  m1 = m1
  m2 = m2
  u1 = u1
  Msgs = {m1, m2}
  Users = {u1}
  To <- MCTo
  MaxAttempts = 2
  MaxFaults = 2
  QueueBound = 0
INVARIANTS
  NotifiedWasDelivered
  FlaggedBeforeDelivered
  L3DeliveredOnlyIfLost
  DuplicateNeedsDelay
PROPERTIES
  EventuallySettled
