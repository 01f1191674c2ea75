\* Two subscriptions of one subscriber, without any fault.
CONSTANTS
  u1 = u1
  u2 = u2
  daily = daily
  Requests <- MCTwoSubscriptions
  SecureDRequests <- MCConversions
  Subscribers = {u1}
  KnownTrx <- MCKnownTrx
  Deliveries = {d1, d2}
  MaxSecureD = 2
  MaxFaults = 0
  Attempts = 3
SPECIFICATION Spec
INVARIANTS
  AcquiredOnce
CHECK_DEADLOCK FALSE
