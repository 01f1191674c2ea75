\* A notification of nobody's prefix, without any fault.
CONSTANTS
  u1 = u1
  u2 = u2
  daily = daily
  Requests <- MCUnknownMarketer
  SecureDRequests <- MCConversions
  Subscribers = {u1}
  KnownTrx <- MCKnownTrx
  Deliveries = {d1}
  MaxSecureD = 1
  MaxFaults = 0
  Attempts = 3
SPECIFICATION Spec
INVARIANTS
  AuditedUnlessFault
CHECK_DEADLOCK FALSE
