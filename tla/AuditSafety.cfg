\* Two deliveries of any kind, two notifications and a fault, in every order.
CONSTANTS
  u1 = u1
  u2 = u2
  daily = daily
  Requests <- MCRequests
  SecureDRequests <- MCNotifications
  Subscribers = {u1}
  KnownTrx <- MCKnownTrx
  Deliveries = {d1, d2}
  MaxSecureD = 2
  MaxFaults = 1
  Attempts = 2
SPECIFICATION Spec
SYMMETRY Symmetry
INVARIANTS
  TypeOK
  ProcessedMeansAudited
  NoOverclaim
  FlagsAgree
  PostbackOnce
PROPERTIES
  ImplementsConversion
CHECK_DEADLOCK FALSE
