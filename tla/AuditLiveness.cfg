\* Two deliveries of a subscription or a stranger's request, one notification.
CONSTANTS
  u1 = u1
  u2 = u2
  daily = daily
  Requests <- MCLivenessRequests
  SecureDRequests <- MCLivenessNotifications
  Subscribers = {u1}
  KnownTrx <- MCKnownTrx
  Deliveries = {d1, d2}
  MaxSecureD = 1
  MaxFaults = 0
  Attempts = 3
SPECIFICATION FairSpec
PROPERTIES
  ConversionIsPosted
CHECK_DEADLOCK FALSE
