\* One listener at a time, without any fault.
CONSTANTS
  u1 = u1
  u2 = u2
  daily = daily
  retired = retired
  Msisdns = {u1}
  Products <- MCProducts
  Notifications <- MCSerialRequests
  InitialUsers = {u1}
  ValidityDays <- MCValidityDays
  QuizAttempts <- MCQuizAttempts
  Jobs = {j1, j2, j3}
  Runs = {r1}
  TicksPerDay = 1
  MaxTime = 2
  MaxFaults = 0
SPECIFICATION Spec
INVARIANTS
  UnsubscribedMeansNoAccess
CHECK_DEADLOCK FALSE
