\* Two first requests of a new user, without any fault.
CONSTANTS
  u1 = u1
  u2 = u2
  daily = daily
  retired = retired
  Msisdns = {u1}
  Products <- MCProducts
  Notifications <- MCTwoFirstRequests
  InitialUsers = {}
  ValidityDays <- MCValidityDays
  QuizAttempts <- MCQuizAttempts
  Jobs = {j1, j2}
  Runs = {r1, r2}
  TicksPerDay = 1
  MaxTime = 0
  MaxFaults = 0
SPECIFICATION FairSpec
PROPERTIES
  StoredIsServed
CHECK_DEADLOCK FALSE
