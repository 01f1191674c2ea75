\* A known user and a new one, one fault, and the days it takes to sweep a row.
CONSTANTS
  u1 = u1
  u2 = u2
  daily = daily
  retired = retired
  Msisdns = {u1}
  Products <- MCProducts
  Notifications <- MCLivenessRequests
  InitialUsers = {u1}
  ValidityDays <- MCValidityDays
  QuizAttempts <- MCQuizAttempts
  Jobs = {j1, j2}
  Runs = {r1, r2}
  TicksPerDay = 1
  MaxTime = 3
  MaxFaults = 1
SPECIFICATION FairSpec
PROPERTIES
  LapsedRowsAreSwept
  ServedUnlessFault
CHECK_DEADLOCK FALSE
