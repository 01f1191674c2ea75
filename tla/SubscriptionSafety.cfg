\* One user, two deliveries, two listeners at a time, one fault, half-day ticks.
CONSTANTS
  u1 = u1
  u2 = u2
  daily = daily
  retired = retired
  Msisdns = {u1}
  Products <- MCProducts
  Notifications <- MCSafetyRequests
  InitialUsers = {}
  ValidityDays <- MCValidityDays
  QuizAttempts <- MCQuizAttempts
  Jobs = {j1, j2}
  Runs = {r1, r2}
  TicksPerDay = 2
  MaxTime = 6
  MaxFaults = 1
SPECIFICATION Spec
SYMMETRY Symmetry
INVARIANTS
  TypeOK
  LatestActiveWins
  NoEarlyExpiry
  ChargedMeansSubscribed
  QuizAttemptsMatchRows
  EveryUserHasWallet
PROPERTIES
  ImplementsEntitlements
CHECK_DEADLOCK FALSE
