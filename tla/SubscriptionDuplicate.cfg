\* The same request delivered twice, without any fault.
CONSTANTS
  u1 = u1
  u2 = u2
  daily = daily
  retired = retired
  Msisdns = {u1}
  Products <- MCProducts
  Notifications <- MCOneRequest
  InitialUsers = {u1}
  ValidityDays <- MCValidityDays
  QuizAttempts <- MCQuizAttempts
  Jobs = {j1, j2}
  Runs = {r1}
  TicksPerDay = 1
  MaxTime = 0
  MaxFaults = 0
SPECIFICATION Spec
INVARIANTS
  OneRowPerSequenceNo
CHECK_DEADLOCK FALSE
