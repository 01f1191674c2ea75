\* Two submissions over two days, by a user who has a wallet and one who has not,
\* and one fault.
CONSTANTS
  u1 = u1
  u2 = u2
  Users = {u1, u2}
  WalletOwners = {u1}
  Quota <- MCQuota
  Tries = 2
  Pool = 11
  MaxSubmissions = 2
  Submitters <- MCSubmitters
  MaxDays = 2
  MaxFaults = 1
SPECIFICATION FairSpec
INVARIANTS
  TypeOK
  QuotaHeld
  GradeIsCorrect
  RewardsWithinPool
PROPERTIES
  PublishedIsFinal
  WinnerIsPaid
CHECK_DEADLOCK FALSE
