\* Two of everything; as many requests as the shortest story of each part needs.
CONSTANTS
  Readers = {r1, r2}
  MaxAccess = 1
  MaxRows = 2
  MaxWrites = 1
  MaxCrashes = 1
  Kinds = {"none", "PHONE", "EMAIL"}
  MaxCalls = 3
  MaxCodes = 2
  MaxLinks = 1
  MaxFailures = 1
  Accounts = {b1, b2}
  MaxRequests = 4
  MaxBankFaults = 1
  Lessons = {l1, l2}
  MaxVisits = 5
  MaxVisitFaults = 1
  People = {p1, p2}
  Creators = {p1}
  MaxSockets = 2
  MaxActs = 3
  MaxRestarts = 1
  Tracks = {t1}
  Resources = {s1, s2}
  FileNames = {f1}
  MaxEdits = 3
  MaxMillis = 2
  MaxEditFaults = 1
SPECIFICATION Spec
INVARIANTS
  TypeOK
  AccessWithinLimit
  SpentMeansExhausted
  NewestCodeWorks
  LinkUsedOnce
  SuspensionHolds
  OneDefault
  ProgressAgrees
  HeardByMembers
  SessionOfOpenSocket
  ShowsItsFiles
PROPERTIES
  CompletedStays
CHECK_DEADLOCK FALSE
