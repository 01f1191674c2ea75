\* Two spins, two withdrawals of one wallet, two webhooks and a fault.
CONSTANTS
  u1 = u1
  u2 = u2
  Users = {u1, u2}
  WalletOwners = {u1}
  Opening <- MCOpening
  Prizes = {2}
  Amounts = {2}
  MaxSpins = 2
  MaxRequests = 2
  MaxHooks = 2
  MaxFaults = 1
SPECIFICATION FairSpec
INVARIANTS
  TypeOK
  HistoryExplainsBalance
  OverdraftNeedsTwoDebits
PROPERTIES
  ImplementsLedger
  WonIsCredited
  ReportIsSettled
CHECK_DEADLOCK FALSE
