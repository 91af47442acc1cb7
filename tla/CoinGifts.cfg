CONSTANTS
  a = a
  b = b
  c = c
  o1 = o1
  o2 = o2
  Users = {a, b}
  Opening <- Three
  Amounts = {1, 2}
  DailyLimit = 2
  Days = 2
  Keys = {k1, k2}
  Owner = a
  Base = 2
  HardLimit = 3
  Products <- Cards
  Orders = {}
  OrderOf <- Recharges
  Payments = {p1, p2}
  Referrals <- NobodyInvited
  Reward = 1
  MonthlyCap = 1
  Workers = {w1, w2}
  Sweepers = {}
  Ops = {"gift"}
  TxAttempts = 2
  CardAttempts = 2
  None = None
SPECIFICATION Spec
SYMMETRY Symmetry
INVARIANT TypeOK
INVARIANT LedgerReplays
INVARIANT DailyLimitHolds
INVARIANT AnswersAreHonest
