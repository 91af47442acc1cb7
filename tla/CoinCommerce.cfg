CONSTANTS
  a = a
  b = b
  c = c
  o1 = o1
  o2 = o2
  Users = {a, b, c}
  Opening <- Two
  Amounts = {1}
  DailyLimit = 2
  Days = 1
  Keys = {k1, k2}
  Owner = a
  Base = 2
  HardLimit = 3
  Products <- Cards
  Orders = {o1, o2}
  OrderOf <- Recharges
  Payments = {p1, p2}
  Referrals <- Invited
  Reward = 1
  MonthlyCap = 1
  Workers = {w1, w2}
  Sweepers = {}
  Ops = {"expand", "approve", "settle"}
  TxAttempts = 2
  CardAttempts = 2
  None = None
SPECIFICATION Spec
SYMMETRY Symmetry
INVARIANT CoinsMoveOnce
INVARIANT PaymentPaysOnce
INVARIANT MonthlyCapHolds
PROPERTY SeatsAreUsable
