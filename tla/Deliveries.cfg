CONSTANTS
  a = a
  b = b
  c = c
  o1 = o1
  o2 = o2
  Users = {a, b}
  Opening <- Three
  Amounts = {1}
  DailyLimit = 2
  Days = 1
  Keys = {k1}
  Owner = a
  Base = 2
  HardLimit = 3
  Products <- Cards
  Orders = {}
  OrderOf <- Recharges
  Payments = {p1, p2}
  Referrals <- NobodyInvited
  Reward = 1
  MonthlyCap = 1
  Workers = {w1}
  Sweepers = {s1, s2}
  Ops = {"gift"}
  TxAttempts = 2
  CardAttempts = 2
  None = None
  PushTokens = {t1}
  Expo = {t1}
  PushWorkers = {v1, v2}
  PushPollers = {v3}
  PushKinds = {"announcement", "circle"}
  MaxAttempts = 2
  MaxPushEvents = 1
  NoLease = NoLease
  SeatUsers = {b, c}
  SeatOwner = a
  SyncRuns = {"request", "cron", "dissolve"}
  MaxSeatEvents = 3
  MaxSyncFaults = 2
  Pals = {a, b}
  MaxFriendRows = 1
  MaxThread = 1
  ReplayWorkers = {v1}
  MaxFriendEvents = 2
  Nobody = Nobody
SPECIFICATION DeliverySpec
CHECK_DEADLOCK FALSE
INVARIANT OneCard
PROPERTY CardArrives
PROPERTY PushEnds
PROPERTY MembersAreSeated
PROPERTY AcceptedIsCopied
