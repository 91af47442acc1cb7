CONSTANTS
  PushTokens = {t1, t2}
  Expo = {t1}
  PushWorkers = {w1, w2}
  PushPollers = {p1}
  PushKinds = {"plain"}
  MaxAttempts = 2
  MaxPushEvents = 0
  NoLease = NoLease
SPECIFICATION PushSpec
INVARIANT FailedIsRetried
CHECK_DEADLOCK FALSE
