CONSTANTS
  a = a
  b = b
  Users = {a, b}
  Managers = {}
  MsgIds = {m1, m2}
  Workers = {w1, w2}
  Clients = {phone}
  ClientUser <- MCClientUser
  Kinds = {"GROUP"}
  Ops <- DeviceOps
  Ds = {d1}
  Texts = {t1}
  SelfDestruct = {b}
  PageSize = 1
  Legacy = 1
  MaxRevision = 3
  System = System
  Notice = Notice
  Blank = Blank
  None = None
INVARIANT SyncedPrefixExact
SPECIFICATION FairSpec
PROPERTY DueIsSwept
PROPERTY DeviceCatchesUp
