CONSTANTS
  PushTokens = {t1, t2}
  Expo = {t1}
  PushWorkers = {w1, w2}
  PushPollers = {p1}
  PushKinds = {"announcement"}
  MaxAttempts = 2
  MaxPushEvents = 1
  NoLease = NoLease
  AuthDevices = {d1, d2}
  MaxSessions = 3
  MaxPasswords = 1
  MaxAuthEvents = 2
  NoFamily = NoFamily
  AuthProfiles <- Profiles
  CircleUsers = {o, a, b}
  CircleOwner = o
  FirstMembers = {o, a}
  CircleCapacities = {2, 3}
  RequiredVotes = {1, 2}
  FriendsOnly = {b}
  MaxInvitations = 2
  MaxCircleEvents = 2
  Deliverers = {x1, x2}
  NoClaim = NoClaim
  Pals = {x, y}
  MaxFriendRows = 1
  MaxThread = 2
  ReplayWorkers = {v1, v2}
  MaxFriendEvents = 2
  Nobody = Nobody
  u1 = u1
  n1 = n1
  Owners = {u1, u2}
  Names = {n1, n2, n3}
  FirstName <- MCFirstName
  Legacy = {u1}
  OpeningPoints = 2
  OrderKeys = {k1, k2}
  Months = {1}
  FancyWorkers = {r1}
  FancyOps = {"grant", "rename", "stock"}
  MaxClock = 2
  Unit = 1
  NoName = NoName
SPECIFICATION ServiceSpec
CHECK_DEADLOCK FALSE
SYMMETRY Symmetry
PROPERTY KeepsPromise
INVARIANT OneLoginWhenSingle
INVARIANT RemovedStaysOut
INVARIANT PasswordEndsSessions
INVARIANT CircleBooksAgree
PROPERTY KeepsRoster
PROPERTY ConsentIsHonoured
INVARIANT ReplayInOrder
INVARIANT MarketAgrees
PROPERTY KeepsTitles
