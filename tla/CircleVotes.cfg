CONSTANTS
  CircleUsers = {o, a, b}
  CircleOwner = o
  FirstMembers = {o, a}
  CircleCapacities = {3}
  RequiredVotes = {1, 2}
  FriendsOnly = {b}
  MaxInvitations = 1
  MaxCircleEvents = 1
  Deliverers = {x1}
  NoClaim = NoClaim
SPECIFICATION CircleSpec
CHECK_DEADLOCK FALSE
INVARIANT FullSetIsDecided
