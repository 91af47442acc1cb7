CONSTANTS
  Users = {a, b}
  CallIds = {c1, c2}
  Workers = {w1, w2}
  Sorts = {"SINGLE"}
  Keys = {None}
  Ops = {"create", "accept", "sweep", "block"}
  Faults = {"crash"}
  None = None
SPECIFICATION FairSpec
INVARIANT NoDoubleBooking
PROPERTY AcceptHonoursBlock
PROPERTY RingingEnds
