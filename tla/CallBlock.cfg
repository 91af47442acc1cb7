CONSTANTS
  Users = {a, b}
  CallIds = {c1}
  Workers = {w1, w2}
  Sorts = {"SINGLE"}
  Keys = {k}
  Ops = {"create", "block"}
  Faults = {}
  None = None
SPECIFICATION Spec
PROPERTY CreateHonoursBlock
