CONSTANTS
  Users = {a, b, c}
  CallIds = {c1}
  Workers = {w1, w2}
  Sorts = {"SINGLE", "GROUP"}
  Keys = {k}
  Ops = {"create", "accept", "token", "reject", "leave", "cancel", "sweep", "webhook"}
  Faults = {"media"}
  None = None
SPECIFICATION Spec
SYMMETRY Symmetry
INVARIANT OutcomeMatchesSeats
INVARIANT RoomsAreReturned
PROPERTY KeepsLifecycle
