CONSTANTS
  a = a
  b = b
  Users = {a, b}
  Managers = {a}
  MsgIds = {m1, m2}
  Workers = {w1, w2}
  Clients = {}
  ClientUser <- MCClientUser
  Kinds = {"DIRECT", "GROUP", "TEMP"}
  Ops <- RequestOps
  Ds = {d1}
  Texts = {t1, t2}
  SelfDestruct = {a}
  PageSize = 1
  Legacy = 0
  MaxRevision = 3
  System = System
  Notice = Notice
  Blank = Blank
  None = None
SPECIFICATION Spec
CHECK_DEADLOCK FALSE
SYMMETRY Symmetry
INVARIANT HeightsDense
INVARIANT WatermarkCoversCommitted
INVARIANT AckedIsStored
INVARIANT PinnedIsLive
INVARIANT ErasedStaysErased
INVARIANT SpeechGate
INVARIANT ReadStartsTimer
PROPERTY MarksMonotone
