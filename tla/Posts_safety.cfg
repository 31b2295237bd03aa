SPECIFICATION Spec
CONSTANTS
  m1 = m1
  m2 = m2
  p1 = p1
  p2 = p2
  None = None
  Member = {m1, m2}
  Post = {p1, p2}
  Req = {p1, p2}
  Max = 1
  Window = 2
  MaxNow = 3
  MaxChanges = 1
INVARIANTS ImagesOpen HistoryMeansAll WaitingIsWaiting WindowBound
SYMMETRY Symmetry
CHECK_DEADLOCK FALSE
