SPECIFICATION Spec
CONSTANTS
  w = w
  c = c
  k1 = k1
  k2 = k2
  k3 = k3
  None = None
  Proc = {w, c}
  Window = {w}
  Key = {k1, k2, k3}
  MaxNews = 2
INVARIANTS MarkWasCompared ListedIsPinned
PROPERTIES KeyKeptOrAsked
SYMMETRY Symmetry
CHECK_DEADLOCK FALSE
