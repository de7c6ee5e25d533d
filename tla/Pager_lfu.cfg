\* LFU in two frames; the history of an evicted page.
CONSTANTS
  p1 = p1
  p2 = p2
  p3 = p3
  p4 = p4
  NoPage = NoPage
  Pages <- const_Pages
  Algorithms = {2}
  Frames = {2}
  MaxRequests = 8
CHECK_DEADLOCK FALSE
SPECIFICATION Spec
SYMMETRY PageSymmetry
INVARIANT LfuInfiniteHistory
