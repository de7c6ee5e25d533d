\* Five algorithms, one to three frames for four pages, eight requests.
CONSTANTS
  p1 = p1
  p2 = p2
  p3 = p3
  p4 = p4
  NoPage = NoPage
  Pages <- const_Pages
  Algorithms = {0, 1, 2, 3, 4}
  Frames = {1, 2, 3}
  MaxRequests = 8
CHECK_DEADLOCK FALSE
SPECIFICATION Spec
SYMMETRY PageSymmetry
INVARIANT ContentsAsDefined
PROPERTY ClockVictim
PROPERTY LfuVictim
