\* Lengths that leave every remainder when divided among four threads.
CONSTANTS
  Keys = {0, 1}
  Lefts = {0, 1}
  Lengths = {1, 2, 5, 6, 7, 9}
  Programs <- all_Programs
SPECIFICATION Spec
INVARIANT SortsInput
INVARIANT NoDataRace
PROPERTY Returns
\* The program ends when the call has returned.
CHECK_DEADLOCK FALSE
