\* Four paragraphs: one turn, two waiting for later turns, one still to start.
CONSTANTS
  Paragraphs = 4
  NoThread = NoThread
  MaxSpurious = 2
SPECIFICATION Spec
INVARIANT ShownInOrder
INVARIANT NoStrandedReader
PROPERTY WholePageShown
