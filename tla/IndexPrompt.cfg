SPECIFICATION Spec
CONSTANTS
  p1 = p1
  p2 = p2
  a = a
  b = b
  w1 = w1
  w2 = w2
  None = None
  Gone = Gone
  Products <- MCTwoProducts
  Workers = {w1, w2}
  Texts = {a, b}
  First <- MCFirst
  Slots = {1, 2}
  Prompt = TRUE
  MaxEdits = 1
  MaxArchives = 1
  MaxFaults = 1
  MaxResets = 1
  MaxAttempts = 2
  BatchSize = 2
SYMMETRY ProductSymmetry
INVARIANTS
  LeaseExclusive
  VectorsMatch
