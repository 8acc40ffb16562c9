SPECIFICATION FairSpec
CONSTANTS
  p1 = p1
  p2 = p2
  a = a
  b = b
  w1 = w1
  w2 = w2
  None = None
  Gone = Gone
  Products <- MCOneProduct
  Workers = {w1, w2}
  Texts = {a, b}
  First <- MCFirst
  Slots = {1}
  Prompt = FALSE
  MaxEdits = 1
  MaxArchives = 0
  MaxFaults = 1
  MaxResets = 1
  MaxAttempts = 2
  BatchSize = 1
PROPERTIES
  VectorsKept
  Healed
  
