SPECIFICATION Spec
CONSTANTS
  e1 = e1
  e2 = e2
  s1 = s1
  s2 = s2
  a = a
  b = b
  q1 = q1
  r1 = r1
  r2 = r2
  None = None
  Requests = {r1, r2}
  Queries = {q1}
  Texts = {a, b}
  First = a
  Sizes <- MCDocumented
  Embedders <- MCOneEmbedder
  Rerankers <- MCRerankers
  Threshold = 2
  MaxAttempts = 1
  Reset = 1
  Quota = 2
  QueryTTL = 1
  RankTTL = 1
  MaxEntries = 1
  MaxSearches = 2
  MaxFailures = 2
  MaxEdits = 1

INVARIANTS RanksFresh SpentLeftAlone
PROPERTIES Answered
