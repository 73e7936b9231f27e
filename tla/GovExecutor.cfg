CONSTANTS
  e1 = e1
  e2 = e2
  p1 = p1
  p2 = p2
  s1 = s1
  s2 = s2
  v1 = v1
  v2 = v2
  none = none
  Executor = {e1, e2}
  Proposal = {p1, p2}
  Scope = {s1}
  Value = {v1, v2}
  NoValue = none
  Sets <- MCSets
  Constitutional = {p2}
  Unsupported = {}
  MaxToken = 2
  MaxGeneration = 2
SPECIFICATION Spec
SYMMETRY Interchangeable
INVARIANTS
  SentOnce
  FencedSends
  TruthfulAnswers
