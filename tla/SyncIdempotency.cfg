CONSTANTS
  k1 = k1
  k2 = k2
  k3 = k3
  f1 = f1
  f2 = f2
  f3 = f3
  Null = Null
  Session = {s1, s2}
  OldSession = {o1}
  Key = {k1, k2, k3}
  Fingerprint = {f1, f2, f3}
  Request <- Requests
  LegacyLedger <- Found
  MaxPrunes = 1
SPECIFICATION Spec
INVARIANTS
  AtMostOnce
  AnswersAreTrue
  LateEffectNeedsRebirth
