CONSTANTS
  Safe = 8
  MaxI64 = 15
  Small = 4
  MaxHops = 2
  Inputs <- MCInputs
SPECIFICATION Spec
INVARIANT DecodeNeverSurprises
INVARIANT AuthorityExact
INVARIANT NothingLost
INVARIANT GrantsCanBeReleased
INVARIANT StuckOnlyOnNull
CHECK_DEADLOCK FALSE
