CONSTANTS
  founder = founder
  guardian = guardian
  pay = pay
  sign = sign
  key = key
  normal = normal
  away = away
  Unset = Unset
  Participant = {founder, guardian}
  Role = {"founder", "guardian"}
  Credential = {key}
  State = {normal, away}
  Kind = {pay, sign}
  Quantities = {0, 1, 2}
  Entries <- MCEntries
  Genuine = {TRUE}
  Dates = {0, 1}
  Deadlines = {3}
  Charters <- MCCharters
  Drafts <- MCDrafts
  MaxTime = 2
  MaxVersion = 3
  MaxProposals = 1
  MaxApprovals = 2
SPECIFICATION Spec
INVARIANTS
  NeverWeakened
  AuthorityOnlyShrinks
