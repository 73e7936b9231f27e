CONSTANTS
  org = org
  project = project
  NoRow = NoRow
  Row = {org, project}
  key = key
  References <- ForeignKeys
  NoTxn = NoTxn
  Txn = {t1, t2}
  Client = {c1}
  PageSize = 1
  MaxSeq = 4
  Unknown = Unknown
SPECIFICATION Spec
SYMMETRY Sessions
INVARIANTS
  NoSkip
  NoSilentDelete
  NoLastingOrphan
PROPERTIES
  NoLostUpdate
  ImplementsFeed
