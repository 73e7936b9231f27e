CONSTANTS
  org = org
  project = project
  NoRow = NoRow
  Row = {org, project}
  key = key
  References <- ForeignKeys
  NoTxn = NoTxn
  Txn = {t1}
  Client = {c1}
  PageSize = 1
  MaxSeq = 4
  Unknown = Unknown
SPECIFICATION FairSpec
PROPERTY ClientsCatchUp
