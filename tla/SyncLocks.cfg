CONSTANTS
  Id = {a}
  Txn = {t1, t2, t3}
  Issued = {"claimKey", "deleteUser", "renameOrg", "addMember"}
  MaxStmts = 2
SPECIFICATION FairLocksSpec
INVARIANTS
  OnlyStraysDeadlock
PROPERTY WaitersServed
