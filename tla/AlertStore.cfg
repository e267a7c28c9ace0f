SPECIFICATION Spec
CONSTANTS
  Delivered = {"o"}
  Local = {"r"}
  Transactions <- FourTransactions
  CompactAt = 3
  FailPoints <- SafeFailPoints
  DamageKinds = {"bad", "zero"}
  MaxTxn = 4
  Budget <- CrashBudget
INVARIANTS
  TypeOK
  NothingCommittedIsLost
  DamageIsMarked
  ReopenIsIdentity
CHECK_DEADLOCK FALSE
